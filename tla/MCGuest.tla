------------------------------ MODULE MCGuest -------------------------------
(* A guest program with two tasks of its own, and a guest program with two
   libraries on disk: the contexts and the libraries of one runtime, in
   separate behaviours as neither touches what the other is about. *)
EXTENDS GuestTasks, GuestLibs

VARIABLE part
guestVars == <<vm, gl, part>>

MCInit == GuestInit /\ LibsInit /\ part \in {"tasks", "libraries"}
MCNext ==
    \/ part = "tasks" /\ GuestNext /\ UNCHANGED <<gl, part>>
    \/ part = "libraries" /\ LibsNext /\ UNCHANGED <<vm, part>>
MCSpec == MCInit /\ [][MCNext]_guestVars
=============================================================================
