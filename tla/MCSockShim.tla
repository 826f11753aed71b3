----------------------------- MODULE MCSockShim -----------------------------
(* A task whose sockets share its PumpSig, and perhaps a second task. *)
EXTENDS SockShim
CONSTANTS s1, s2, f1, f2
=============================================================================
