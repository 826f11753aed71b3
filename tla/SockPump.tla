------------------------------ MODULE SockPump ------------------------------
(***************************************************************************)
(* The kqueue pump of hosted/bsdsocket/bsdsock_pump.c: one host thread     *)
(* (pump_main) that turns socket readiness into wakes of AROS-side tasks,  *)
(* the registration table it shares with them under reg_mtx, and the wake  *)
(* primitive PumpSig (a latch and a self-pipe under its own mutex).        *)
(*                                                                         *)
(* A task is named by its PumpSig.  A locked region is one step.  A pipe   *)
(* is drained to the end whenever it is read, so only "not empty" matters. *)
(* The kqueue and the sockets are external: a level-triggered filter       *)
(* carries the Reg* it was added with, kevent() returns the filters whose  *)
(* socket is ready then.                                                   *)
(***************************************************************************)
EXTENDS Integers, FiniteSets, FiniteSetsExt

CONSTANTS Sig,        \* the wake targets
          Fd,         \* the host sockets
          Dir,        \* PS_WANT_READ, PS_WANT_WRITE
          MAX_REGS,   \* the size of the registration table
          NULL

ASSUME PumpAssumption ==
    /\ Dir \subseteq {"READ", "WRITE"}
    /\ MAX_REGS \in Nat /\ MAX_REGS > 0
    /\ NULL \notin Fd \cup Sig

VARIABLES g_regs,      \* the registration table
          filters,     \* the kqueue: [fd, dir, reg] with reg the udata
          level,       \* the <<fd, dir>> that are ready (external)
          ctl,         \* the control pipe is not empty
          should_stop, running,
          mpc,         \* the controlling thread, in pump_stop or not
          ppc,         \* pump_main
          evs,         \* the events of its batch that it has not handled yet
          psig,        \* the target it is about to wake
          latched, pipe,   \* of each PumpSig
          live,        \* not yet (or no longer) freed
          tpc,         \* the pump call a task is in
          owed         \* its last ps_wait was woken and it has not drained since

pumpVars == <<ppc, evs, psig>>
sigVars  == <<latched, pipe, live>>
taskVars == <<tpc, owed>>
ctlVars  == <<ctl, should_stop, running, mpc>>
vars     == <<g_regs, filters, level, ctlVars, pumpVars, sigVars, taskVars>>

Slot   == 1..MAX_REGS
Unused == [in_use |-> FALSE, fd |-> NULL, want |-> {}, ready |-> {}, sig |-> NULL]
CTL    == [fd |-> "ctl", dir |-> "READ", reg |-> 0]

Init ==
    /\ g_regs = [i \in Slot |-> Unused]
    /\ filters = {} /\ level = {}
    /\ ctl = FALSE /\ should_stop = FALSE /\ running = FALSE
    /\ mpc = "off"
    /\ ppc = "off" /\ evs = {} /\ psig = NULL
    /\ latched = [s \in Sig |-> FALSE] /\ pipe = [s \in Sig |-> FALSE]
    /\ live = [s \in Sig |-> FALSE]
    /\ tpc = [s \in Sig |-> "idle"] /\ owed = [s \in Sig |-> FALSE]

-----------------------------------------------------------------------------
(* The sockets: data arrives, buffers fill and empty *)

socket_changes(f, d) ==
    /\ level' = IF <<f, d>> \in level THEN level \ {<<f, d>>} ELSE level \cup {<<f, d>>}
    /\ UNCHANGED <<g_regs, filters, ctlVars, pumpVars, sigVars, taskVars>>

-----------------------------------------------------------------------------
(* PumpSig *)

ps_create(s) ==
    /\ tpc[s] = "idle" /\ ~live[s]
    /\ live' = [live EXCEPT ![s] = TRUE]
    /\ latched' = [latched EXCEPT ![s] = FALSE]
    /\ pipe' = [pipe EXCEPT ![s] = FALSE]
    /\ owed' = [owed EXCEPT ![s] = FALSE]
    /\ UNCHANGED <<g_regs, filters, level, ctlVars, pumpVars, tpc>>

\* Its owner has unregistered every fd before, as every caller does.
ps_destroy(s) ==
    /\ tpc[s] = "idle" /\ live[s]
    /\ \A i \in Slot : g_regs[i].sig # s
    /\ live' = [live EXCEPT ![s] = FALSE]
    /\ UNCHANGED <<g_regs, filters, level, ctlVars, pumpVars, latched, pipe, taskVars>>

\* Set the latch and, if it was not set, write one byte.
ps_wake(s) ==
    /\ latched' = [latched EXCEPT ![s] = TRUE]
    /\ pipe' = [pipe EXCEPT ![s] = IF latched[s] THEN @ ELSE TRUE]

ps_wait_call(s) ==
    /\ tpc[s] = "idle" /\ live[s]
    /\ tpc' = [tpc EXCEPT ![s] = "check"]
    /\ UNCHANGED <<g_regs, filters, level, ctlVars, pumpVars, sigVars, owed>>

\* A mutated wait: it forgets an old wake instead of returning at once.
MutPsWaitCheck(s) ==
    /\ tpc[s] = "check"
    /\ latched' = [latched EXCEPT ![s] = FALSE]
    /\ pipe' = [pipe EXCEPT ![s] = FALSE]
    /\ tpc' = [tpc EXCEPT ![s] = "select"]
    /\ UNCHANGED <<g_regs, filters, level, ctlVars, pumpVars, live, owed>>

\* check_latch: consume the latch and drain the pipe, or go to sleep.
ps_wait_check(s) ==
    /\ tpc[s] = "check"
    /\ IF latched[s]
         THEN /\ latched' = [latched EXCEPT ![s] = FALSE]
              /\ pipe' = [pipe EXCEPT ![s] = FALSE]
              /\ tpc' = [tpc EXCEPT ![s] = "idle"]
              /\ owed' = [owed EXCEPT ![s] = TRUE]
         ELSE /\ tpc' = [tpc EXCEPT ![s] = "select"]
              /\ UNCHANGED <<latched, pipe, owed>>
    /\ UNCHANGED <<g_regs, filters, level, ctlVars, pumpVars, live>>

\* select() sees the byte.
ps_wait_readable(s) ==
    /\ tpc[s] = "select" /\ pipe[s]
    /\ tpc' = [tpc EXCEPT ![s] = "check"]
    /\ UNCHANGED <<g_regs, filters, level, ctlVars, pumpVars, sigVars, owed>>

\* EINTR: test the latch again.
ps_wait_eintr(s) ==
    /\ tpc[s] = "select"
    /\ tpc' = [tpc EXCEPT ![s] = "check"]
    /\ UNCHANGED <<g_regs, filters, level, ctlVars, pumpVars, sigVars, owed>>

\* The timeout: return 0, whatever was latched after select() gave up.
ps_wait_timeout(s) ==
    /\ tpc[s] = "select" /\ ~pipe[s]
    /\ tpc' = [tpc EXCEPT ![s] = "idle"]
    /\ UNCHANGED <<g_regs, filters, level, ctlVars, pumpVars, sigVars, owed>>

-----------------------------------------------------------------------------
(* The registration table *)

find_reg(f, s)   == {i \in Slot : g_regs[i].in_use /\ g_regs[i].fd = f /\ g_regs[i].sig = s}
find_fd_owner(f) == {i \in Slot : g_regs[i].in_use /\ g_regs[i].fd = f}
free_regs        == {i \in Slot : ~g_regs[i].in_use}

\* set_filter for both directions: EV_ADD replaces the udata.
apply_filters(f, want, i) ==
    {k \in filters : k.fd # f} \cup {[fd |-> f, dir |-> d, reg |-> i] : d \in want}

clear_filters(f) == {k \in filters : k.fd # f}

\* The registration a call of s for f would use: its own, else the first free
\* entry unless another sig owns f.
RegFor(f, s) ==
    IF find_reg(f, s) # {} THEN find_reg(f, s)
    ELSE IF find_fd_owner(f) # {} \/ free_regs = {} THEN {}
    ELSE {Min(free_regs)}

\* A mutated registration: a second one for the same fd does not reach the kqueue.
MutRegister(s, f, want) ==
    /\ tpc[s] = "idle" /\ live[s] /\ running
    /\ \E i \in RegFor(f, s) :
         /\ g_regs' = [g_regs EXCEPT ![i] =
               [in_use |-> TRUE, fd |-> f, want |-> want, sig |-> s,
                ready |-> IF find_reg(f, s) = {} THEN {} ELSE @.ready]]
         /\ filters' = IF find_reg(f, s) = {} THEN apply_filters(f, want, i) ELSE filters
    /\ tpc' = [tpc EXCEPT ![s] = "reg_wake"]
    /\ UNCHANGED <<level, ctlVars, pumpVars, sigVars, owed>>

pump_register(s, f, want) ==
    /\ tpc[s] = "idle" /\ live[s] /\ running
    /\ \E i \in RegFor(f, s) :
         /\ g_regs' = [g_regs EXCEPT ![i] =
               [in_use |-> TRUE, fd |-> f, want |-> want, sig |-> s,
                ready |-> IF find_reg(f, s) = {} THEN {} ELSE @.ready]]
         /\ filters' = apply_filters(f, want, i)
    /\ tpc' = [tpc EXCEPT ![s] = "reg_wake"]
    /\ UNCHANGED <<level, ctlVars, pumpVars, sigVars, owed>>

\* Return -1: no pump, another owner, or a full table.
pump_register_fails(s, f) ==
    /\ tpc[s] = "idle" /\ live[s]
    /\ ~running \/ RegFor(f, s) = {}
    /\ UNCHANGED vars

\* pump_wake_kqueue, after the lock was released.
register_wake(s) ==
    /\ tpc[s] = "reg_wake"
    /\ ctl' = TRUE
    /\ tpc' = [tpc EXCEPT ![s] = "idle"]
    /\ UNCHANGED <<g_regs, filters, level, should_stop, running, mpc, pumpVars, sigVars, owed>>

\* A mutated unregistration: it matches the fd alone.
MutUnregister(s, f) ==
    /\ tpc[s] = "idle" /\ live[s] /\ running
    /\ filters' = clear_filters(f)
    /\ g_regs' = [i \in Slot |-> IF i \in find_reg(f, s) THEN Unused ELSE g_regs[i]]
    /\ UNCHANGED <<level, ctlVars, pumpVars, sigVars, taskVars>>

\* Only the owner's call does anything.
pump_unregister(s, f) ==
    /\ tpc[s] = "idle" /\ live[s] /\ running
    /\ filters' = IF find_reg(f, s) = {} THEN filters ELSE clear_filters(f)
    /\ g_regs' = [i \in Slot |-> IF i \in find_reg(f, s) THEN Unused ELSE g_regs[i]]
    /\ UNCHANGED <<level, ctlVars, pumpVars, sigVars, taskVars>>

\* The stashes of s, up to max of them, in table order.
Stashed(s) == {i \in Slot : g_regs[i].in_use /\ g_regs[i].sig = s /\ g_regs[i].ready # {}}

pump_drain(s, max) ==
    /\ tpc[s] = "idle" /\ live[s]
    /\ LET taken == {i \in Stashed(s) : Cardinality({j \in Stashed(s) : j < i}) < max}
       IN  /\ g_regs' = [i \in Slot |-> IF i \in taken THEN [g_regs[i] EXCEPT !.ready = {}]
                                         ELSE g_regs[i]]
           /\ owed' = [owed EXCEPT ![s] = @ /\ taken # Stashed(s)]
    /\ UNCHANGED <<filters, level, ctlVars, pumpVars, sigVars, tpc>>

-----------------------------------------------------------------------------
(* pump_main *)

Active == {k \in filters : <<k.fd, k.dir>> \in level} \cup (IF ctl THEN {CTL} ELSE {})

\* kevent() blocks until something is ready.
pump_kevent ==
    /\ ppc = "kevent"
    /\ Active # {}
    /\ evs' = Active
    /\ ppc' = "check"
    /\ UNCHANGED <<g_regs, filters, level, ctlVars, psig, sigVars, taskVars>>

\* if (g_pump_should_stop) break;
pump_check ==
    /\ ppc = "check"
    /\ IF should_stop THEN ppc' = "off" /\ evs' = {}
                      ELSE ppc' = "scan" /\ UNCHANGED evs
    /\ UNCHANGED <<g_regs, filters, level, ctlVars, psig, sigVars, taskVars>>

pump_control ==
    /\ ppc = "scan"
    /\ CTL \in evs
    /\ ctl' = FALSE
    /\ evs' = evs \ {CTL}
    /\ UNCHANGED <<g_regs, filters, level, should_stop, running, mpc, ppc, psig,
                   sigVars, taskVars>>

\* The Reg of an event is still the one that wants it.
Valid(e) == /\ g_regs[e.reg].in_use
            /\ g_regs[e.reg].fd = e.fd
            /\ e.dir \in g_regs[e.reg].want

\* Stash the direction under reg_mtx and note the target.
pump_event(e) ==
    /\ ppc = "scan"
    /\ e \in evs \ {CTL}
    /\ evs' = evs \ {e}
    /\ IF Valid(e)
         THEN /\ g_regs' = [g_regs EXCEPT ![e.reg].ready = @ \cup {e.dir}]
              /\ psig' = g_regs[e.reg].sig
              /\ ppc' = "wake"
         ELSE UNCHANGED <<g_regs, psig, ppc>>
    /\ UNCHANGED <<filters, level, ctlVars, sigVars, taskVars>>

\* ps_wake outside the lock.  The memory of a destroyed target is not modelled:
\* such a wake has no effect here.
pump_wake ==
    /\ ppc = "wake"
    /\ IF live[psig] THEN ps_wake(psig) ELSE UNCHANGED <<latched, pipe>>
    /\ psig' = NULL
    /\ ppc' = "scan"
    /\ UNCHANGED <<g_regs, filters, level, ctlVars, evs, live, taskVars>>

pump_next ==
    /\ ppc = "scan" /\ evs = {}
    /\ ppc' = "kevent"
    /\ UNCHANGED <<g_regs, filters, level, ctlVars, evs, psig, sigVars, taskVars>>

PumpStep == pump_kevent \/ pump_check \/ pump_control
            \/ (\E e \in evs : pump_event(e)) \/ pump_wake \/ pump_next

-----------------------------------------------------------------------------
(* pump_start and pump_stop, on the controlling thread, which calls them    *)
(* when no task is inside a pump call.                                      *)

Quiet == \A s \in Sig : tpc[s] = "idle"

pump_start ==
    /\ mpc = "off" /\ ~running /\ Quiet
    /\ running' = TRUE /\ should_stop' = FALSE /\ ctl' = FALSE
    /\ ppc' = "kevent"
    /\ mpc' = "on"
    /\ UNCHANGED <<g_regs, filters, level, evs, psig, sigVars, taskVars>>

pump_stop ==
    /\ mpc = "on" /\ running /\ Quiet
    /\ should_stop' = TRUE
    /\ mpc' = "stop_wake"
    /\ UNCHANGED <<g_regs, filters, level, ctl, running, pumpVars, sigVars, taskVars>>

stop_wake ==
    /\ mpc = "stop_wake"
    /\ ctl' = TRUE
    /\ mpc' = "stop_join"
    /\ UNCHANGED <<g_regs, filters, level, should_stop, running, pumpVars, sigVars, taskVars>>

\* pthread_join, close the pipe and the kqueue, clear the table.
stop_join ==
    /\ mpc = "stop_join"
    /\ ppc = "off"
    /\ running' = FALSE /\ ctl' = FALSE
    /\ filters' = {}
    /\ g_regs' = [i \in Slot |-> Unused]
    /\ mpc' = "off"
    /\ UNCHANGED <<level, should_stop, pumpVars, sigVars, taskVars>>

StopStep == stop_wake \/ stop_join

-----------------------------------------------------------------------------

\* The tasks call in any order; not while the controlling thread stops the pump.
TaskCall(s) ==
    /\ mpc \in {"off", "on"}
    /\ \/ ps_create(s) \/ ps_destroy(s) \/ ps_wait_call(s)
       \/ \E f \in Fd : \/ \E want \in SUBSET Dir : pump_register(s, f, want)
                        \/ pump_register_fails(s, f)
                        \/ pump_unregister(s, f)
       \/ \E max \in 1..MAX_REGS : pump_drain(s, max)

WaitStep(s) == ps_wait_check(s) \/ ps_wait_readable(s)

TaskStep(s) == \/ TaskCall(s) \/ register_wake(s) \/ WaitStep(s)
               \/ ps_wait_eintr(s) \/ ps_wait_timeout(s)

Next == \/ \E f \in Fd, d \in Dir : socket_changes(f, d)
        \/ \E s \in Sig : TaskStep(s)
        \/ PumpStep
        \/ pump_start \/ pump_stop \/ StopStep

Spec == Init /\ [][Next]_vars

\* The host schedules every thread; no timeout and no socket event is assumed.
LiveSpec == /\ Spec
            /\ WF_vars(PumpStep) /\ WF_vars(StopStep)
            /\ \A s \in Sig : WF_vars(register_wake(s)) /\ WF_vars(WaitStep(s))

-----------------------------------------------------------------------------
(* Properties *)

\* The pump's state keeps its type.
TypeOK ==
    /\ g_regs \in [Slot -> [in_use : BOOLEAN, fd : Fd \cup {NULL}, want : SUBSET Dir,
                            ready : SUBSET Dir, sig : Sig \cup {NULL}]]
    /\ filters \subseteq [fd : Fd, dir : Dir, reg : Slot]
    /\ level \subseteq Fd \X Dir
    /\ ctl \in BOOLEAN /\ should_stop \in BOOLEAN /\ running \in BOOLEAN
    /\ mpc \in {"off", "on", "stop_wake", "stop_join"}
    /\ ppc \in {"off", "kevent", "check", "scan", "wake"}
    /\ evs \subseteq [fd : Fd, dir : Dir, reg : Slot] \cup {CTL}
    /\ psig \in Sig \cup {NULL} /\ (ppc = "wake") = (psig # NULL)
    /\ latched \in [Sig -> BOOLEAN] /\ pipe \in [Sig -> BOOLEAN] /\ live \in [Sig -> BOOLEAN]
    /\ tpc \in [Sig -> {"idle", "check", "select", "reg_wake"}]
    /\ owed \in [Sig -> BOOLEAN]

\* The single-owner-fd contract and the kqueue agree: a socket has at most one
\* registration, and its filters are exactly the directions that one wants,
\* routed to it, whoever else tried to register or unregister the same fd.
FiltersMatch ==
    /\ \A i, j \in Slot : g_regs[i].in_use /\ g_regs[j].in_use
                          /\ g_regs[i].fd = g_regs[j].fd => i = j
    /\ filters = UNION {{[fd |-> g_regs[i].fd, dir |-> d, reg |-> i] : d \in g_regs[i].want} :
                        i \in {j \in Slot : g_regs[j].in_use}}

\* No lost wake-up (R-RACE): readiness stashed for a task is announced by its
\* latch, or is about to be, unless the task was woken and has yet to drain; and
\* a latched wake always has its byte in the pipe, so that select() sees it.
NoLostWake ==
    \A s \in Sig :
        /\ Stashed(s) # {} => latched[s] \/ psig = s \/ owed[s]
        /\ latched[s] => pipe[s]

\* A task parked in ps_wait on a socket that is and stays ready wakes up, with
\* no help of its timeout, also when the readiness came before it parked.
ReadyWakesParked ==
    \A s \in Sig, f \in Fd, d \in Dir :
        /\ tpc[s] = "select" /\ <<f, d>> \in level
        /\ \E i \in find_reg(f, s) : d \in g_regs[i].want
        ~> (tpc[s] # "select" \/ <<f, d>> \notin level)

\* bsdsock_host.h on pump_stop: "Joins the thread cleanly so the process can
\* exit without hanging".
StopReturns == mpc = "stop_join" ~> mpc = "off"
=============================================================================
