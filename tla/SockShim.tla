------------------------------ MODULE SockShim ------------------------------
(***************************************************************************)
(* The blocking calls of hosted/bsdsocket/bsdsock_shim.c on top of the     *)
(* pump: hs_recv and hs_send (try, register, park a slice, unregister, try *)
(* again) and hs_connect (register once, probe and park, unregister).      *)
(*                                                                         *)
(* spent is counted in slices of 100 ms; Slices is PARK_TIMEOUT_MS / 100.  *)
(* What a transfer moves is left out: a call succeeds when the socket is   *)
(* ready for it.                                                           *)
(***************************************************************************)
EXTENDS SockPump

CONSTANT Slices

ASSUME ShimAssumption == Slices \in Nat /\ Slices > 0

VARIABLES hpc,       \* where the task is in an hs_ call; "out" when in none
          op,        \* "recv", "send" or "connect"
          hfd,       \* its socket
          spent      \* the code's count of slices

shimVars == <<hpc, op, hfd, spent>>
hsVars   == <<vars, shimVars>>

Wants(o) == IF o = "recv" THEN "READ" ELSE "WRITE"
Calls    == {o \in {"recv", "send", "connect"} : Wants(o) \in Dir}

Can(s)   == <<hfd[s], Wants(op[s])>> \in level

HSInit ==
    /\ Init
    /\ hpc = [s \in Sig |-> "out"]
    /\ op = [s \in Sig |-> "recv"] /\ hfd = [s \in Sig |-> NULL]
    /\ spent = [s \in Sig |-> 0]

HsAt(s, l) == hpc[s] = l /\ tpc[s] = "idle"
HsGoto(s, l) == hpc' = [hpc EXCEPT ![s] = l]

-----------------------------------------------------------------------------

\* hs_recv and hs_send try first; hs_connect saw EINPROGRESS and registers.
hs_call(s, o, f) ==
    /\ HsAt(s, "out") /\ live[s] /\ running /\ mpc = "on"
    /\ op' = [op EXCEPT ![s] = o]
    /\ hfd' = [hfd EXCEPT ![s] = f]
    /\ spent' = [spent EXCEPT ![s] = 0]
    /\ HsGoto(s, IF o = "connect" THEN "register" ELSE "try")
    /\ UNCHANGED vars

\* The non-blocking call, or fd_ready_now of hs_connect, is the re-probe.
hs_try(s) ==
    /\ HsAt(s, "try")
    /\ IF Can(s)
         THEN HsGoto(s, IF op[s] = "connect" THEN "finish" ELSE "ok")
         ELSE HsGoto(s, IF op[s] = "connect" THEN "deadline" ELSE "register")
    /\ UNCHANGED <<vars, op, hfd, spent>>

\* The result of pump_register is not looked at.
hs_register(s) ==
    /\ HsAt(s, "register")
    /\ pump_register(s, hfd[s], {Wants(op[s])}) \/ pump_register_fails(s, hfd[s])
    /\ HsGoto(s, IF op[s] = "connect" THEN "try" ELSE "deadline")
    /\ UNCHANGED <<op, hfd, spent>>

\* A mutated deadline: hs_recv and hs_send give up without unregistering.
MutDeadline(s) ==
    /\ HsAt(s, "deadline")
    /\ IF spent[s] >= Slices
         THEN HsGoto(s, IF op[s] = "connect" THEN "timed_out" ELSE "ETIMEDOUT") /\ UNCHANGED vars
         ELSE HsGoto(s, "waiting") /\ ps_wait_call(s)
    /\ UNCHANGED <<op, hfd, spent>>

\* if (spent >= PARK_TIMEOUT_MS) ...; else ps_wait(sig, 100)
hs_deadline(s) ==
    /\ HsAt(s, "deadline")
    /\ IF spent[s] >= Slices
         THEN HsGoto(s, "timed_out") /\ UNCHANGED vars
         ELSE HsGoto(s, "waiting") /\ ps_wait_call(s)
    /\ UNCHANGED <<op, hfd, spent>>

\* The slice elapsed.
hs_slice(s) ==
    /\ hpc[s] = "waiting"
    /\ ps_wait_timeout(s)
    /\ UNCHANGED shimVars

\* A mutated count: the slice is not added.
MutSpent(s) ==
    /\ HsAt(s, "waiting")
    /\ HsGoto(s, IF op[s] = "connect" THEN "try" ELSE "unregister")
    /\ UNCHANGED <<vars, op, hfd, spent>>

\* spent += 100, however ps_wait came back.
hs_spent(s) ==
    /\ HsAt(s, "waiting")
    /\ spent' = [spent EXCEPT ![s] = @ + 1]
    /\ HsGoto(s, IF op[s] = "connect" THEN "try" ELSE "unregister")
    /\ UNCHANGED <<vars, op, hfd>>

\* pump_unregister, between two tries and on every way out.
hs_unregister(s) ==
    /\ hpc[s] \in {"unregister", "finish", "timed_out"}
    /\ pump_unregister(s, hfd[s])
    /\ HsGoto(s, CASE hpc[s] = "unregister" -> "try"
                   [] hpc[s] = "finish"     -> "ok"
                   [] hpc[s] = "timed_out"  -> "ETIMEDOUT")
    /\ UNCHANGED <<op, hfd, spent>>

\* The caller takes the result.
hs_return(s) ==
    /\ hpc[s] \in {"ok", "ETIMEDOUT"}
    /\ HsGoto(s, "out")
    /\ hfd' = [hfd EXCEPT ![s] = NULL]
    /\ spent' = [spent EXCEPT ![s] = 0]
    /\ UNCHANGED <<vars, op>>

HsStep(s) == hs_try(s) \/ hs_register(s) \/ hs_deadline(s) \/ hs_slice(s)
             \/ hs_spent(s) \/ hs_unregister(s) \/ hs_return(s)

\* Outside an hs_ call a task may use the pump itself, as WaitSelect does: a
\* socket it registered then stays registered during its hs_ calls.
HSNext ==
    \/ \E s \in Sig :
         \/ \E o \in Calls, f \in Fd : hs_call(s, o, f)
         \/ HsStep(s)
         \/ hpc[s] = "out" /\ TaskStep(s) /\ UNCHANGED shimVars
         \/ (register_wake(s) \/ WaitStep(s) \/ ps_wait_eintr(s)) /\ UNCHANGED shimVars
    \/ PumpStep /\ UNCHANGED shimVars
    \/ (\E f \in Fd, d \in Dir : socket_changes(f, d)) /\ UNCHANGED shimVars
    \/ (pump_start \/ StopStep) /\ UNCHANGED shimVars
    \/ (\A s \in Sig : hpc[s] = "out") /\ pump_stop /\ UNCHANGED shimVars

HSSpec == HSInit /\ [][HSNext]_hsVars

\* Threads are scheduled, and select() does return when its 100 ms are over.
HSLive ==
    /\ HSSpec
    /\ WF_hsVars(PumpStep /\ UNCHANGED shimVars)
    /\ \A s \in Sig :
         /\ WF_hsVars(HsStep(s))
         /\ WF_hsVars((register_wake(s) \/ WaitStep(s)) /\ UNCHANGED shimVars)
         /\ SF_hsVars(hs_slice(s))

-----------------------------------------------------------------------------

\* A call that parked leaves no registration of its socket behind, on success
\* and on the timeout: else the level-triggered pump would keep waking a task
\* for a socket nobody waits on, and no other task could ever register it.
NothingLeftRegistered ==
    \A s \in Sig :
        hpc[s] = "ETIMEDOUT" \/ (hpc[s] = "ok" /\ (op[s] = "connect" \/ spent[s] > 0))
            => find_reg(hfd[s], s) = {}

\* Every hs_ call comes back, also when its socket never gets ready and when
\* pump_register failed.
HsReturns == \A s \in Sig : hpc[s] = "try" ~> hpc[s] \in {"ok", "ETIMEDOUT"}
=============================================================================
