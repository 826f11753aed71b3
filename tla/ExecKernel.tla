----------------------------- MODULE ExecKernel -----------------------------
(***************************************************************************)
(* The hosted exec kernel: the SIGALRM driven priority scheduler           *)
(* (hosted/exec.c, H4), Forbid/Permit (hosted/kern.c, H6) and the blocking *)
(* primitive Wait/Signal (hosted/signal.c, H9).  The same code is repeated *)
(* in msgport.c, device.c and execboot.c.                                  *)
(*                                                                         *)
(* Everything runs on ONE host thread.  The only concurrency is the timer  *)
(* signal, whose handler on_alarm may swap the interrupted register file   *)
(* for another task's.  So the task ThisTask takes small steps, and        *)
(* between any two of them a tick may happen.  The handler itself is       *)
(* atomic: SIGALRM is blocked while it runs.                               *)
(*                                                                         *)
(* ticks is abstracted to `expired', the truth of ticks >= TICK_LIMIT,     *)
(* which is all the program ever asks of it.  Signal masks are sets of     *)
(* bits.  TaskWait is a set: its order is never read.                      *)
(***************************************************************************)
EXTENDS Integers, Sequences, FiniteSets, SequencesExt

CONSTANTS Task,      \* the workers
          boot,      \* boot_task: the host's main thread
          Pri,       \* tc_Node.ln_Pri of every worker
          SigBit,    \* the signal bits in use
          Ops,       \* the kernel calls the workers make
          Overflow   \* workers whose SP may be found outside their stack

ASSUME KernelAssumption ==
    /\ boot \notin Task
    /\ Pri \in [Task -> Int]
    /\ Ops \subseteq {"Wait", "Signal", "Crit"}
    /\ Overflow \subseteq Task
    \* exec.c and kern.c probe the stack and have no Wait/Signal; signal.c
    \* and its successors have Wait/Signal and do not probe the stack.
    /\ Overflow # {} => Ops \subseteq {"Crit"}

VARIABLES ThisTask,     \* SysBase->ThisTask, the task that has the CPU
          TaskReady,    \* SysBase->TaskReady, a priority ordered list
          TaskWait,     \* SysBase->TaskWait
          tc_State,     \* TS_INVALID, TS_RUN, TS_READY, TS_WAIT
          tc_SigRecvd,
          tc_SigWait,
          forbid_cnt,
          sched_on, inited, expired,
          boot_pc,      \* where main() is
          pc,           \* where a worker is: "user" or inside a kernel call
          cont,         \* where it goes after the present Forbid or Permit
          reg,          \* its register copy of forbid_cnt (the RMW is not atomic)
          sigs,         \* the sigset argument of its present call
          target        \* the task argument of its present Signal

schedVars == <<ThisTask, TaskReady, tc_State, sched_on, inited, expired, boot_pc>>
sigVars   == <<TaskWait, tc_SigRecvd, tc_SigWait>>
callVars  == <<pc, cont, reg, sigs, target>>
vars      == <<schedVars, sigVars, forbid_cnt, callVars>>

AllTask == Task \cup {boot}

\* Labels between Forbid's store and Permit's store: the critical sections.
CritLabel == {"wait_test", "wait_block", "wait_take", "sig_or", "sig_wake",
              "crit", "crit2", "permit", "permit_st"}
Label     == CritLabel \cup {"user", "forbid_st", "spin"}

-----------------------------------------------------------------------------
(* exec lists *)

\* A mutated Enqueue: the priority is not looked at.
MutEnqueueTail(l, t) == Append(l, t)

\* A mutated Enqueue: a new task goes before the equal-priority ones.
MutEnqueueLifo(l, t) ==
    InsertAt(l, Min({i \in 1..Len(l) : Pri[l[i]] <= Pri[t]} \cup {Len(l) + 1}), t)

\* Insert before the first node of strictly lower priority, else at the end.
Enqueue(l, t) ==
    InsertAt(l, Min({i \in 1..Len(l) : Pri[l[i]] < Pri[t]} \cup {Len(l) + 1}), t)

-----------------------------------------------------------------------------
(* main(), on the boot task *)

Init ==
    /\ ThisTask = boot
    /\ TaskReady = <<>>
    /\ TaskWait = {}
    /\ tc_State = [t \in AllTask |-> IF t = boot THEN "RUN" ELSE "INVALID"]
    /\ tc_SigRecvd = [t \in Task |-> {}]
    /\ tc_SigWait = [t \in Task |-> {}]
    /\ forbid_cnt = 0
    /\ sched_on = FALSE
    /\ inited = FALSE
    /\ expired = FALSE
    /\ boot_pc = "spawn"
    /\ pc = [t \in Task |-> "user"]
    /\ cont = [t \in Task |-> "user"]
    /\ reg = [t \in Task |-> 0]
    /\ sigs = [t \in Task |-> {}]
    /\ target = [t \in Task |-> t]

\* spawn() / AddTask(): a fresh task becomes READY.
spawn(t) ==
    /\ boot_pc = "spawn"
    /\ tc_State[t] = "INVALID"
    /\ tc_State' = [tc_State EXCEPT ![t] = "READY"]
    /\ TaskReady' = Enqueue(TaskReady, t)
    /\ UNCHANGED <<ThisTask, sched_on, inited, expired, boot_pc, sigVars,
                   forbid_cnt, callVars>>

\* sched_on = 1, after every worker was spawned.
arm ==
    /\ boot_pc = "spawn"
    /\ \A t \in Task : tc_State[t] # "INVALID"
    /\ sched_on' = TRUE
    /\ boot_pc' = "loop"
    /\ UNCHANGED <<ThisTask, TaskReady, tc_State, inited, expired, sigVars,
                   forbid_cnt, callVars>>

\* main's busy loop sees ticks >= TICK_LIMIT, disarms the timer and reports.
main_exit ==
    /\ ThisTask = boot
    /\ boot_pc = "loop"
    /\ expired
    /\ boot_pc' = "done"
    /\ UNCHANGED <<ThisTask, TaskReady, tc_State, sched_on, inited, expired,
                   sigVars, forbid_cnt, callVars>>

-----------------------------------------------------------------------------
(* the timer signal *)

\* ticks++ may reach TICK_LIMIT (which is far above 1, so not before `inited').
tick_count == expired' \in {b \in BOOLEAN : (expired => b) /\ (b => inited)}

\* A tick before sched_on or after shutdown only counts.
tick_off ==
    /\ ~sched_on
    /\ boot_pc # "done"
    /\ tick_count
    /\ UNCHANGED <<ThisTask, TaskReady, tc_State, sched_on, inited, boot_pc,
                   sigVars, forbid_cnt, callVars>>

\* The first armed tick builds the workers' first register frames.
tick_init ==
    /\ sched_on /\ ~inited
    /\ inited' = TRUE
    /\ UNCHANGED <<ThisTask, TaskReady, tc_State, sched_on, expired, boot_pc,
                   sigVars, forbid_cnt, callVars>>

\* A mutated gate: the handler does not look at forbid_cnt.
MutNoGate == TRUE

\* on_alarm returns at once while forbid_cnt > 0.
Preemptible == forbid_cnt = 0

\* A tick inside a Forbid window only counts.
tick_forbidden ==
    /\ sched_on /\ inited
    /\ ~Preemptible
    /\ tick_count
    /\ UNCHANGED <<ThisTask, TaskReady, tc_State, sched_on, inited, boot_pc,
                   sigVars, forbid_cnt, callVars>>

\* TICK_LIMIT reached: the boot context is restored, the worker abandoned.
tick_shutdown ==
    /\ sched_on /\ inited /\ Preemptible
    /\ tick_count /\ expired'
    /\ sched_on' = FALSE
    /\ ThisTask' = boot
    /\ tc_State' = [tc_State EXCEPT ![boot] = "RUN"]
    /\ UNCHANGED <<TaskReady, inited, boot_pc, sigVars, forbid_cnt, callVars>>

\* core_Schedule() is false: nobody is ready, the interrupted task goes on.
tick_idle ==
    /\ sched_on /\ inited /\ Preemptible
    /\ tick_count /\ ~expired'
    /\ TaskReady = <<>>
    /\ UNCHANGED <<ThisTask, TaskReady, tc_State, sched_on, inited, boot_pc,
                   sigVars, forbid_cnt, callVars>>

\* A mutated core_Switch: it requeues the task whatever its state.
MutSwitchAlways(t, spOk) ==
    IF t = boot
      THEN [st |-> "READY", l |-> TaskReady]
      ELSE [st |-> "READY", l |-> Enqueue(TaskReady, t)]

\* A mutated core_Switch: the boot anchor enters the ready list as well.
MutSwitchBoot(t, spOk) ==
    IF tc_State[t] # "RUN"
      THEN [st |-> tc_State[t], l |-> TaskReady]
      ELSE [st |-> "READY", l |-> Append(TaskReady, t)]

\* core_Switch: what the interrupted task's state and the ready list become.
\* A task that blocked (TS_WAIT) is not requeued, the boot task never is, and
\* a task whose SP left its stack is parked.
core_Switch(t, spOk) ==
    IF tc_State[t] # "RUN"
      THEN [st |-> tc_State[t], l |-> TaskReady]
      ELSE IF t # boot /\ ~spOk
             THEN [st |-> "WAIT", l |-> TaskReady]
             ELSE IF t = boot
                    THEN [st |-> "READY", l |-> TaskReady]
                    ELSE [st |-> "READY", l |-> Enqueue(TaskReady, t)]

\* core_ExitInterrupt: cpu_Switch, then cpu_Dispatch of the head of TaskReady.
tick_switch ==
    /\ sched_on /\ inited /\ Preemptible
    /\ tick_count /\ ~expired'
    /\ TaskReady # <<>>
    /\ \E spOk \in {b \in BOOLEAN : ThisTask \notin Overflow => b} :
         LET sw == core_Switch(ThisTask, spOk)
             nt == Head(sw.l)
         IN  /\ TaskReady' = Tail(sw.l)
             /\ ThisTask' = nt
             /\ tc_State' = [tc_State EXCEPT ![ThisTask] = sw.st, ![nt] = "RUN"]
    /\ UNCHANGED <<sched_on, inited, boot_pc, sigVars, forbid_cnt, callVars>>

Tick == \/ tick_off \/ tick_init \/ tick_forbidden
        \/ tick_shutdown \/ tick_idle \/ tick_switch

-----------------------------------------------------------------------------
(* Forbid and Permit, a load and a store each.  A register or an argument  *)
(* that is dead (after the store, after the call) is reset, so that states  *)
(* which differ only in dead values are one.                                *)

At(t, l) == ThisTask = t /\ pc[t] = l

Goto(t, l) == pc' = [pc EXCEPT ![t] = l]

\* Forbid's load; control continues at l once forbid_cnt is stored.
ForbidLoad(t, l) ==
    /\ reg' = [reg EXCEPT ![t] = forbid_cnt]
    /\ cont' = [cont EXCEPT ![t] = l]
    /\ Goto(t, "forbid_st")

ForbidStore(t) ==
    /\ At(t, "forbid_st")
    /\ forbid_cnt' = reg[t] + 1
    /\ Goto(t, cont[t])
    /\ reg' = [reg EXCEPT ![t] = 0]
    /\ UNCHANGED <<schedVars, sigVars, cont, sigs, target>>

PermitLoad(t) ==
    /\ At(t, "permit")
    /\ reg' = [reg EXCEPT ![t] = forbid_cnt]
    /\ Goto(t, "permit_st")
    /\ UNCHANGED <<schedVars, sigVars, forbid_cnt, cont, sigs, target>>

\* A mutated Permit: it compares with 1.
MutPermitStore(t) ==
    /\ At(t, "permit_st")
    /\ forbid_cnt' = IF reg[t] > 1 THEN reg[t] - 1 ELSE forbid_cnt
    /\ Goto(t, cont[t])
    /\ reg' = [reg EXCEPT ![t] = 0]
    /\ sigs' = [sigs EXCEPT ![t] = IF cont[t] = "user" THEN {} ELSE @]
    /\ target' = [target EXCEPT ![t] = IF cont[t] = "user" THEN t ELSE @]
    /\ UNCHANGED <<schedVars, sigVars, cont>>

PermitStore(t) ==
    /\ At(t, "permit_st")
    /\ forbid_cnt' = IF reg[t] > 0 THEN reg[t] - 1 ELSE forbid_cnt
    /\ Goto(t, cont[t])
    /\ reg' = [reg EXCEPT ![t] = 0]
    /\ sigs' = [sigs EXCEPT ![t] = IF cont[t] = "user" THEN {} ELSE @]
    /\ target' = [target EXCEPT ![t] = IF cont[t] = "user" THEN t ELSE @]
    /\ UNCHANGED <<schedVars, sigVars, cont>>

\* Leave a critical section: Permit, then go to l.
PermitThen(t, l) ==
    /\ Goto(t, "permit")
    /\ cont' = [cont EXCEPT ![t] = l]

-----------------------------------------------------------------------------
(* Wait(sigset) *)

CallWait(t, S) ==
    /\ At(t, "user")
    /\ ForbidLoad(t, "wait_test")
    /\ sigs' = [sigs EXCEPT ![t] = S]
    /\ UNCHANGED <<schedVars, sigVars, forbid_cnt, target>>

WaitTest(t) ==
    /\ At(t, "wait_test")
    /\ Goto(t, IF tc_SigRecvd[t] \cap sigs[t] = {} THEN "wait_block" ELSE "wait_take")
    /\ UNCHANGED <<schedVars, sigVars, forbid_cnt, cont, reg, sigs, target>>

\* A mutated block: the task announces TS_WAIT but keeps its old tc_SigWait.
MutWaitBlock(t) ==
    /\ At(t, "wait_block")
    /\ tc_State' = [tc_State EXCEPT ![t] = "WAIT"]
    /\ TaskWait' = TaskWait \cup {t}
    /\ PermitThen(t, "spin")
    /\ UNCHANGED <<ThisTask, TaskReady, sched_on, inited, expired, boot_pc,
                   tc_SigRecvd, tc_SigWait, forbid_cnt, reg, sigs, target>>

WaitBlock(t) ==
    /\ At(t, "wait_block")
    /\ tc_SigWait' = [tc_SigWait EXCEPT ![t] = sigs[t]]
    /\ tc_State' = [tc_State EXCEPT ![t] = "WAIT"]
    /\ TaskWait' = TaskWait \cup {t}
    /\ PermitThen(t, "spin")
    /\ UNCHANGED <<ThisTask, TaskReady, sched_on, inited, expired, boot_pc,
                   tc_SigRecvd, forbid_cnt, reg, sigs, target>>

\* A mutated spin: the loop that waits to be made ready again is left out.
MutWaitSpin(t) ==
    /\ At(t, "spin")
    /\ ForbidLoad(t, "wait_take")
    /\ UNCHANGED <<schedVars, sigVars, forbid_cnt, sigs, target>>

\* The spin loop ends once somebody else made the task run again.
WaitSpin(t) ==
    /\ At(t, "spin")
    /\ tc_State[t] # "WAIT"
    /\ ForbidLoad(t, "wait_take")
    /\ UNCHANGED <<schedVars, sigVars, forbid_cnt, sigs, target>>

\* rcvd = tc_SigRecvd & sigset; tc_SigRecvd &= ~sigset.
WaitTake(t) ==
    /\ At(t, "wait_take")
    /\ tc_SigRecvd' = [tc_SigRecvd EXCEPT ![t] = @ \ sigs[t]]
    /\ PermitThen(t, "user")
    /\ UNCHANGED <<schedVars, TaskWait, tc_SigWait, forbid_cnt, reg, sigs, target>>

-----------------------------------------------------------------------------
(* Signal(task, sigset) *)

CallSignal(t, u, S) ==
    /\ At(t, "user")
    /\ ForbidLoad(t, "sig_or")
    /\ sigs' = [sigs EXCEPT ![t] = S]
    /\ target' = [target EXCEPT ![t] = u]
    /\ UNCHANGED <<schedVars, sigVars, forbid_cnt>>

SignalOr(t) ==
    /\ At(t, "sig_or")
    /\ tc_SigRecvd' = [tc_SigRecvd EXCEPT ![target[t]] = @ \cup sigs[t]]
    /\ Goto(t, "sig_wake")
    /\ UNCHANGED <<schedVars, TaskWait, tc_SigWait, forbid_cnt, cont, reg, sigs, target>>

\* The task is waiting, for one of the bits it now has.
Wakes(u) == tc_SigRecvd[u] \cap tc_SigWait[u] # {} /\ tc_State[u] = "WAIT"

SignalWake(t) ==
    /\ At(t, "sig_wake")
    /\ LET u == target[t]
       IN  IF Wakes(u)
             THEN /\ TaskWait' = TaskWait \ {u}
                  /\ tc_State' = [tc_State EXCEPT ![u] = "READY"]
                  /\ TaskReady' = Enqueue(TaskReady, u)
             ELSE UNCHANGED <<TaskWait, tc_State, TaskReady>>
    /\ PermitThen(t, "user")
    /\ UNCHANGED <<ThisTask, sched_on, inited, expired, boot_pc, tc_SigRecvd,
                   tc_SigWait, forbid_cnt, reg, sigs, target>>

-----------------------------------------------------------------------------
(* Any other Forbid ... Permit section: AllocMem, FreeMem, the list half of *)
(* PutMsg and GetMsg.  Its data is modelled where it belongs.               *)

CallCrit(t) ==
    /\ At(t, "user")
    /\ ForbidLoad(t, "crit")
    /\ UNCHANGED <<schedVars, sigVars, forbid_cnt, sigs, target>>

CritFirst(t) ==
    /\ At(t, "crit")
    /\ Goto(t, "crit2")
    /\ UNCHANGED <<schedVars, sigVars, forbid_cnt, cont, reg, sigs, target>>

CritLast(t) ==
    /\ At(t, "crit2")
    /\ PermitThen(t, "user")
    /\ UNCHANGED <<schedVars, sigVars, forbid_cnt, reg, sigs, target>>

-----------------------------------------------------------------------------

\* The steps a worker takes inside the kernel, whatever program it runs.
KernelStep(t) ==
    \/ ForbidStore(t) \/ PermitLoad(t) \/ PermitStore(t)
    \/ WaitTest(t) \/ WaitBlock(t) \/ WaitSpin(t) \/ WaitTake(t)
    \/ SignalOr(t) \/ SignalWake(t)

Boot == (\E t \in Task : spawn(t)) \/ arm \/ main_exit

\* The most general worker makes any call at any time.
Call(t) ==
    \/ "Wait" \in Ops /\ \E S \in (SUBSET SigBit) \ {{}} : CallWait(t, S)
    \/ "Signal" \in Ops /\ \E u \in Task, S \in (SUBSET SigBit) \ {{}} : CallSignal(t, u, S)
    \/ "Crit" \in Ops /\ CallCrit(t)

TaskStep(t) == KernelStep(t) \/ CritFirst(t) \/ CritLast(t) \/ Call(t)

Next == Boot \/ Tick \/ \E t \in Task : TaskStep(t)

Spec == Init /\ [][Next]_vars

\* A task that keeps being dispatched executes (a quantum is milliseconds),
\* main leaves its loop, and ticks keep arriving: also, again and again, at
\* moments when forbid_cnt is 0 (the timer is not synchronised with the tasks,
\* which Permit within microseconds).  The tick limit need not be reached.
Fairness ==
    /\ WF_vars(Boot)
    /\ WF_vars(tick_init)
    /\ SF_vars(tick_switch)
    /\ SF_vars(expired /\ tick_shutdown)
    /\ \A t \in Task : SF_vars(KernelStep(t) \/ CritFirst(t) \/ CritLast(t))

LiveSpec == Spec /\ Fairness

-----------------------------------------------------------------------------
(* Properties *)

\* The kernel's state variables keep their types.
TypeOK ==
    /\ ThisTask \in AllTask
    /\ TaskReady \in Seq(Task)
    /\ TaskWait \subseteq Task
    /\ tc_State \in [AllTask -> {"INVALID", "RUN", "READY", "WAIT"}]
    /\ tc_SigRecvd \in [Task -> SUBSET SigBit]
    /\ tc_SigWait \in [Task -> SUBSET SigBit]
    /\ forbid_cnt \in Nat
    /\ sched_on \in BOOLEAN
    /\ inited \in BOOLEAN
    /\ expired \in BOOLEAN
    /\ boot_pc \in {"spawn", "loop", "done"}
    /\ pc \in [Task -> Label]
    /\ cont \in [Task -> Label]
    /\ reg \in [Task -> Nat]
    /\ sigs \in [Task -> SUBSET SigBit]
    /\ target \in [Task -> Task]

\* forbid_cnt is a plain volatile int, incremented and decremented by a load
\* and a store between which a tick may switch tasks.  Still only the running
\* task is ever between Forbid and Permit, it holds the count at exactly 1,
\* and a task parked in the middle of Forbid has 0 in its register: the
\* comment of kern.c's on_alarm ("a parked task was switched out at a
\* forbid==0 point").
ForbidExclusion ==
    /\ \A t \in Task : pc[t] \in CritLabel => ThisTask = t
    /\ forbid_cnt = IF \E t \in Task : pc[t] \in CritLabel THEN 1 ELSE 0
    /\ \A t \in Task : pc[t] = "forbid_st" => reg[t] = 0

\* Every spawned worker is in exactly one place: on TaskReady (once), on
\* TaskWait, running, or off the lists because it was parked with a bad stack
\* or abandoned at shutdown; and tc_State says which.  A node linked twice
\* would corrupt the doubly linked lists.
ListsAgree ==
    /\ \A i, j \in 1..Len(TaskReady) : TaskReady[i] = TaskReady[j] => i = j
    /\ \A t \in Task :
         /\ (\E i \in 1..Len(TaskReady) : TaskReady[i] = t) <=> tc_State[t] = "READY"
         /\ t \in TaskWait => tc_State[t] = "WAIT"
         /\ tc_State[t] = "WAIT" => t \in TaskWait \/ t \in Overflow
         /\ tc_State[t] = "RUN" /\ sched_on => ThisTask = t
         /\ pc[t] = "wait_block" => t \notin TaskWait

\* No lost wake-up: a task on TaskWait that has received a bit of the set it
\* called Wait with is about to be woken by the Signal call that posted it.
NoLostWakeup ==
    \A t \in TaskWait :
        tc_SigRecvd[t] \cap sigs[t] # {} =>
            \E u \in Task : pc[u] = "sig_wake" /\ target[u] = t

\* Wait() never returns 0: when it collects its result at least one of the
\* bits asked for is there, also after a wake-up and any number of switches.
WaitReturnsSignal ==
    \A t \in Task : pc[t] = "wait_take" => tc_SigRecvd[t] \cap sigs[t] # {}

\* Nothing of higher priority is left on TaskReady when a worker is given the
\* CPU, and TaskReady stays ordered by priority.
StrictPriority ==
    [][\A t \in Task : ThisTask # t /\ ThisTask' = t =>
          /\ \A i \in 1..Len(TaskReady') : Pri[TaskReady'[i]] <= Pri[t]
          /\ \A i \in 1..Len(TaskReady') - 1 :
                Pri[TaskReady'[i]] >= Pri[TaskReady'[i + 1]]]_vars

\* A preempted task goes behind the tasks of its own priority that were
\* already ready: none of them is overtaken (round robin among equals).
RoundRobin ==
    [][\A t, u \in Task :
          /\ ThisTask = t /\ ThisTask' # t /\ tc_State'[t] = "READY"
          /\ tc_State[u] = "READY" /\ Pri[u] = Pri[t]
          => \/ ThisTask' = u
             \/ \E i, j \in 1..Len(TaskReady') :
                   i < j /\ TaskReady'[i] = u /\ TaskReady'[j] = t]_vars

\* After shutdown no worker ever runs again, and main finds forbid_cnt 0 and
\* no half-done critical section.
CleanShutdown ==
    boot_pc = "done" => /\ ThisTask = boot /\ ~sched_on /\ forbid_cnt = 0
                        /\ \A t \in Task : pc[t] \notin CritLabel

\* With equal priorities nobody starves: a READY worker gets the CPU, or the
\* tick limit is reached.
ReadyRuns ==
    \A t \in Task : tc_State[t] = "READY" ~> (ThisTask = t \/ expired)

\* When the tick limit was reached main() comes back and finishes, whatever
\* the workers were doing.
MainReturns == expired ~> boot_pc = "done"
=============================================================================
