---------------------------- MODULE GuestTasks ----------------------------
(***************************************************************************)
(* The scheduler that runs several 68k contexts on one host thread         *)
(* (src/hosted/emu68k/emu68k_host.c and the task services of               *)
(* emu68k_exec.c).  Contexts are not threads: running one means calling    *)
(* the JIT recursively from inside a service another one asked for, so the *)
(* program counter of the whole run is a stack of frames:                  *)
(*    root   the quantum of the program itself (emu68k_run_quantum)        *)
(*    after  the same entry once the program has returned                  *)
(*    child  run_context_nested                                            *)
(*    call   a callback: run_guest_subroutine or run_call_hook             *)
(*    cmd    run_guest_command, with its own jump buffer                   *)
(* "act" says what a frame is doing: executing guest code ("run"), or      *)
(* inside one of the services that give other contexts a turn.             *)
(*                                                                         *)
(* The whole state is one record, and every service an operator on it.     *)
(***************************************************************************)
EXTENDS Naturals, Sequences, FiniteSets, SequencesExt

CONSTANTS
  NCtx,               \* EMU68K_MAX_CTX: the root and the children it may add
  MaxMsgs,            \* bound on the messages waiting at one port
  MaxCalls,           \* EMU68K_CALLBACK_DEPTH_MAX
  MaxOps,             \* bound on the services the guest asks for in one run
  FirstSliceYields,   \* may a child give up its turn before its parent was marked
  ChildCommands       \* may a child call dos.RunCommand() and dos.Exit()

ASSUME GuestTasksAssumption ==
  /\ NCtx \in Nat \ {0, 1}
  /\ MaxMsgs \in Nat \ {0}
  /\ MaxCalls \in Nat \ {0}
  /\ MaxOps \in Nat \ {0}
  /\ FirstSliceYields \in BOOLEAN
  /\ ChildCommands \in BOOLEAN

VARIABLE vm

Ctx == 0 .. NCtx - 1
Root == 0
Bits == {"sig", "port"}      \* an ordinary signal, and the bit of the port
Polls == {"quantum", "nested", "context"}

NoContext == [live |-> FALSE, blocked |-> {}, finished |-> FALSE,
              onStack |-> FALSE, canUnwind |-> FALSE, forbid |-> FALSE]

Frame(c, kind, saved) ==
  [c |-> c, kind |-> kind, act |-> "run", mask |-> {}, next |-> 0,
   progress |-> FALSE, saved |-> saved]

\* emu68k_run_new: one program, no contexts registered yet.
Start ==
  [ctx |-> [c \in Ctx |-> NoContext], sig |-> [c \in Ctx |-> {}],
   mq |-> [c \in Ctx |-> 0], frames |-> <<>>, nctx |-> 0, cur |-> Root,
   thisTask |-> Root, eng |-> Root, poll |-> [c \in Ctx |-> "quantum"],
   dom |-> 0, depth |-> 0, cmdUnwind |-> FALSE, status |-> "ready",
   rootFinished |-> FALSE, err |-> FALSE, kill |-> FALSE,
   bound |-> {}, ops |-> 0]

GuestInit == vm = Start

Top(v) == Last(v.frames)
SetTop(v, f) == [v EXCEPT !.frames = Append(Front(v.frames), f)]
Executing(v) == v.frames # <<>> /\ Top(v).act = "run" /\ ~v.err
Pending(v, c) == v.sig[c] \cap v.ctx[c].blocked

-----------------------------------------------------------------------------
(* Entering and leaving frames.                                            *)

\* run_context_nested up to j5d_run: deliver what the parked Wait asked for,
\* mark the context, publish ThisTask, activate its engine, install the
\* bounded poll, enter the guest domain and arm the jump buffer.
Enter(v, i) ==
  LET got == Pending(v, i)
  IN  [v EXCEPT !.sig[i] = @ \ got,
                !.ctx[i].blocked = {},
                !.ctx[i].onStack = TRUE, !.ctx[i].canUnwind = TRUE,
                !.cur = i, !.thisTask = i, !.eng = i,
                !.poll[i] = "context",
                !.frames = Append(@, Frame(i, "child", v.dom)),
                !.dom = 0]

\* The outer context is current, but exec still names the nested task.
MutLeave(v, domain, failed) ==
  LET i == Top(v).c
      outer == v.frames[Len(v.frames) - 1].c
  IN  [v EXCEPT !.ctx[i].onStack = FALSE, !.ctx[i].canUnwind = FALSE,
                !.cur = outer, !.eng = outer, !.poll[outer] = "quantum",
                !.frames = Front(@), !.dom = domain, !.err = failed]
\* run_context_nested after j5d_run (or after the longjmp, which skips
\* domain_leave_guest): the outer context is current again, its engine is
\* active and its poll is quantum_poll, whatever it was before.
Leave(v, domain, failed) ==
  LET i == Top(v).c
      outer == v.frames[Len(v.frames) - 1].c
  IN  [v EXCEPT !.ctx[i].onStack = FALSE, !.ctx[i].canUnwind = FALSE,
                !.cur = outer, !.thisTask = outer, !.eng = outer,
                !.poll[outer] = "quantum",
                !.frames = Front(@), !.dom = domain, !.err = failed]

LeaveChild(v, failed) == Leave(v, Top(v).saved, failed)

\* A service the guest called returns to the guest: bridge() pairs its
\* g_in_bridge++ with the g_in_bridge--.
Resume(v) == [SetTop(v, [Top(v) EXCEPT !.act = "run", !.mask = {}, !.next = 0,
                                       !.progress = FALSE])
              EXCEPT !.dom = @ - 1]

\* emu68k_callback_stack_release and restore_guest_poll.
RestorePoll(v) ==
  [v EXCEPT !.poll[v.eng] = IF v.depth > 0 THEN "nested" ELSE "quantum"]

\* A callback or a command frame ends; its caller is inside its bridge call
\* and goes on executing guest code, unless the callback failed or was the
\* prelaunch hook of a task that is still to start.
PopCall(v, failed) ==
  LET f == Top(v)
      within == v.frames[Len(v.frames) - 1].act = "hook"
      w == [v EXCEPT !.frames = Front(@), !.err = failed,
                     !.dom = IF within THEN f.saved ELSE f.saved - 1,
                     !.depth = IF f.kind = "call" THEN @ - 1 ELSE @,
                     !.cmdUnwind = IF f.kind = "cmd" THEN FALSE ELSE @]
  IN  RestorePoll(w)

\* j5d_run of the top frame came back with an error or a kill.
FailTop(v) ==
  CASE Top(v).kind = "child" -> LeaveChild(v, TRUE)
    [] Top(v).kind \in {"call", "cmd"} -> PopCall(v, TRUE)
    [] OTHER -> [v EXCEPT !.frames = <<>>, !.err = FALSE,
                          !.ctx[Root].onStack = FALSE,
                          !.status = IF v.kill THEN "killed" ELSE "failed"]

-----------------------------------------------------------------------------
(* emu68k_run_quantum, the entry the operating system calls.               *)

\* Activate the root's engine, install quantum_poll; mark the root as being
\* on the stack if contexts are registered.  Once the program has returned,
\* the quantum is one sweep over its children instead.
StartQuantum(v) ==
  LET w == [v EXCEPT !.eng = Root, !.poll[Root] = "quantum",
                     !.status = "running"]
  IN  IF v.rootFinished
        THEN [w EXCEPT !.frames = <<[Frame(Root, "after", v.dom)
                                       EXCEPT !.act = "sweep"]>>]
        ELSE [w EXCEPT !.frames = <<Frame(Root, "root", v.dom)>>,
                       !.ctx[Root].onStack = v.nctx > 0]

LiveChildren(v) ==
  {c \in Ctx \ {Root} : v.ctx[c].live /\ ~v.ctx[c].finished}

\* The sweep of a quantum after the program's end is over: killed, failed,
\* done when no child is left, otherwise yielding (or idle).
EndAfter(v) ==
  [v EXCEPT !.frames = <<>>, !.err = FALSE,
            !.status = CASE v.kill -> "killed"
                         [] v.err -> "failed"
                         [] LiveChildren(v) = {} -> "done"
                         [] OTHER -> "ready"]

\* The program's own j5d_run returned: done, or the afterlife begins.
EndRoot(v) ==
  LET w == [v EXCEPT !.frames = <<>>, !.ctx[Root].onStack = FALSE]
  IN  IF LiveChildren(v) = {}
        THEN [w EXCEPT !.status = "done"]
        ELSE [w EXCEPT !.status = "ready", !.rootFinished = TRUE,
                       !.ctx[Root].finished = TRUE]

\* Yield of the program's own j5d_run: the quantum ends, the root is resumed.
YieldRoot(v) ==
  [v EXCEPT !.frames = <<>>, !.ctx[Root].onStack = FALSE, !.status = "ready"]

-----------------------------------------------------------------------------
(* What guest code may do when it executes.  Every operator gives the set  *)
(* of states the step can lead to.                                         *)

\* The safe point of the dispatcher asks the poll of the active engine.
\* quantum_poll yields; context_poll yields outside Forbid; nested_poll goes
\* on; each kills first.  A callback that yields has failed: its caller
\* takes J5D_RC_YIELD for an error.
PollYields(v) ==
  \/ v.poll[v.eng] = "quantum"
  \/ v.poll[v.eng] = "context" /\ ~v.ctx[v.cur].forbid

SafePoint(v) ==
  IF v.kill THEN {FailTop(v)}
  ELSE IF ~PollYields(v) THEN {}
  ELSE CASE Top(v).kind = "root" -> {YieldRoot(v)}
         [] Top(v).kind = "child" -> {LeaveChild(v, FALSE)}
         [] OTHER -> {FailTop(v)}

\* The guest routine returns to its caller, or faults.
Return(v) ==
  CASE Top(v).kind = "root" -> {EndRoot(v)}
    [] Top(v).kind = "child" ->
         {LeaveChild([v EXCEPT !.ctx[v.cur].finished = TRUE], FALSE)}
    [] OTHER -> {PopCall(v, FALSE)}

\* run_guest_subroutine (on the engine of the current context) and
\* run_call_hook (on the root's engine, which it leaves active): a frame of
\* their own, while the depth allows one.
Called(v, hook, domain) ==
  LET e == IF hook THEN Root ELSE v.cur
  IN  IF v.depth = MaxCalls THEN FailTop(v)
      ELSE [v EXCEPT !.depth = @ + 1, !.eng = e, !.poll[e] = "nested",
                     !.frames = Append(@, Frame(v.cur, "call", domain)), !.dom = 0]
CallGuest(v, hook) == {Called(v, hook, v.dom + 1)}

\* The first task a program adds makes the program itself context 0.  That
\* does not mark it as being on the stack.
Adopt(v) ==
  IF v.nctx > 0 THEN v
  ELSE [v EXCEPT !.nctx = 1, !.cur = Root, !.ctx[Root].live = TRUE]

\* The next slot, for a caller that is in the given act while it is filled.
NewContext(v, act, message) ==
  [SetTop(v, [Top(v) EXCEPT !.act = act, !.next = v.nctx, !.progress = message])
   EXCEPT !.ctx[v.nctx] = [NoContext EXCEPT !.live = TRUE],
          !.sig[v.nctx] = {}, !.nctx = @ + 1, !.dom = @ + 1]

\* emu68k_add_guest_task_context: an error when the slots are used up;
\* otherwise the prelaunch hook runs, if there is one, and then the new
\* context has its first slice at once.
AddContext(v, message) ==
  IF v.nctx >= NCtx THEN {FailTop(v)}
  ELSE LET w == NewContext(v, "hook", message)
       IN  {Enter(NewContext(v, "create", message), v.nctx), Called(w, TRUE, w.dom)}
AddTask(v) == AddContext(Adopt(v), FALSE)

\* emu68k_create_guest_task: bad tags or no memory are found before anything
\* is adopted; a startup message is put once the first slice is over.
NewCreateTask(v) ==
  {FailTop(v)} \cup UNION {AddContext(Adopt(v), m) : m \in BOOLEAN}

\* emu68k_dos_create_new_proc: memory may run out once the root is adopted.
CreateNewProc(v) ==
  LET a == Adopt(v)
  IN  {FailTop(a)} \cup
      (IF a.nctx >= NCtx THEN {} ELSE {Enter(NewContext(a, "create", FALSE), a.nctx)})

Live(v, t) == t = Root \/ v.ctx[t].live

\* Signal, PutMsg and ReplyMsg: set the bit in tc_SigRecvd, queue the message.
Signal(v) == {[v EXCEPT !.sig[t] = @ \cup {"sig"}] : t \in {c \in Ctx : Live(v, c)}}

PutMsg(v) ==
  {[v EXCEPT !.mq[t] = @ + 1, !.sig[t] = @ \cup {"port"}] :
     t \in {c \in Ctx : Live(v, c) /\ v.mq[c] < MaxMsgs}}

\* The broker imports native events into the ports that are bound to one
\* (emu68k_event_pump; the broker itself is outside the repository's core).
Deliver(v, cs) ==
  {v} \cup {[v EXCEPT !.mq[t] = @ + 1, !.sig[t] = @ \cup {"port"}] :
              t \in {c \in cs \cap v.bound : v.mq[c] < MaxMsgs}}

\* GetMsg takes the head of the queue; the signal bit stays as it is.
GetMsg(v) == {[w EXCEPT !.mq[v.cur] = IF @ = 0 THEN 0 ELSE @ - 1] :
                w \in Deliver(v, {v.cur})}

\* SetSignal(0, mask): forget signals that have arrived.
SetSignal(v) == {[v EXCEPT !.sig[v.cur] = @ \ b] : b \in SUBSET Bits \ {{}}}

\* emu68k_event_bind and event_unbind_port: a native source feeds the port.
BindEvent(v) == {[v EXCEPT !.bound = @ \cup {v.cur}], [v EXCEPT !.bound = @ \ {v.cur}]}

\* Forbid and Permit count only once contexts are registered.
Forbid(v) == IF v.nctx = 0 THEN {} ELSE {[v EXCEPT !.ctx[v.cur].forbid = TRUE]}
Permit(v) == IF v.nctx = 0 THEN {} ELSE {[v EXCEPT !.ctx[v.cur].forbid = FALSE]}

\* Wait(mask).  What has arrived is consumed.  Otherwise a context that can
\* unwind parks itself and hands its turn back, which inside a callback is
\* an error; the root stays on the stack and looks for someone to run.
Wait(v, mask) ==
  LET got == v.sig[v.cur] \cap mask
      parked == [v EXCEPT !.ctx[v.cur].blocked = mask]
  IN  IF got # {} THEN {[v EXCEPT !.sig[v.cur] = @ \ got]}
      ELSE IF v.ctx[v.cur].canUnwind
        THEN {IF Top(v).kind = "child" THEN LeaveChild(parked, FALSE)
                                       ELSE FailTop(parked)}
      ELSE {[SetTop(v, [Top(v) EXCEPT !.act = "wait", !.mask = mask])
             EXCEPT !.dom = @ + 1]}

\* WaitPort(port): the head of the queue if there is one, otherwise a Wait on
\* the port's bit.  A child that parks here goes on after the call itself.
WaitPort(v) ==
  UNION {IF w.mq[v.cur] > 0 THEN {w}
                            ELSE Wait(w, {"port"}) : w \in Deliver(v, {v.cur})}

\* The frame whose setjmp a longjmp returns to: the innermost of its kind.
Innermost(q, kind) ==
  CHOOSE k \in DOMAIN q : q[k].kind = kind /\ \A j \in DOMAIN q : j > k => q[j].kind # kind

\* RemTask: the target is marked; removing oneself jumps back to the
\* run_context_nested below, past every callback frame and past both
\* domain_leave_guest and callback_stack_release.
Unwind(v) ==
  LET k == Innermost(v.frames, "child")
  IN  Leave([v EXCEPT !.frames = SubSeq(@, 1, k)],
            IF k = Len(v.frames) THEN v.dom + 1 ELSE 1, FALSE)

RemTask(v) ==
  {LET w == [v EXCEPT !.ctx[t].finished = TRUE, !.ctx[t].blocked = {}]
   IN  IF t # v.cur THEN w
       ELSE IF v.ctx[t].canUnwind THEN Unwind(w) ELSE EndRoot(w) :
     t \in {c \in Ctx : v.ctx[c].live}}

\* dos.Exit: a command in progress is unwound to, whoever set it up;
\* otherwise a context ends like RemTask, and the program restarts at zero.
UnwindCommand(v) ==
  PopCall([v EXCEPT !.frames = SubSeq(@, 1, Innermost(@, "cmd"))], FALSE)

Exit(v) ==
  IF v.cmdUnwind THEN {UnwindCommand(v)}
  ELSE IF v.ctx[v.cur].canUnwind
    THEN {Unwind([v EXCEPT !.ctx[v.cur].finished = TRUE])}
  ELSE {EndRoot(v), FailTop(v)}

\* run_guest_command: one jump buffer for the whole run.
RunCommand(v) ==
  {[v EXCEPT !.eng = v.cur, !.poll[v.cur] = "nested", !.cmdUnwind = TRUE,
             !.frames = Append(@, Frame(v.cur, "cmd", v.dom + 1)), !.dom = 0]}

\* Reschedule, one turn of Delay, WaitTOF of the root: reschedule_siblings.
Reschedule(v) ==
  {[SetTop(v, [Top(v) EXCEPT !.act = "sweep", !.next = 0]) EXCEPT !.dom = @ + 1]}

-----------------------------------------------------------------------------
(* The services that give other contexts a turn, one step at a time.       *)

\* A context that waits further down the host stack is entered again.
MutCandidate(v, i) == i # v.cur /\ v.ctx[i].live /\ ~v.ctx[i].finished
Candidate(v, i) ==
  i # v.cur /\ v.ctx[i].live /\ ~v.ctx[i].finished /\ ~v.ctx[i].onStack

\* A nested context came back with an error.  A sweep quarantines it unless
\* it held Forbid; every other service passes the error on.
HandleError(v) ==
  LET f == Top(v)
      child == f.next - 1
  IN  IF f.act = "sweep" /\ f.next > 0 /\ ~v.ctx[child].forbid
        THEN [v EXCEPT !.err = FALSE, !.ctx[child].finished = TRUE,
                       !.ctx[child].blocked = {}]
      ELSE IF f.kind = "after" THEN EndAfter(v)
      ELSE FailTop(v)

\* The wake-up a Wait is looking for, checked after every nested turn.
Satisfied(v) == v.sig[v.cur] \cap Top(v).mask # {}
Take(v) == Resume([v EXCEPT !.sig[v.cur] = @ \ Top(v).mask])

\* The root's Wait: run every sibling that can run, again while one could;
\* then sweep once with the native sources pumped.
WaitStep(v) ==
  LET f == Top(v)
      runnable == {i \in Ctx : /\ i >= f.next /\ Candidate(v, i)
                               /\ v.ctx[i].blocked # {} => Pending(v, i) # {}}
      i == CHOOSE j \in runnable : \A k \in runnable : j <= k
  IN  IF f.next > 0 /\ Satisfied(v) THEN {Take(v)}
      ELSE IF runnable # {}
        THEN {Enter(SetTop(v, [f EXCEPT !.next = i + 1, !.progress = TRUE]), i)}
      ELSE IF f.progress /\ ~v.kill
        THEN {SetTop(v, [f EXCEPT !.next = 0, !.progress = FALSE])}
      ELSE {SetTop(w, [f EXCEPT !.act = "sweep", !.next = 0]) :
              w \in Deliver(v, Ctx)}

\* The end of a sweep: back to the guest, or, for a Wait, recheck, and then
\* idle for a tick if some source could still wake anyone; a Wait nothing can
\* satisfy is refused with an error, and so is one that was killed.
EndSweep(v) ==
  LET f == Top(v)
  IN  IF f.kind = "after" THEN {EndAfter(v)}
      ELSE IF f.mask = {} THEN {Resume(w) : w \in Deliver(v, Ctx)}
      ELSE IF Satisfied(v) THEN {Take(v)}
      ELSE IF v.kill \/ v.bound = {} THEN {FailTop(v)}
      ELSE {SetTop(w, [f EXCEPT !.next = 0]) : w \in Deliver(v, Ctx)}

\* reschedule_siblings: each context after the cursor in turn.  One that is
\* parked has its native sources pumped before it is passed over.
SweepStep(v) ==
  LET f == Top(v)
      left == {i \in Ctx : i >= f.next /\ Candidate(v, i)}
      i == CHOOSE j \in left : \A k \in left : j <= k
      past == [f EXCEPT !.next = i + 1]
  IN  IF left = {} THEN EndSweep(v)
      ELSE {IF w.ctx[i].blocked # {} /\ Pending(w, i) = {}
              THEN SetTop(w, past) ELSE Enter(SetTop(w, past), i) :
              w \in IF v.ctx[i].blocked # {} /\ Pending(v, i) = {}
                      THEN Deliver(v, {i}) ELSE {v}}

\* The new context's first slice is over: its startup message, if it has one.
Started(v) ==
  LET f == Top(v)
  IN  IF ~f.progress THEN {Resume(v)}
      ELSE {Resume([v EXCEPT !.mq[f.next] = @ + 1, !.sig[f.next] = @ \cup {"port"}])}

Continue(v) ==
  IF v.err THEN {HandleError(v)}
  ELSE CASE Top(v).act = "wait" -> WaitStep(v)
         [] Top(v).act = "sweep" -> SweepStep(v)
         [] Top(v).act = "hook" ->
              {Enter(SetTop(v, [Top(v) EXCEPT !.act = "create"]), Top(v).next)}
         [] OTHER -> Started(v)

-----------------------------------------------------------------------------
Go(states) == \E w \in states : vm' = w
Do(states) == \E w \in states : vm' = [w EXCEPT !.ops = @ + 1]

\* The root was put on the stack before it had contexts to be marked in.
RootUnmarked == vm.ctx[Root].live /\ ~vm.ctx[Root].onStack
                /\ \E k \in DOMAIN vm.frames : vm.frames[k].kind = "root"

\* Guest code goes on by itself: a safe point, the end of a routine, a fault.
Guest ==
  /\ Executing(vm)
  /\ \/ Go(SafePoint(vm))
     \/ Go(Return(vm))
     \/ Go({FailTop(vm)})

\* Guest code calls a service.
Call ==
  /\ Executing(vm) /\ vm.ops < MaxOps
  /\ \/ Do(AddTask(vm))
     \/ Do(NewCreateTask(vm))
     \/ Do(CreateNewProc(vm))
     \/ Do(Signal(vm))
     \/ Do(PutMsg(vm))
     \/ Do(GetMsg(vm))
     \/ Do(SetSignal(vm))
     \/ Do(BindEvent(vm))
     \/ Do(Forbid(vm))
     \/ Do(Permit(vm))
     \/ Do(Wait(vm, {"sig"}))
     \/ Do(WaitPort(vm))
     \/ Do(RemTask(vm))
     \/ (vm.cur = Root \/ ChildCommands) /\ Do(Exit(vm))
     \/ \E h \in BOOLEAN : Do(CallGuest(vm, h))
     \/ (vm.cur = Root \/ ChildCommands) /\ Len(vm.frames) < NCtx /\ Do(RunCommand(vm))
     \/ (RootUnmarked => vm.cur = Root \/ FirstSliceYields) /\ Do(Reschedule(vm))

Service == vm.frames # <<>> /\ ~Executing(vm) /\ Go(Continue(vm))

Quantum == vm.status = "ready" /\ vm' = StartQuantum(vm)

\* emu68k_run_kill, from another thread.
Kill == ~vm.kill /\ vm.status \in {"ready", "running"} /\ vm' = [vm EXCEPT !.kill = TRUE]

GuestNext == Guest \/ Call \/ Service \/ Quantum \/ Kill

TasksSpec == GuestInit /\ [][GuestNext]_vm

-----------------------------------------------------------------------------
\* Whose turn it is: the context of the innermost frame is the one exec calls
\* its own (FindTask(NULL), the engine that gets the signals), and its guest
\* code never runs inside the domain another context entered.
CurrentAgrees ==
  vm.frames # <<>> =>
    /\ Top(vm).c = vm.cur /\ vm.thisTask = vm.cur
    /\ Executing(vm) => vm.dom = 0

\* One host stack carries all contexts, so a context is on it at most once: no
\* sweep, callback or wait enters a context that waits further down.  A
\* context can be unwound exactly while its own child frame, the target of
\* the jump, is on the stack.
FramesSound ==
  /\ \A j, k \in DOMAIN vm.frames :
       j # k /\ {vm.frames[j].kind, vm.frames[k].kind} \subseteq {"root", "child"}
         => vm.frames[j].c # vm.frames[k].c
  /\ \A c \in Ctx :
       vm.ctx[c].canUnwind <=>
         \E k \in DOMAIN vm.frames : vm.frames[k].kind = "child" /\ vm.frames[k].c = c
=============================================================================
