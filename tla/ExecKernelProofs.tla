-------------------------- MODULE ExecKernelProofs --------------------------
(***************************************************************************)
(* Proofs about ExecKernel, for any set of workers, priorities, signal     *)
(* bits and call mix.  Four layers, each using the ones before it:         *)
(*                                                                         *)
(*   ForbidInv  who may be between Forbid and Permit, and with which count *)
(*   ListsInv   where each task is linked and what tc_State says           *)
(*   SigInv     signals posted versus tasks waiting for them               *)
(*   PriInv     TaskReady is ordered by priority                           *)
(***************************************************************************)
EXTENDS ExecKernel, SequenceTheorems, WellFoundedInduction, TLAPS

-----------------------------------------------------------------------------
(* Enqueue *)

\* Every non-empty set of naturals has a minimum: the position at which the
\* loop of Enqueue stops is well defined.
LEMMA LeastNat ==
    ASSUME NEW S, S \subseteq Nat, S # {}
    PROVE  /\ Min(S) \in S
           /\ \A y \in S : Min(S) <= y
<1> DEFINE R == {ss \in Nat \X Nat : ss[1] < ss[2]}
<1>1. IsWellFoundedOn(R, Nat)
  BY NatLessThanWellFounded DEF OpToRel
<1>2. \A x, y \in Nat : y < x => <<y, x>> \in R
  OBVIOUS
<1> HIDE DEF R
<1>3. PICK x \in S : \A y \in S : ~ (<<y, x>> \in R)
  BY <1>1, WFMin
<1>4. ASSUME NEW y \in S
      PROVE  x <= y
  <2>1. x \in Nat /\ y \in Nat
    OBVIOUS
  <2>2. ~ (y < x)
    BY <1>2, <1>3, <2>1
  <2> QED  BY <2>1, <2>2
<1> QED  BY <1>4 DEF Min

\* What linking a node before position k of a list does to its elements: the
\* four pointer assignments at the end of Enqueue.
LEMMA InsertAtElements ==
    ASSUME NEW l \in Seq(Task), NEW k \in 1..Len(l) + 1, NEW e \in Task
    PROVE  /\ InsertAt(l, k, e) \in Seq(Task)
           /\ Len(InsertAt(l, k, e)) = Len(l) + 1
           /\ \A i \in 1..Len(l) + 1 :
                 InsertAt(l, k, e)[i] = IF i < k THEN l[i]
                                        ELSE IF i = k THEN e ELSE l[i - 1]
<1> DEFINE a == SubSeq(l, 1, k - 1)
           b == SubSeq(l, k, Len(l))
<1>1. /\ a \in Seq(Task) /\ Len(a) = k - 1
      /\ \A i \in 1..k - 1 : a[i] = l[i]
  OBVIOUS
<1>2. /\ b \in Seq(Task) /\ Len(b) = Len(l) + 1 - k
      /\ \A i \in 1..Len(l) + 1 - k : b[i] = l[k + i - 1]
  OBVIOUS
<1> HIDE DEF a, b
<1>3. /\ a \o <<e>> \in Seq(Task) /\ Len(a \o <<e>>) = k
      /\ \A i \in 1..k : (a \o <<e>>)[i] = IF i < k THEN l[i] ELSE e
  BY <1>1
<1>4. InsertAt(l, k, e) = a \o <<e>> \o b
  BY DEF InsertAt, a, b
<1> DEFINE c == a \o <<e>>
<1>5. /\ c \in Seq(Task) /\ Len(c) = k
      /\ \A i \in 1..k : c[i] = IF i < k THEN l[i] ELSE e
  BY <1>3
<1> HIDE DEF c
<1>7. /\ c \o b \in Seq(Task) /\ Len(c \o b) = Len(l) + 1
      /\ \A i \in 1..Len(l) + 1 :
            (c \o b)[i] = IF i <= k THEN c[i] ELSE b[i - k]
  BY <1>2, <1>5, ConcatProperties
<1>6. \A i \in 1..Len(l) + 1 : i > k => b[i - k] = l[i - 1]
  BY <1>2
<1> QED  BY <1>4, <1>5, <1>6, <1>7 DEF c

\* Enqueue inserts before the first node of strictly lower priority.
LEMMA EnqueueElements ==
    ASSUME NEW l \in Seq(Task), NEW t \in Task
    PROVE  \E k \in 1..Len(l) + 1 :
             /\ Enqueue(l, t) = InsertAt(l, k, t)
             /\ \A i \in 1..k - 1 : Pri[l[i]] >= Pri[t]
             /\ k <= Len(l) => Pri[l[k]] < Pri[t]
<1> DEFINE S == {i \in 1..Len(l) : Pri[l[i]] < Pri[t]} \cup {Len(l) + 1}
           k == Min(S)
<1>1. S \subseteq Nat /\ S # {} /\ S \subseteq 1..Len(l) + 1
  OBVIOUS
<1>2. k \in S /\ \A y \in S : k <= y
  BY <1>1, LeastNat
<1>3. k \in 1..Len(l) + 1
  BY <1>1, <1>2
<1>4. Enqueue(l, t) = InsertAt(l, k, t)
  BY DEF Enqueue
<1>5. k <= Len(l) => Pri[l[k]] < Pri[t]
  BY <1>2, <1>3
<1>6. ASSUME NEW i \in 1..k - 1
      PROVE  Pri[l[i]] >= Pri[t]
  <2> HIDE DEF k
  <2>1. i \in 1..Len(l) /\ i < k
    BY <1>3
  <2>2. ~ (Pri[l[i]] < Pri[t])
    BY <1>2, <2>1, <1>3
  <2>3. Pri[l[i]] \in Int /\ Pri[t] \in Int
    BY <2>1, KernelAssumption
  <2> QED  BY <2>2, <2>3
<1> HIDE DEF k
<1> QED  BY <1>3, <1>4, <1>5, <1>6

\* Enqueue makes a list of tasks one longer.
LEMMA EnqueueType ==
    ASSUME NEW l \in Seq(Task), NEW t \in Task
    PROVE  Enqueue(l, t) \in Seq(Task) /\ Len(Enqueue(l, t)) = Len(l) + 1
BY EnqueueElements, InsertAtElements

-----------------------------------------------------------------------------

\* Where Forbid's callers continue.
ForbidEntry == {"wait_test", "wait_take", "sig_or", "crit"}

\* The return points of Forbid and Permit, and what Permit has loaded.
Control ==
    \A t \in Task :
        /\ pc[t] = "forbid_st" => cont[t] \in ForbidEntry
        /\ pc[t] \in {"permit", "permit_st"} => cont[t] \in {"user", "spin"}
        /\ pc[t] = "permit_st" => reg[t] = 1

\* The inductive invariant of the Forbid layer.
ForbidInv == TypeOK /\ Control /\ ForbidExclusion

\* main() starts with forbid_cnt 0 and no task inside the kernel.
LEMMA InitForbidInv == Init => ForbidInv
<1> USE DEF Init, Label, CritLabel, AllTask
<1>1. ASSUME Init PROVE TypeOK
  <2>1. target \in [Task -> Task] /\ reg \in [Task -> Nat]
    BY <1>1
  <2>2. pc \in [Task -> Label] /\ cont \in [Task -> Label]
    BY <1>1
  <2>3. tc_State \in [AllTask -> {"INVALID", "RUN", "READY", "WAIT"}]
    BY <1>1
  <2>4. /\ tc_SigRecvd \in [Task -> SUBSET SigBit]
        /\ tc_SigWait \in [Task -> SUBSET SigBit]
        /\ sigs \in [Task -> SUBSET SigBit]
    BY <1>1
  <2>5. /\ ThisTask \in AllTask /\ TaskReady \in Seq(Task) /\ TaskWait \subseteq Task
        /\ forbid_cnt \in Nat /\ boot_pc \in {"spawn", "loop", "done"}
    BY <1>1
  <2>6. sched_on \in BOOLEAN /\ inited \in BOOLEAN /\ expired \in BOOLEAN
    BY <1>1, Zenon
  <2> HIDE DEF Init, Label, AllTask
  <2> QED  BY <2>1, <2>2, <2>3, <2>4, <2>5, <2>6 DEF TypeOK
<1>2. Init => Control
  BY DEF Control
<1>3. Init => ForbidExclusion
  BY DEF ForbidExclusion
<1> QED  BY <1>1, <1>2, <1>3 DEF ForbidInv

\* Every step keeps the types: in particular only workers enter TaskReady.
LEMMA TypeInductive == TypeOK /\ [Next]_vars => TypeOK'
<1> SUFFICES ASSUME TypeOK, [Next]_vars PROVE TypeOK'
  OBVIOUS
<1> USE KernelAssumption DEF TypeOK, AllTask
<1>1. ASSUME NEW t \in Task, spawn(t) PROVE TypeOK'
  BY <1>1, EnqueueType DEF spawn, sigVars, callVars
<1>2. CASE arm
  BY <1>2 DEF arm, sigVars, callVars
<1>3. CASE main_exit
  BY <1>3 DEF main_exit, sigVars, callVars
<1>4. CASE tick_off \/ tick_forbidden \/ tick_idle
  BY <1>4 DEF tick_off, tick_forbidden, tick_idle, tick_count, sigVars, callVars
<1>5. CASE tick_init
  BY <1>5 DEF tick_init, sigVars, callVars
<1>6. CASE tick_shutdown
  BY <1>6 DEF tick_shutdown, tick_count, sigVars, callVars
<1>7. CASE tick_switch
  <2>1. PICK spOk \in BOOLEAN :
          /\ TaskReady' = Tail(core_Switch(ThisTask, spOk).l)
          /\ ThisTask' = Head(core_Switch(ThisTask, spOk).l)
          /\ tc_State' = [tc_State EXCEPT ![ThisTask] = core_Switch(ThisTask, spOk).st,
                                          ![Head(core_Switch(ThisTask, spOk).l)] = "RUN"]
    BY <1>7 DEF tick_switch
  <2> DEFINE sw == core_Switch(ThisTask, spOk)
  <2>2. /\ sw.l \in Seq(Task) /\ sw.l # <<>>
        /\ sw.st \in {"INVALID", "RUN", "READY", "WAIT"}
    <3>1. TaskReady \in Seq(Task) /\ TaskReady # <<>>
      BY <1>7 DEF tick_switch
    <3>2. CASE tc_State[ThisTask] # "RUN" \/ ThisTask = boot \/ ~spOk
      BY <3>1, <3>2 DEF core_Switch
    <3>3. CASE tc_State[ThisTask] = "RUN" /\ ThisTask # boot /\ spOk
      <4>1. sw = [st |-> "READY", l |-> Enqueue(TaskReady, ThisTask)]
        BY <3>3 DEF core_Switch
      <4>2. Enqueue(TaskReady, ThisTask) \in Seq(Task)
               /\ Len(Enqueue(TaskReady, ThisTask)) = Len(TaskReady) + 1
        BY <3>1, <3>3, EnqueueType
      <4> QED  BY <3>1, <4>1, <4>2
    <3> QED  BY <3>2, <3>3
  <2> HIDE DEF sw
  <2>3. Head(sw.l) \in Task /\ Tail(sw.l) \in Seq(Task)
    BY <2>2
  <2> QED  BY <1>7, <2>1, <2>2, <2>3 DEF sw, tick_switch, tick_count, sigVars, callVars
<1>8. ASSUME NEW t \in Task, TaskStep(t) PROVE TypeOK'
  <2> USE DEF At, Goto, Label, CritLabel, schedVars, sigVars
  <2>1. CASE ForbidStore(t)
    BY <2>1 DEF ForbidStore
  <2>2. CASE PermitLoad(t)
    BY <2>2 DEF PermitLoad
  <2>3. CASE PermitStore(t)
    BY <2>3 DEF PermitStore
  <2>4. CASE WaitTest(t)
    BY <2>4 DEF WaitTest
  <2>5. CASE WaitBlock(t)
    BY <2>5 DEF WaitBlock, PermitThen
  <2>6. CASE WaitSpin(t)
    BY <2>6 DEF WaitSpin, ForbidLoad
  <2>7. CASE WaitTake(t)
    BY <2>7 DEF WaitTake, PermitThen
  <2>8. CASE SignalOr(t)
    BY <2>8 DEF SignalOr
  <2>9. CASE SignalWake(t)
    <3>1. CASE Wakes(target[t])
      <4>1. target[t] \in Task /\ Enqueue(TaskReady, target[t]) \in Seq(Task)
        BY EnqueueType
      <4> QED  BY <2>9, <3>1, <4>1 DEF SignalWake, PermitThen
    <3>2. CASE ~Wakes(target[t])
      BY <2>9, <3>2 DEF SignalWake, PermitThen
    <3> QED  BY <3>1, <3>2
  <2>10. CASE CritFirst(t)
    BY <2>10 DEF CritFirst
  <2>11. CASE CritLast(t)
    BY <2>11 DEF CritLast, PermitThen
  <2>12. CASE Call(t)
    <3>1. ASSUME NEW S \in SUBSET SigBit, CallWait(t, S) PROVE TypeOK'
      BY <3>1 DEF CallWait, ForbidLoad
    <3>2. ASSUME NEW S \in SUBSET SigBit, NEW u \in Task, CallSignal(t, u, S)
          PROVE  TypeOK'
      BY <3>2 DEF CallSignal, ForbidLoad
    <3>3. CASE CallCrit(t)
      BY <3>3 DEF CallCrit, ForbidLoad
    <3> QED  BY <2>12, <3>1, <3>2, <3>3 DEF Call
  <2> QED
    BY <1>8, <2>1, <2>2, <2>3, <2>4, <2>5, <2>6, <2>7, <2>8, <2>9, <2>10,
       <2>11, <2>12 DEF TaskStep, KernelStep
<1>9. CASE UNCHANGED vars
  BY <1>9 DEF vars, schedVars, sigVars, callVars
<1> QED
  BY <1>1, <1>2, <1>3, <1>4, <1>5, <1>6, <1>7, <1>8, <1>9 DEF Next, Boot, Tick

\* No step breaks the Forbid layer: a tick switches only when forbid_cnt is 0,
\* when nobody is inside, and a Forbid or Permit is done by the running task.
LEMMA ForbidInductive == ForbidInv /\ [Next]_vars => ForbidInv'
<1> SUFFICES ASSUME ForbidInv, [Next]_vars PROVE ForbidInv'
  OBVIOUS
<1>0. TypeOK /\ TypeOK' /\ Control /\ ForbidExclusion
  BY TypeInductive DEF ForbidInv
<1>1. CASE Boot \/ UNCHANGED vars
  <2>1. UNCHANGED <<ThisTask, forbid_cnt, pc, cont, reg>>
    BY <1>1 DEF Boot, spawn, arm, main_exit, vars, schedVars, callVars
  <2> QED  BY <1>0, <2>1 DEF ForbidInv, Control, ForbidExclusion
<1>2. CASE Tick
  <2>1. UNCHANGED <<forbid_cnt, pc, cont, reg>>
    BY <1>2 DEF Tick, tick_off, tick_init, tick_forbidden, tick_shutdown,
                tick_idle, tick_switch, callVars
  <2>2. UNCHANGED ThisTask \/ forbid_cnt = 0
    BY <1>2 DEF Tick, tick_off, tick_init, tick_forbidden, tick_shutdown,
                tick_idle, tick_switch, Preemptible
  <2> QED  BY <1>0, <2>1, <2>2 DEF ForbidInv, Control, ForbidExclusion
<1>3. ASSUME NEW t \in Task, TaskStep(t) PROVE ForbidInv'
  <2>0. ThisTask = t
    BY <1>3 DEF TaskStep, KernelStep, ForbidStore, PermitLoad, PermitStore,
           WaitTest, WaitBlock, WaitSpin, WaitTake, SignalOr, SignalWake, CritFirst,
           CritLast, Call, CallWait, CallSignal, CallCrit, At
  \* A step that stays inside the critical section.
  <2>1. ASSUME pc[t] \in CritLabel, NEW l \in CritLabel \ {"permit_st"}, Goto(t, l),
               l = "permit" => cont'[t] \in {"user", "spin"},
               cont' = [cont EXCEPT ![t] = cont'[t]],
               UNCHANGED <<ThisTask, forbid_cnt, reg>>
        PROVE  ForbidInv'
    BY <1>0, <2>0, <2>1 DEF ForbidInv, TypeOK, Control, ForbidExclusion, Goto, CritLabel
  \* Forbid's load.
  <2>2. ASSUME pc[t] \in {"user", "spin"}, NEW l \in ForbidEntry, ForbidLoad(t, l),
               UNCHANGED <<ThisTask, forbid_cnt>>
        PROVE  ForbidInv'
    BY <1>0, <2>0, <2>2 DEF ForbidInv, TypeOK, Control, ForbidExclusion, ForbidLoad,
                       Goto, CritLabel, ForbidEntry
  <2>3. CASE ForbidStore(t)
    BY <1>0, <2>0, <2>3 DEF ForbidInv, TypeOK, Control, ForbidExclusion, ForbidStore,
                       At, Goto, CritLabel, ForbidEntry, schedVars
  <2>4. CASE PermitLoad(t)
    BY <1>0, <2>0, <2>4 DEF ForbidInv, TypeOK, Control, ForbidExclusion, PermitLoad,
                       At, Goto, CritLabel, schedVars
  <2>5. CASE PermitStore(t)
    BY <1>0, <2>0, <2>5 DEF ForbidInv, TypeOK, Control, ForbidExclusion, PermitStore,
                       At, Goto, CritLabel, schedVars
  <2>6. CASE WaitTest(t) \/ SignalOr(t) \/ CritFirst(t)
    BY <1>0, <2>1, <2>6 DEF WaitTest, SignalOr, CritFirst, At, Goto, CritLabel, schedVars,
                       TypeOK
  <2>7. CASE WaitBlock(t) \/ WaitTake(t) \/ SignalWake(t) \/ CritLast(t)
    BY <1>0, <2>1, <2>7 DEF WaitBlock, WaitTake, SignalWake, CritLast, PermitThen, At, Goto,
                       CritLabel, schedVars, TypeOK
  <2>8. CASE WaitSpin(t) \/ Call(t)
    BY <2>2, <2>8 DEF WaitSpin, Call, CallWait, CallSignal, CallCrit, At, ForbidEntry,
                      schedVars
  <2> QED
    BY <1>3, <2>3, <2>4, <2>5, <2>6, <2>7, <2>8 DEF TaskStep, KernelStep
<1> QED
  BY <1>1, <1>2, <1>3 DEF Next

\* The types hold in every reachable state of the kernel.
THEOREM TypeCorrect == Spec => []TypeOK
<1>1. Init => TypeOK
  BY InitForbidInv DEF ForbidInv
<1> QED  BY <1>1, TypeInductive, PTL DEF Spec

\* The Forbid layer holds in every reachable state.
THEOREM ForbidInvariant == Spec => []ForbidInv
BY InitForbidInv, ForbidInductive, PTL DEF Spec

\* Forbid/Permit excludes: though forbid_cnt++ and forbid_cnt-- are a load and
\* a store each, two tasks are never between Forbid and Permit together and
\* no count is ever lost (kern.c and signal.c, Forbid, Permit, on_alarm).
THEOREM MutualExclusion == Spec => []ForbidExclusion
<1>1. ForbidInv => ForbidExclusion
  BY DEF ForbidInv
<1> QED  BY <1>1, ForbidInvariant, PTL

-----------------------------------------------------------------------------

\* u is linked in l; no node is linked twice in l.
InList(l, u) == \E i \in 1..Len(l) : l[i] = u
Unique(l)    == \A i, j \in 1..Len(l) : l[i] = l[j] => i = j

\* Enqueue of a task that is not linked links it once and keeps the others.
LEMMA EnqueueUnique ==
    ASSUME NEW l \in Seq(Task), NEW t \in Task, Unique(l), ~InList(l, t)
    PROVE  /\ Unique(Enqueue(l, t))
           /\ \A u \in Task : InList(Enqueue(l, t), u) <=> u = t \/ InList(l, u)
<1>1. PICK k \in 1..Len(l) + 1 : Enqueue(l, t) = InsertAt(l, k, t)
  BY EnqueueElements
<1> DEFINE e == Enqueue(l, t)
<1>2. /\ e \in Seq(Task) /\ Len(e) = Len(l) + 1
      /\ \A i \in 1..Len(l) + 1 :
            e[i] = IF i < k THEN l[i] ELSE IF i = k THEN t ELSE l[i - 1]
  <2>1. /\ InsertAt(l, k, t) \in Seq(Task) /\ Len(InsertAt(l, k, t)) = Len(l) + 1
        /\ \A i \in 1..Len(l) + 1 :
              InsertAt(l, k, t)[i] = IF i < k THEN l[i] ELSE IF i = k THEN t ELSE l[i - 1]
    BY InsertAtElements
  <2>2. e = InsertAt(l, k, t)
    BY <1>1
  <2> HIDE DEF e
  <2> QED  BY <2>1, <2>2, Zenon
<1> HIDE DEF e
<1>3. Unique(e)
  <2> SUFFICES ASSUME NEW i \in 1..Len(e), NEW j \in 1..Len(e), e[i] = e[j], i < j
               PROVE  FALSE
    BY <1>2 DEF Unique
  <2>1. \A n \in 1..Len(l) : l[n] # t
    BY DEF InList
  <2>2. CASE i = k
    <3>1. e[i] = t /\ e[j] = l[j - 1] /\ j - 1 \in 1..Len(l)
      BY <1>2, <2>2
    <3> QED  BY <2>1, <3>1
  <2>3. CASE j = k
    <3>1. e[j] = t /\ e[i] = l[i] /\ i \in 1..Len(l)
      BY <1>2, <2>3
    <3> QED  BY <2>1, <3>1
  <2>6. CASE j < k
    <3>1. i \in 1..Len(l) /\ j \in 1..Len(l) /\ l[i] = l[j]
      BY <1>2, <2>6
    <3> QED  BY <3>1 DEF Unique
  <2>4. CASE i > k
    <3>1. i - 1 \in 1..Len(l) /\ j - 1 \in 1..Len(l) /\ l[i - 1] = l[j - 1]
      BY <1>2, <2>4
    <3> QED  BY <3>1 DEF Unique
  <2>5. CASE i < k /\ j > k
    <3>1. i \in 1..Len(l) /\ j - 1 \in 1..Len(l) /\ l[i] = l[j - 1] /\ i < j - 1
      BY <1>2, <2>5
    <3> QED  BY <3>1 DEF Unique
  <2> QED  BY <1>2, <2>2, <2>3, <2>4, <2>5, <2>6
<1>4. ASSUME NEW u \in Task PROVE InList(e, u) <=> u = t \/ InList(l, u)
  <2>1. ASSUME NEW i \in 1..Len(e), e[i] = u, u # t PROVE InList(l, u)
    <3>1. CASE i < k
      <4>1. i \in 1..Len(l) /\ l[i] = u
        BY <1>2, <2>1, <3>1
      <4> QED  BY <4>1 DEF InList
    <3>2. CASE i > k
      <4>1. i - 1 \in 1..Len(l) /\ l[i - 1] = u
        BY <1>2, <2>1, <3>2
      <4> QED  BY <4>1 DEF InList
    <3> QED  BY <1>2, <2>1, <3>1, <3>2
  <2>2. u = t => InList(e, u)
    BY <1>2 DEF InList
  <2>3. ASSUME NEW i \in 1..Len(l), l[i] = u PROVE InList(e, u)
    <3>1. CASE i < k
      BY <1>2, <2>3, <3>1 DEF InList
    <3>2. CASE i >= k
      <4>1. i + 1 \in 1..Len(e) /\ e[i + 1] = u
        BY <1>2, <2>3, <3>2
      <4> QED  BY <4>1 DEF InList
    <3> QED  BY <3>1, <3>2
  <2> QED  BY <2>1, <2>2, <2>3 DEF InList
<1> QED  BY <1>3, <1>4 DEF e

\* core_Dispatch's Remove of the head unlinks that task and no other.
LEMMA TailUnique ==
    ASSUME NEW l \in Seq(Task), l # <<>>, Unique(l)
    PROVE  /\ Tail(l) \in Seq(Task) /\ Head(l) \in Task /\ InList(l, Head(l))
           /\ Unique(Tail(l))
           /\ \A u \in Task : InList(Tail(l), u) <=> u # Head(l) /\ InList(l, u)
<1>1. /\ Tail(l) \in Seq(Task) /\ Len(Tail(l)) = Len(l) - 1 /\ Len(l) >= 1
      /\ \A i \in 1..Len(l) - 1 : Tail(l)[i] = l[i + 1]
      /\ Head(l) = l[1] /\ Head(l) \in Task
  OBVIOUS
<1> DEFINE r == Tail(l)
           h == Head(l)
<1> HIDE DEF r, h
<1>2. Unique(r)
  BY <1>1 DEF Unique, r
<1>3. ASSUME NEW u \in Task PROVE InList(r, u) <=> u # h /\ InList(l, u)
  <2>1. ASSUME NEW i \in 1..Len(r), r[i] = u PROVE u # h /\ InList(l, u)
    <3>1. i + 1 \in 1..Len(l) /\ 1 \in 1..Len(l) /\ l[i + 1] = u /\ l[1] = h
      BY <1>1, <2>1 DEF r, h
    <3> QED  BY <3>1 DEF Unique, InList
  <2>2. ASSUME NEW i \in 1..Len(l), l[i] = u, u # h PROVE InList(r, u)
    <3>1. i # 1
      BY <1>1, <2>2 DEF h
    <3>2. i - 1 \in 1..Len(r) /\ r[i - 1] = u
      BY <1>1, <2>2, <3>1 DEF r
    <3> QED  BY <3>2 DEF InList
  <2> QED  BY <2>1, <2>2 DEF InList
<1>4. InList(l, h)
  BY <1>1 DEF InList, h
<1> QED  BY <1>1, <1>2, <1>3, <1>4 DEF r, h

\* t is between announcing TS_WAIT and the end of Wait's spin loop.
Blocked(t) ==
    \/ pc[t] = "spin"
    \/ pc[t] \in {"permit", "permit_st"} /\ cont[t] = "spin"

\* What sched_on, inited, ticks and ThisTask say about where main() is.
BootInv ==
    /\ boot_pc = "spawn" => /\ ~sched_on /\ ~inited /\ ThisTask = boot
                            /\ \A t \in Task : tc_State[t] \in {"INVALID", "READY"}
    /\ boot_pc = "done" => ~sched_on /\ ThisTask = boot
    /\ ThisTask # boot => sched_on
    /\ sched_on /\ ThisTask = boot => ~expired
    /\ expired => inited

\* The running task is RUN, or WAIT and spinning; a task on TaskWait is inside
\* Wait; a task that is WAIT but not on TaskWait was parked by the stack probe.
RunInv ==
    /\ ThisTask \in Task => tc_State[ThisTask] \in {"RUN", "WAIT"}
    /\ \A t \in TaskWait : tc_State[t] = "WAIT" /\ Blocked(t)
    /\ \A t \in Task : tc_State[t] = "WAIT" /\ t \notin TaskWait =>
                          t \in Overflow /\ ThisTask # t
    /\ \A t \in Task : tc_State[t] = "RUN" /\ sched_on => ThisTask = t

\* TaskReady holds exactly the READY tasks, each once.
ReadyInv ==
    /\ Unique(TaskReady)
    /\ \A t \in Task : InList(TaskReady, t) <=> tc_State[t] = "READY"

\* The inductive invariant of the list layer.
ListsInv == ForbidInv /\ BootInv /\ RunInv /\ ReadyInv

\* The list layer implies the property the runs check.
LEMMA ListsInvAgree == ListsInv => ListsAgree
<1> SUFFICES ASSUME ListsInv PROVE ListsAgree
  OBVIOUS
<1>1. \A i, j \in 1..Len(TaskReady) : TaskReady[i] = TaskReady[j] => i = j
  BY DEF ListsInv, ReadyInv, Unique
<1>2. ASSUME NEW t \in Task
      PROVE  /\ (\E i \in 1..Len(TaskReady) : TaskReady[i] = t) <=> tc_State[t] = "READY"
             /\ t \in TaskWait => tc_State[t] = "WAIT"
             /\ tc_State[t] = "WAIT" => t \in TaskWait \/ t \in Overflow
             /\ tc_State[t] = "RUN" /\ sched_on => ThisTask = t
             /\ pc[t] = "wait_block" => t \notin TaskWait
  BY DEF ListsInv, ReadyInv, RunInv, InList, Blocked
<1> QED  BY <1>1, <1>2 DEF ListsAgree

\* main() starts with empty lists and no task added.
LEMMA InitListsInv == Init => ListsInv
<1> SUFFICES ASSUME Init PROVE ListsInv
  OBVIOUS
<1>1. ForbidInv
  BY InitForbidInv
<1>2. BootInv
  BY KernelAssumption DEF Init, BootInv, AllTask
<1>3. RunInv
  BY KernelAssumption DEF Init, RunInv, AllTask
<1>4. ReadyInv
  BY KernelAssumption DEF Init, ReadyInv, AllTask, Unique, InList
<1> QED  BY <1>1, <1>2, <1>3, <1>4 DEF ListsInv

\* No step breaks the list layer: spawn, core_Switch and Signal enqueue only
\* tasks that are on no list, and core_Dispatch takes a task off TaskReady.
LEMMA ListsInductive == ListsInv /\ [Next]_vars => ListsInv'
<1> SUFFICES ASSUME ListsInv, [Next]_vars PROVE ListsInv'
  OBVIOUS
<1>0. /\ ForbidInv /\ ForbidInv' /\ TypeOK /\ TypeOK' /\ Control /\ ForbidExclusion
      /\ BootInv /\ RunInv /\ ReadyInv /\ boot \notin Task
  BY ForbidInductive, KernelAssumption DEF ListsInv, ForbidInv
<1>1. ASSUME NEW t \in Task, spawn(t) PROVE ListsInv'
  <2>1. ~InList(TaskReady, t) /\ TaskReady' = Enqueue(TaskReady, t)
        /\ tc_State' = [tc_State EXCEPT ![t] = "READY"] /\ boot_pc = "spawn"
        /\ UNCHANGED <<ThisTask, sched_on, inited, expired, boot_pc, TaskWait, pc, cont>>
    BY <1>0, <1>1 DEF spawn, ReadyInv, sigVars, callVars
  <2>2. ReadyInv'
    BY <1>0, <2>1, EnqueueUnique DEF ReadyInv, TypeOK, AllTask
  <2>3. BootInv' /\ RunInv'
    BY <1>0, <1>1, <2>1 DEF BootInv, RunInv, TypeOK, AllTask, Blocked, spawn
  <2> QED  BY <1>0, <2>2, <2>3 DEF ListsInv
<1>2. CASE arm \/ main_exit \/ UNCHANGED vars
  <2>1. UNCHANGED <<ThisTask, TaskReady, TaskWait, tc_State, inited, expired, pc, cont>>
    BY <1>2 DEF arm, main_exit, vars, schedVars, sigVars, callVars
  <2>2. BootInv' /\ RunInv'
    BY <1>0, <1>2, <2>1 DEF BootInv, RunInv, Blocked, arm, main_exit, vars, schedVars
  <2> QED  BY <1>0, <2>1, <2>2 DEF ListsInv, ReadyInv
<1>3. CASE tick_off \/ tick_init \/ tick_forbidden \/ tick_idle
  <2>1. UNCHANGED <<ThisTask, TaskReady, TaskWait, tc_State, sched_on, boot_pc, pc, cont>>
    BY <1>3 DEF tick_off, tick_init, tick_forbidden, tick_idle, sigVars, callVars
  <2>2. BootInv'
    <3>1. ThisTask = boot => forbid_cnt = 0
      BY <1>0 DEF ForbidExclusion
    <3> QED
      BY <1>0, <1>3, <2>1, <3>1 DEF BootInv, tick_off, tick_init, tick_forbidden, tick_idle,
                               tick_count, Preemptible
  <2> QED  BY <1>0, <2>1, <2>2 DEF ListsInv, ReadyInv, RunInv, Blocked
<1>4. CASE tick_shutdown
  <2>1. /\ UNCHANGED <<TaskReady, TaskWait, inited, boot_pc, pc, cont>>
        /\ ~sched_on' /\ ThisTask' = boot /\ tick_count /\ expired'
        /\ tc_State' = [tc_State EXCEPT ![boot] = "RUN"] /\ sched_on
    BY <1>4 DEF tick_shutdown, sigVars, callVars
  <2>2. BootInv' /\ RunInv' /\ ReadyInv'
    BY <1>0, <2>1 DEF BootInv, RunInv, ReadyInv, Blocked, tick_count, TypeOK, AllTask
  <2> QED  BY <1>0, <2>2 DEF ListsInv
<1>5. CASE tick_switch
  <2>1. PICK spOk \in BOOLEAN :
          /\ ThisTask \notin Overflow => spOk
          /\ TaskReady' = Tail(core_Switch(ThisTask, spOk).l)
          /\ ThisTask' = Head(core_Switch(ThisTask, spOk).l)
          /\ tc_State' = [tc_State EXCEPT ![ThisTask] = core_Switch(ThisTask, spOk).st,
                                          ![Head(core_Switch(ThisTask, spOk).l)] = "RUN"]
    BY <1>5 DEF tick_switch
  <2> DEFINE old == ThisTask
             l   == core_Switch(ThisTask, spOk).l
             st  == core_Switch(ThisTask, spOk).st
             nt  == Head(l)
  <2>2. /\ sched_on /\ inited /\ ~expired' /\ TaskReady # <<>>
        /\ UNCHANGED <<sched_on, inited, boot_pc, TaskWait, pc, cont>>
    BY <1>5 DEF tick_switch, sigVars, callVars
  \* What core_Switch did with the interrupted task.
  <2>3. /\ l \in Seq(Task) /\ l # <<>> /\ Unique(l)
        /\ \A u \in Task : InList(l, u) <=> InList(TaskReady, u) \/ (u = old /\ st = "READY")
        /\ old \in Task => \/ st = "READY" /\ tc_State[old] = "RUN"
                           \/ st = "WAIT" /\ tc_State[old] = "WAIT"
                           \/ st = "WAIT" /\ tc_State[old] = "RUN" /\ old \in Overflow
    <3>1. CASE old \in Task /\ tc_State[old] = "RUN" /\ spOk
      <4>1. l = Enqueue(TaskReady, old) /\ st = "READY"
        BY <1>0, <3>1 DEF core_Switch
      <4>2. ~InList(TaskReady, old)
        BY <1>0, <3>1 DEF ReadyInv
      <4>3. /\ l \in Seq(Task) /\ Len(l) = Len(TaskReady) + 1 /\ Unique(l)
            /\ \A u \in Task : InList(l, u) <=> u = old \/ InList(TaskReady, u)
        <5>1. TaskReady \in Seq(Task) /\ Unique(TaskReady) /\ old \in Task
          BY <1>0, <3>1 DEF ReadyInv, TypeOK
        <5> HIDE DEF l, old
        <5> QED  BY <4>1, <4>2, <5>1, EnqueueUnique, EnqueueType
      <4> HIDE DEF l, st, old
      <4>4. l # <<>>
        BY <1>0, <4>3 DEF TypeOK
      <4> QED  BY <3>1, <4>1, <4>3, <4>4
    <3>2. CASE old \in Task /\ tc_State[old] = "RUN" /\ ~spOk
      <4>1. l = TaskReady /\ st = "WAIT" /\ old \in Overflow
        BY <1>0, <2>1, <3>2 DEF core_Switch
      <4> QED  BY <1>0, <2>2, <3>2, <4>1 DEF ReadyInv, TypeOK
    <3>3. CASE old \in Task /\ tc_State[old] # "RUN"
      <4>1. l = TaskReady /\ st = "WAIT" /\ tc_State[old] = "WAIT"
        BY <1>0, <3>3 DEF core_Switch, RunInv
      <4> QED  BY <1>0, <2>2, <3>3, <4>1 DEF ReadyInv, TypeOK
    <3>4. CASE old \notin Task
      <4>1. l = TaskReady
        BY <1>0, <3>4 DEF core_Switch, TypeOK, AllTask
      <4> QED  BY <1>0, <2>2, <3>4, <4>1 DEF ReadyInv, TypeOK
    <3> QED  BY <3>1, <3>2, <3>3, <3>4
  <2>4. TaskReady' = Tail(l) /\ ThisTask' = nt
        /\ tc_State' = [tc_State EXCEPT ![old] = st, ![nt] = "RUN"]
    BY <2>1
  <2> HIDE DEF l, st
  <2>5. /\ nt \in Task /\ InList(l, nt) /\ Unique(Tail(l))
        /\ \A u \in Task : InList(Tail(l), u) <=> u # nt /\ InList(l, u)
    BY <2>3, TailUnique
  <2>6. /\ tc_State'[nt] = "RUN"
        /\ \A u \in Task : u # nt /\ u # old => tc_State'[u] = tc_State[u]
        /\ old \in Task /\ old # nt => tc_State'[old] = st
    BY <1>0, <2>4, <2>5 DEF TypeOK, AllTask
  <2> HIDE DEF nt
  <2>7. \A u \in Task : InList(TaskReady, u) <=> tc_State[u] = "READY"
    BY <1>0 DEF ReadyInv
  <2>8. ReadyInv'
    <3>1. Unique(TaskReady')
      BY <2>4, <2>5
    <3>2. ASSUME NEW u \in Task PROVE InList(TaskReady', u) <=> tc_State'[u] = "READY"
      <4>1. CASE u = nt
        BY <2>4, <2>5, <2>6, <4>1
      <4>2. CASE u # nt /\ u = old
        BY <2>3, <2>4, <2>5, <2>6, <2>7, <4>2
      <4>3. CASE u # nt /\ u # old
        BY <2>3, <2>4, <2>5, <2>6, <2>7, <4>3
      <4> QED  BY <4>1, <4>2, <4>3
    <3> QED  BY <3>1, <3>2 DEF ReadyInv
  <2>9. nt # old => tc_State[nt] = "READY"
    BY <2>3, <2>5, <2>7
  <2>10. old \in Task /\ st = "WAIT" => nt # old
    BY <2>3, <2>5, <2>7
  <2>11. RunInv'
    <3>1. ASSUME NEW u \in TaskWait PROVE tc_State'[u] = "WAIT" /\ Blocked(u)'
      <4>1. u \in Task /\ tc_State[u] = "WAIT" /\ Blocked(u)
        BY <1>0 DEF RunInv, TypeOK
      <4>2. u # nt
        BY <2>3, <2>9, <2>10, <4>1
      <4>3. tc_State'[u] = "WAIT"
        BY <2>3, <2>6, <4>1, <4>2
      <4> QED  BY <2>2, <4>1, <4>3 DEF Blocked
    <3>2. ASSUME NEW u \in Task, tc_State'[u] = "WAIT", u \notin TaskWait
          PROVE  u \in Overflow /\ nt # u
      BY <1>0, <2>3, <2>6, <3>2 DEF RunInv
    <3>3. ASSUME NEW u \in Task, tc_State'[u] = "RUN" PROVE nt = u
      BY <1>0, <2>2, <2>3, <2>6, <3>3 DEF RunInv
    <3> QED  BY <2>2, <2>4, <2>5, <2>6, <3>1, <3>2, <3>3 DEF RunInv
  <2>12. BootInv'
    BY <1>0, <2>2, <2>4, <2>5 DEF BootInv
  <2> QED  BY <1>0, <2>8, <2>11, <2>12 DEF ListsInv
<1>6. ASSUME NEW t \in Task, TaskStep(t) PROVE ListsInv'
  <2>0. ThisTask = t
    BY <1>6 DEF TaskStep, KernelStep, ForbidStore, PermitLoad, PermitStore,
           WaitTest, WaitBlock, WaitSpin, WaitTake, SignalOr, SignalWake, CritFirst,
           CritLast, Call, CallWait, CallSignal, CallCrit, At
  <2>1. BootInv'
    <3>1. UNCHANGED <<ThisTask, sched_on, inited, expired, boot_pc>>
      BY <1>6 DEF TaskStep, KernelStep, ForbidStore, PermitLoad, PermitStore,
           WaitTest, WaitBlock, WaitSpin, WaitTake, SignalOr, SignalWake, CritFirst,
           CritLast, Call, CallWait, CallSignal, CallCrit, schedVars
    <3> QED  BY <1>0, <2>0, <3>1 DEF BootInv
  \* A step that leaves the lists alone and keeps a blocked task blocked.
  <2>2. ASSUME UNCHANGED <<ThisTask, TaskReady, TaskWait, tc_State, sched_on>>,
               \A u \in Task \ {t} : pc'[u] = pc[u] /\ cont'[u] = cont[u],
               Blocked(t) /\ tc_State[t] = "WAIT" => Blocked(t)'
        PROVE  ListsInv'
    <3>1. RunInv'
      BY <1>0, <2>0, <2>2 DEF RunInv, Blocked, TypeOK
    <3> QED  BY <1>0, <2>1, <2>2, <3>1 DEF ListsInv, ReadyInv
  <2>3. CASE \/ ForbidStore(t) \/ PermitLoad(t) \/ PermitStore(t) \/ WaitTest(t)
             \/ SignalOr(t) \/ CritFirst(t)
    BY <1>0, <2>2, <2>3 DEF ForbidStore, PermitLoad, PermitStore, WaitTest, SignalOr,
             CritFirst, At, Goto, schedVars, sigVars, Blocked, TypeOK
  <2>4. CASE WaitTake(t) \/ CritLast(t)
    BY <1>0, <2>2, <2>4 DEF WaitTake, CritLast, PermitThen, At, Goto, schedVars, sigVars,
             Blocked, TypeOK
  <2>5. CASE WaitSpin(t) \/ Call(t)
    BY <1>0, <2>2, <2>5 DEF WaitSpin, Call, CallWait, CallSignal, CallCrit, ForbidLoad, At,
             Goto, schedVars, sigVars, Blocked, TypeOK
  <2>6. CASE WaitBlock(t)
    <3>1. /\ tc_State' = [tc_State EXCEPT ![t] = "WAIT"] /\ TaskWait' = TaskWait \cup {t}
          /\ UNCHANGED <<ThisTask, TaskReady, sched_on>>
          /\ pc' = [pc EXCEPT ![t] = "permit"] /\ cont' = [cont EXCEPT ![t] = "spin"]
      BY <2>6 DEF WaitBlock, PermitThen, Goto
    <3>2. tc_State[t] # "READY"
      BY <1>0, <2>0 DEF RunInv
    <3>3. ReadyInv'
      BY <1>0, <3>1, <3>2 DEF ReadyInv, TypeOK, AllTask
    <3>4. RunInv'
      BY <1>0, <2>0, <3>1 DEF RunInv, TypeOK, AllTask, Blocked
    <3> QED  BY <1>0, <2>1, <3>3, <3>4 DEF ListsInv
  <2>7. CASE SignalWake(t)
    <3> DEFINE u == target[t]
    <3>1. CASE ~Wakes(u)
      BY <1>0, <2>2, <2>7, <3>1 DEF SignalWake, PermitThen, At, Goto, Blocked, TypeOK
    <3>2. CASE Wakes(u)
      <4>1. /\ tc_State' = [tc_State EXCEPT ![u] = "READY"] /\ TaskWait' = TaskWait \ {u}
            /\ TaskReady' = Enqueue(TaskReady, u) /\ UNCHANGED <<ThisTask, sched_on>>
            /\ pc' = [pc EXCEPT ![t] = "permit"] /\ cont' = [cont EXCEPT ![t] = "user"]
            /\ pc[t] = "sig_wake"
        BY <2>7, <3>2 DEF SignalWake, PermitThen, Goto, At
      <4>2. u \in Task /\ tc_State[u] = "WAIT"
        BY <1>0, <3>2 DEF TypeOK, Wakes
      <4> HIDE DEF u
      <4>3. ~Blocked(t) /\ t \notin TaskWait
        BY <1>0, <4>1 DEF Blocked, RunInv
      <4>4. u # t
        BY <1>0, <2>0, <4>2, <4>3 DEF RunInv
      <4>5. ~InList(TaskReady, u)
        BY <1>0, <4>2 DEF ReadyInv
      <4>6. ReadyInv'
        BY <1>0, <4>1, <4>2, <4>5, EnqueueUnique DEF ReadyInv, TypeOK, AllTask
      <4>7. RunInv'
        BY <1>0, <2>0, <4>1, <4>2, <4>3, <4>4 DEF RunInv, TypeOK, AllTask, Blocked
      <4> QED  BY <1>0, <2>1, <4>6, <4>7 DEF ListsInv
    <3> QED  BY <3>1, <3>2
  <2> QED
    BY <1>6, <2>3, <2>4, <2>5, <2>6, <2>7 DEF TaskStep, KernelStep
<1> QED
  BY <1>1, <1>2, <1>3, <1>4, <1>5, <1>6 DEF Next, Boot, Tick

\* The list layer holds in every reachable state.
THEOREM ListsInvariant == Spec => []ListsInv
BY InitListsInv, ListsInductive, PTL DEF Spec

\* No task is ever linked twice, lost from the lists or in a list its tc_State
\* does not name (exec.c core_Switch and core_Dispatch, signal.c Wait, Signal).
THEOREM ListsConsistent == Spec => []ListsAgree
BY ListsInvariant, ListsInvAgree, PTL

\* When main() reports, the scheduler is off and no worker was abandoned
\* inside a critical section (kern.c on_alarm, shutdown after the forbid test).
THEOREM ShutdownClean == Spec => []CleanShutdown
<1>1. ListsInv => CleanShutdown
  BY KernelAssumption DEF ListsInv, BootInv, ForbidInv, ForbidExclusion, CleanShutdown
<1> QED  BY <1>1, ListsInvariant, PTL

-----------------------------------------------------------------------------

\* t is on its way to collecting the result of Wait.
Collects(t) ==
    \/ pc[t] = "wait_take"
    \/ pc[t] = "forbid_st" /\ cont[t] = "wait_take"
    \/ Blocked(t) /\ t \notin TaskWait

\* The inductive invariant of the signal layer.
SigInv ==
    /\ \A t \in TaskWait : tc_SigWait[t] = sigs[t]
    /\ \A t \in Task : pc[t] = "wait_block" => tc_SigRecvd[t] \cap sigs[t] = {}
    /\ \A t \in Task : Collects(t) => tc_SigRecvd[t] \cap sigs[t] # {}
    /\ NoLostWakeup

\* Nothing is posted and nobody waits at the start.
LEMMA InitSigInv == Init => SigInv
BY DEF Init, SigInv, Collects, Blocked, NoLostWakeup

\* No step breaks the signal layer: the test in Wait and the announcement of
\* TS_WAIT are in one Forbid section, so no Signal falls between them.
LEMMA SigInductive == ListsInv /\ SigInv /\ [Next]_vars => SigInv'
<1> SUFFICES ASSUME ListsInv, SigInv, [Next]_vars PROVE SigInv'
  OBVIOUS
<1>0. /\ TypeOK /\ TypeOK' /\ Control /\ ForbidExclusion /\ RunInv
  BY ListsInductive DEF ListsInv, ForbidInv
<1>1. CASE Boot \/ Tick \/ UNCHANGED vars
  <2>1. UNCHANGED <<sigVars, callVars>>
    BY <1>1 DEF Boot, spawn, arm, main_exit, Tick, tick_off, tick_init, tick_forbidden,
           tick_shutdown, tick_idle, tick_switch, vars
  <2> QED
    BY <2>1 DEF SigInv, Collects, Blocked, NoLostWakeup, sigVars, callVars
<1>2. ASSUME NEW t \in Task, TaskStep(t) PROVE SigInv'
  <2>0. ThisTask = t
    BY <1>2 DEF TaskStep, KernelStep, ForbidStore, PermitLoad, PermitStore,
           WaitTest, WaitBlock, WaitSpin, WaitTake, SignalOr, SignalWake, CritFirst,
           CritLast, Call, CallWait, CallSignal, CallCrit, At
  <2>1. \A u \in Task : pc[u] \in {"wait_block", "sig_wake"} => u = t
    BY <1>0, <2>0 DEF ForbidExclusion, CritLabel
  <2>2. t \in TaskWait => Blocked(t) /\ tc_State[t] = "WAIT"
    BY <1>0 DEF RunInv
  <2> USE DEF At, Goto, Blocked, schedVars, sigVars
  \* Steps that change no signal: only where t is matters.
  <2>3. ASSUME UNCHANGED <<TaskWait, tc_SigRecvd, tc_SigWait>>,
               \A u \in Task \ {t} :
                   /\ pc'[u] = pc[u] /\ cont'[u] = cont[u]
                   /\ sigs'[u] = sigs[u] /\ target'[u] = target[u],
               t \in TaskWait => sigs'[t] = sigs[t],
               pc'[t] = "wait_block" => tc_SigRecvd[t] \cap sigs'[t] = {},
               Collects(t)' => tc_SigRecvd[t] \cap sigs'[t] # {},
               pc[t] # "sig_wake"
        PROVE  SigInv'
    <3>1. ASSUME NEW u \in TaskWait PROVE tc_SigWait'[u] = sigs'[u]
      BY <1>0, <2>3 DEF SigInv, TypeOK
    <3>2. ASSUME NEW u \in Task, pc'[u] = "wait_block"
          PROVE  tc_SigRecvd'[u] \cap sigs'[u] = {}
      BY <2>3, <3>2 DEF SigInv
    <3>3. ASSUME NEW u \in Task, Collects(u)'
          PROVE  tc_SigRecvd'[u] \cap sigs'[u] # {}
      BY <2>3, <3>3 DEF SigInv, Collects
    <3>4. ASSUME NEW u \in TaskWait PROVE tc_SigRecvd[u] \cap sigs[u] = {}
      BY <2>1, <2>3 DEF SigInv, NoLostWakeup
    <3>5. ASSUME NEW u \in TaskWait PROVE tc_SigRecvd'[u] \cap sigs'[u] = {}
      BY <1>0, <2>3, <3>4 DEF TypeOK
    <3> QED  BY <2>3, <3>1, <3>2, <3>3, <3>5 DEF SigInv, NoLostWakeup
  <2>4. CASE ForbidStore(t)
    BY <1>0, <2>2, <2>3, <2>4 DEF ForbidStore, SigInv, Collects, TypeOK, Control, ForbidEntry
  <2>5. CASE PermitLoad(t)
    BY <1>0, <2>2, <2>3, <2>5 DEF PermitLoad, SigInv, Collects, TypeOK
  <2>6. CASE PermitStore(t)
    BY <1>0, <2>2, <2>3, <2>6 DEF PermitStore, SigInv, Collects, TypeOK, Control
  <2>7. CASE WaitTest(t)
    BY <1>0, <2>2, <2>3, <2>7 DEF WaitTest, SigInv, Collects, TypeOK
  <2>8. CASE WaitSpin(t)
    BY <1>0, <2>2, <2>3, <2>8 DEF WaitSpin, ForbidLoad, SigInv, Collects, TypeOK
  <2>9. CASE CritFirst(t) \/ CritLast(t)
    BY <1>0, <2>2, <2>3, <2>9 DEF CritFirst, CritLast, PermitThen, SigInv, Collects, TypeOK
  <2>10. CASE Call(t)
    <3>1. /\ pc[t] = "user" /\ pc' = [pc EXCEPT ![t] = "forbid_st"]
          /\ UNCHANGED <<TaskWait, tc_SigRecvd, tc_SigWait>>
      BY <2>10 DEF Call, CallWait, CallSignal, CallCrit, ForbidLoad
    <3>2. \E l \in {"wait_test", "sig_or", "crit"} : cont' = [cont EXCEPT ![t] = l]
      BY <2>10 DEF Call, CallWait, CallSignal, CallCrit, ForbidLoad
    <3>3. \A u \in Task \ {t} : sigs'[u] = sigs[u] /\ target'[u] = target[u]
      BY <1>0, <2>10 DEF Call, CallWait, CallSignal, CallCrit, TypeOK
    <3>4. /\ pc'[t] = "forbid_st" /\ cont'[t] # "wait_take"
          /\ \A u \in Task \ {t} : pc'[u] = pc[u] /\ cont'[u] = cont[u]
      BY <1>0, <3>1, <3>2 DEF TypeOK
    <3>5. t \notin TaskWait
      BY <2>2, <3>1
    <3>6. ~Collects(t)'
      BY <3>4 DEF Collects
    <3> QED  BY <2>3, <3>1, <3>3, <3>4, <3>5, <3>6
  <2>11. CASE WaitBlock(t)
    <3>1. /\ pc[t] = "wait_block" /\ pc' = [pc EXCEPT ![t] = "permit"]
          /\ cont' = [cont EXCEPT ![t] = "spin"] /\ TaskWait' = TaskWait \cup {t}
          /\ tc_SigWait' = [tc_SigWait EXCEPT ![t] = sigs[t]]
          /\ UNCHANGED <<tc_SigRecvd, sigs, target>>
      BY <2>11 DEF WaitBlock, PermitThen
    <3>2. ASSUME NEW u \in TaskWait' PROVE tc_SigWait'[u] = sigs'[u]
      BY <1>0, <3>1 DEF SigInv, TypeOK
    <3>3. ASSUME NEW u \in Task PROVE pc'[u] # "wait_block"
      BY <1>0, <2>1, <3>1 DEF TypeOK
    <3>4. ASSUME NEW u \in Task, Collects(u)'
          PROVE  tc_SigRecvd'[u] \cap sigs'[u] # {}
      BY <1>0, <3>1, <3>4 DEF SigInv, Collects, TypeOK
    <3>5. ASSUME NEW u \in TaskWait' PROVE tc_SigRecvd'[u] \cap sigs'[u] = {}
      BY <2>1, <3>1 DEF SigInv, NoLostWakeup
    <3> QED  BY <3>2, <3>3, <3>4, <3>5 DEF SigInv, NoLostWakeup
  <2>12. CASE WaitTake(t)
    <3>1. /\ pc[t] = "wait_take" /\ pc' = [pc EXCEPT ![t] = "permit"]
          /\ cont' = [cont EXCEPT ![t] = "user"]
          /\ tc_SigRecvd' = [tc_SigRecvd EXCEPT ![t] = @ \ sigs[t]]
          /\ UNCHANGED <<TaskWait, tc_SigWait, sigs, target>>
      BY <2>12 DEF WaitTake, PermitThen
    <3>2. t \notin TaskWait
      BY <2>2, <3>1
    <3>3. /\ pc'[t] = "permit" /\ cont'[t] = "user"
          /\ \A u \in Task \ {t} : /\ pc'[u] = pc[u] /\ cont'[u] = cont[u]
                                  /\ tc_SigRecvd'[u] = tc_SigRecvd[u]
      BY <1>0, <3>1 DEF TypeOK
    <3>4. ASSUME NEW u \in Task PROVE pc'[u] # "wait_block"
      BY <2>1, <3>1, <3>3
    <3>5. ASSUME NEW u \in Task, Collects(u)'
          PROVE  tc_SigRecvd'[u] \cap sigs'[u] # {}
      <4>1. CASE u = t
        \* t is on its way back to its program
        BY <3>3, <3>5, <4>1, <3>1 DEF Collects
      <4>2. CASE u # t
        <5>1. Collects(u)
          BY <3>1, <3>3, <3>5, <4>2 DEF Collects
        <5> QED  BY <3>1, <3>3, <4>2, <5>1 DEF SigInv
      <4> QED  BY <4>1, <4>2
    <3>6. ASSUME NEW u \in TaskWait
          PROVE  tc_SigWait'[u] = sigs'[u] /\ tc_SigRecvd'[u] \cap sigs'[u] = {}
      <4>1. u \in Task /\ u # t
        BY <1>0, <3>2 DEF TypeOK
      <4>2. tc_SigRecvd[u] \cap sigs[u] = {}
        BY <2>1, <3>1 DEF SigInv, NoLostWakeup
      <4> QED  BY <3>1, <3>3, <4>1, <4>2 DEF SigInv
    <3> QED  BY <3>1, <3>4, <3>5, <3>6 DEF SigInv, NoLostWakeup
  <2>13. CASE SignalOr(t)
    <3> DEFINE v == target[t]
    <3>1. /\ pc[t] = "sig_or" /\ pc' = [pc EXCEPT ![t] = "sig_wake"] /\ v \in Task
          /\ tc_SigRecvd' = [tc_SigRecvd EXCEPT ![v] = @ \cup sigs[t]]
          /\ UNCHANGED <<TaskWait, tc_SigWait, cont, sigs, target>>
      BY <1>0, <2>13 DEF SignalOr, TypeOK
    <3>2. \A u \in Task : tc_SigRecvd[u] \subseteq tc_SigRecvd'[u]
      BY <1>0, <3>1 DEF TypeOK
    <3>3. \A u \in Task : u # v => tc_SigRecvd'[u] = tc_SigRecvd[u]
      BY <1>0, <3>1 DEF TypeOK
    <3>4. pc'[t] = "sig_wake" /\ target'[t] = v /\ \A u \in Task \ {t} : pc'[u] = pc[u]
      BY <1>0, <3>1 DEF TypeOK
    <3>5. ASSUME NEW u \in Task PROVE pc'[u] # "wait_block"
      BY <2>1, <3>1, <3>4
    <3>6. ASSUME NEW u \in Task, Collects(u)'
          PROVE  tc_SigRecvd'[u] \cap sigs'[u] # {}
      <4>1. Collects(u)
        BY <3>1, <3>4, <3>6 DEF Collects
      <4> QED  BY <3>1, <3>2, <4>1 DEF SigInv
    <3>7. ASSUME NEW u \in TaskWait, u # v PROVE tc_SigRecvd'[u] \cap sigs'[u] = {}
      <4>1. u \in Task
        BY <1>0 DEF TypeOK
      <4>2. tc_SigRecvd[u] \cap sigs[u] = {}
        BY <2>1, <3>1 DEF SigInv, NoLostWakeup
      <4> QED  BY <3>1, <3>3, <3>7, <4>1, <4>2
    <3> HIDE DEF v
    <3> QED  BY <3>1, <3>4, <3>5, <3>6, <3>7 DEF SigInv, NoLostWakeup
  <2>14. CASE SignalWake(t)
    <3> DEFINE v == target[t]
    <3>1. /\ pc[t] = "sig_wake" /\ pc' = [pc EXCEPT ![t] = "permit"] /\ v \in Task
          /\ cont' = [cont EXCEPT ![t] = "user"]
          /\ UNCHANGED <<tc_SigRecvd, tc_SigWait, sigs, target>>
      BY <1>0, <2>14 DEF SignalWake, PermitThen, TypeOK
    <3>2. TaskWait' = IF Wakes(v) THEN TaskWait \ {v} ELSE TaskWait
      BY <2>14 DEF SignalWake
    <3>3. /\ pc'[t] = "permit" /\ cont'[t] = "user"
          /\ \A u \in Task \ {t} : pc'[u] = pc[u] /\ cont'[u] = cont[u]
      BY <1>0, <3>1 DEF TypeOK
    <3>4. ASSUME NEW u \in Task PROVE pc'[u] # "wait_block"
      BY <2>1, <3>1, <3>3
    <3>5. ASSUME NEW u \in TaskWait, u # v PROVE tc_SigRecvd[u] \cap sigs[u] = {}
      BY <2>1, <3>5 DEF SigInv, NoLostWakeup
    <3>6. v \in TaskWait => (Wakes(v) <=> tc_SigRecvd[v] \cap sigs[v] # {})
      BY <1>0 DEF Wakes, RunInv, SigInv
    <3>7. ASSUME NEW u \in Task, Collects(u)'
          PROVE  tc_SigRecvd'[u] \cap sigs'[u] # {}
      <4>1. CASE Collects(u)
        BY <3>1, <4>1 DEF SigInv
      <4>2. CASE ~Collects(u)
        <5>1. u = v /\ v \in TaskWait /\ Wakes(v)
          BY <3>2, <3>3, <3>7, <4>2 DEF Collects
        <5> QED  BY <3>1, <3>6, <5>1
      <4> QED  BY <4>1, <4>2
    <3>8. ASSUME NEW u \in TaskWait'
          PROVE  tc_SigWait'[u] = sigs'[u] /\ tc_SigRecvd'[u] \cap sigs'[u] = {}
      <4>1. u \in TaskWait /\ (u = v => ~Wakes(v))
        BY <3>2
      <4> QED  BY <3>1, <3>5, <3>6, <4>1 DEF SigInv
    <3> HIDE DEF v
    <3> QED  BY <3>4, <3>7, <3>8 DEF SigInv, NoLostWakeup
  <2> QED
    BY <1>2, <2>4, <2>5, <2>6, <2>7, <2>8, <2>9, <2>10, <2>11, <2>12, <2>13, <2>14
       DEF TaskStep, KernelStep
<1> QED  BY <1>1, <1>2 DEF Next

\* The signal layer holds in every reachable state.
THEOREM SigInvariant == Spec => []SigInv
<1>1. Init => ListsInv /\ SigInv
  BY InitListsInv, InitSigInv
<1>2. (ListsInv /\ SigInv) /\ [Next]_vars => (ListsInv /\ SigInv)'
  BY ListsInductive, SigInductive
<1> QED  BY <1>1, <1>2, PTL DEF Spec

\* No wake-up is lost, whatever the timer interrupts (signal.c Wait, Signal).
THEOREM WakeupNotLost == Spec => []NoLostWakeup
<1>1. SigInv => NoLostWakeup
  BY DEF SigInv
<1> QED  BY <1>1, SigInvariant, PTL

\* Wait never returns 0 (signal.c Wait): a task is made READY only by a Signal
\* that gave it one of the bits it asked for, and nobody else takes them.
THEOREM WaitNeverEmpty == Spec => []WaitReturnsSignal
<1>1. SigInv => WaitReturnsSignal
  BY DEF SigInv, Collects, WaitReturnsSignal
<1> QED  BY <1>1, SigInvariant, PTL

-----------------------------------------------------------------------------

\* l is ordered by non-increasing priority.
Sorted(l) == \A i, j \in 1..Len(l) : i < j => Pri[l[i]] >= Pri[l[j]]

\* Where Enqueue puts t in an ordered list: behind its equals, before the rest.
LEMMA EnqueueSorted ==
    ASSUME NEW l \in Seq(Task), NEW t \in Task, Sorted(l)
    PROVE  /\ Sorted(Enqueue(l, t))
           /\ \A i \in 1..Len(l) :
                 Pri[l[i]] = Pri[t] =>
                    \E k \in 1..Len(l) + 1 : /\ i < k
                                             /\ Enqueue(l, t)[i] = l[i]
                                             /\ Enqueue(l, t)[k] = t
<1>1. PICK k \in 1..Len(l) + 1 :
         /\ Enqueue(l, t) = InsertAt(l, k, t)
         /\ \A i \in 1..k - 1 : Pri[l[i]] >= Pri[t]
         /\ k <= Len(l) => Pri[l[k]] < Pri[t]
  BY EnqueueElements
<1> DEFINE e == Enqueue(l, t)
<1>2. /\ e \in Seq(Task) /\ Len(e) = Len(l) + 1
      /\ \A i \in 1..Len(l) + 1 :
            e[i] = IF i < k THEN l[i] ELSE IF i = k THEN t ELSE l[i - 1]
  <2>1. /\ InsertAt(l, k, t) \in Seq(Task) /\ Len(InsertAt(l, k, t)) = Len(l) + 1
        /\ \A i \in 1..Len(l) + 1 :
              InsertAt(l, k, t)[i] = IF i < k THEN l[i] ELSE IF i = k THEN t ELSE l[i - 1]
    BY InsertAtElements
  <2>2. e = InsertAt(l, k, t)
    BY <1>1
  <2> HIDE DEF e
  <2> QED  BY <2>1, <2>2, Zenon
<1>3. \A i \in 1..Len(l) : Pri[l[i]] \in Int
  BY KernelAssumption
<1>4. Pri[t] \in Int
  BY KernelAssumption
<1>5. \A i \in 1..Len(l) : i >= k => Pri[l[i]] < Pri[t]
  <2> SUFFICES ASSUME NEW i \in 1..Len(l), i >= k PROVE Pri[l[i]] < Pri[t]
    OBVIOUS
  <2>1. k \in 1..Len(l) /\ Pri[l[k]] < Pri[t] /\ Pri[l[k]] \in Int /\ Pri[l[i]] \in Int
    BY <1>1, <1>3
  <2>2. Pri[l[k]] >= Pri[l[i]]
    BY <2>1 DEF Sorted
  <2> QED  BY <1>4, <2>1, <2>2
<1> HIDE DEF e
<1>6. Sorted(e)
  <2> SUFFICES ASSUME NEW i \in 1..Len(e), NEW j \in 1..Len(e), i < j
               PROVE  Pri[e[i]] >= Pri[e[j]]
    BY DEF Sorted
  <2>1. CASE j < k
    BY <1>2, <2>1 DEF Sorted
  <2>2. CASE j = k
    <3>1. i \in 1..k - 1 /\ e[i] = l[i] /\ e[j] = t
      BY <1>2, <2>2
    <3> QED  BY <1>1, <3>1
  <2>3. CASE j > k /\ i = k
    <3>1. j - 1 \in 1..Len(l) /\ j - 1 >= k /\ e[j] = l[j - 1] /\ e[i] = t
      BY <1>2, <2>3
    <3> QED  BY <1>3, <1>4, <1>5, <3>1
  <2>4. CASE j > k /\ i < k
    <3>1. /\ j - 1 \in 1..Len(l) /\ e[j] = l[j - 1] /\ i \in 1..Len(l) /\ e[i] = l[i]
          /\ i < j - 1
      BY <1>2, <2>4
    <3> QED  BY <3>1 DEF Sorted
  <2>5. CASE j > k /\ i > k
    <3>1. /\ j - 1 \in 1..Len(l) /\ e[j] = l[j - 1] /\ i - 1 \in 1..Len(l)
          /\ e[i] = l[i - 1] /\ i - 1 < j - 1
      BY <1>2, <2>5
    <3> QED  BY <3>1 DEF Sorted
  <2> QED  BY <1>2, <2>1, <2>2, <2>3, <2>4, <2>5
<1>7. ASSUME NEW i \in 1..Len(l), Pri[l[i]] = Pri[t]
      PROVE  i < k /\ e[i] = l[i] /\ e[k] = t
  <2>1. ~ (i >= k)
    BY <1>3, <1>4, <1>5, <1>7
  <2> QED  BY <1>2, <2>1
<1> QED  BY <1>6, <1>7 DEF e

\* The head of an ordered list is its maximum and the rest is ordered.
LEMMA TailSorted ==
    ASSUME NEW l \in Seq(Task), l # <<>>, Sorted(l)
    PROVE  /\ Sorted(Tail(l))
           /\ \A i \in 1..Len(Tail(l)) : Pri[Tail(l)[i]] <= Pri[Head(l)]
           /\ \A i \in 1..Len(Tail(l)) - 1 : Pri[Tail(l)[i]] >= Pri[Tail(l)[i + 1]]
<1> DEFINE r == Tail(l)
<1>1. /\ r \in Seq(Task) /\ Len(r) = Len(l) - 1 /\ Len(l) >= 1
      /\ \A i \in 1..Len(r) : i + 1 \in 1..Len(l) /\ r[i] = l[i + 1]
      /\ Head(l) = l[1]
  OBVIOUS
<1> HIDE DEF r
<1>2. Sorted(r)
  <2> SUFFICES ASSUME NEW i \in 1..Len(r), NEW j \in 1..Len(r), i < j
               PROVE  Pri[r[i]] >= Pri[r[j]]
    BY DEF Sorted
  <2>1. /\ i + 1 \in 1..Len(l) /\ j + 1 \in 1..Len(l) /\ i + 1 < j + 1
        /\ r[i] = l[i + 1] /\ r[j] = l[j + 1]
    BY <1>1
  <2> QED  BY <2>1 DEF Sorted
<1>3. ASSUME NEW i \in 1..Len(r) PROVE Pri[r[i]] <= Pri[l[1]]
  <2>1. Pri[l[1]] >= Pri[l[i + 1]] /\ r[i] = l[i + 1] /\ 1 \in 1..Len(l) /\ i + 1 \in 1..Len(l)
    BY <1>1 DEF Sorted
  <2>2. Pri[l[1]] \in Int /\ Pri[l[i + 1]] \in Int
    BY <2>1, KernelAssumption
  <2> QED  BY <2>1, <2>2
<1>4. ASSUME NEW i \in 1..Len(r) - 1 PROVE Pri[r[i]] >= Pri[r[i + 1]]
  BY <1>1, <1>2 DEF Sorted
<1> QED  BY <1>1, <1>2, <1>3, <1>4 DEF r

\* The only step that gives the CPU to a worker, and what it does to TaskReady.
LEMMA SwitchStep ==
    ASSUME ListsInv, Sorted(TaskReady), tick_switch
    PROVE  \E l \in Seq(Task) :
             /\ l # <<>> /\ Sorted(l)
             /\ ThisTask' = Head(l) /\ TaskReady' = Tail(l)
             /\ \/ l = TaskReady /\ (ThisTask \in Task => tc_State'[ThisTask] # "READY")
                \/ ThisTask \in Task /\ l = Enqueue(TaskReady, ThisTask)
<1>0. /\ TypeOK /\ RunInv /\ ReadyInv /\ boot \notin Task
      /\ TaskReady \in Seq(Task) /\ TaskReady # <<>>
  BY KernelAssumption DEF ListsInv, ForbidInv, TypeOK, tick_switch
<1>1. PICK spOk \in BOOLEAN :
        /\ TaskReady' = Tail(core_Switch(ThisTask, spOk).l)
        /\ ThisTask' = Head(core_Switch(ThisTask, spOk).l)
        /\ tc_State' = [tc_State EXCEPT ![ThisTask] = core_Switch(ThisTask, spOk).st,
                                        ![Head(core_Switch(ThisTask, spOk).l)] = "RUN"]
  BY DEF tick_switch
<1>2. CASE ThisTask \in Task /\ tc_State[ThisTask] = "RUN" /\ spOk
  <2>1. core_Switch(ThisTask, spOk).l = Enqueue(TaskReady, ThisTask)
    BY <1>0, <1>2 DEF core_Switch
  <2>2. /\ Enqueue(TaskReady, ThisTask) \in Seq(Task)
        /\ Len(Enqueue(TaskReady, ThisTask)) = Len(TaskReady) + 1
        /\ Sorted(Enqueue(TaskReady, ThisTask))
    BY <1>0, <1>2, EnqueueType, EnqueueSorted
  <2> DEFINE e == Enqueue(TaskReady, ThisTask)
  <2> HIDE DEF e
  <2>3. e # <<>>
    BY <1>0, <2>2 DEF e
  <2>4. e \in Seq(Task) /\ Sorted(e) /\ ThisTask' = Head(e) /\ TaskReady' = Tail(e)
    BY <1>1, <2>1, <2>2 DEF e
  <2> QED  BY <1>2, <2>3, <2>4 DEF e
<1>3. CASE ~ (ThisTask \in Task /\ tc_State[ThisTask] = "RUN" /\ spOk)
  <2>1. /\ core_Switch(ThisTask, spOk).l = TaskReady
        /\ ThisTask \in Task => core_Switch(ThisTask, spOk).st = "WAIT"
    BY <1>0, <1>3 DEF core_Switch, RunInv, TypeOK, AllTask
  <2>2. Head(TaskReady) \in Task
    BY <1>0
  <2>3. ThisTask \in Task => tc_State'[ThisTask] \in {"WAIT", "RUN"}
    BY <1>0, <1>1, <2>1, <2>2 DEF TypeOK, AllTask
  <2> QED  BY <1>0, <1>1, <2>1, <2>3
<1> QED  BY <1>2, <1>3

\* Every other step leaves ThisTask alone or restores the boot task.
LEMMA NoOtherSwitch ==
    ASSUME ListsInv, [Next]_vars, ~tick_switch
    PROVE  \/ ThisTask' = ThisTask
           \/ ThisTask' = boot /\ \A t \in Task : tc_State'[t] = tc_State[t]
<1>1. CASE Boot \/ Tick \/ UNCHANGED vars
  <2>1. TypeOK /\ boot \notin Task
    BY KernelAssumption DEF ListsInv, ForbidInv
  <2> QED
    BY <1>1, <2>1 DEF Boot, spawn, arm, main_exit, Tick, tick_off, tick_init, tick_forbidden,
           tick_shutdown, tick_idle, vars, schedVars, TypeOK, AllTask
<1>2. ASSUME NEW t \in Task, TaskStep(t) PROVE ThisTask' = ThisTask
  BY <1>2 DEF TaskStep, KernelStep, ForbidStore, PermitLoad, PermitStore,
         WaitTest, WaitBlock, WaitSpin, WaitTake, SignalOr, SignalWake, CritFirst,
         CritLast, Call, CallWait, CallSignal, CallCrit, schedVars
<1> QED  BY <1>1, <1>2 DEF Next

\* The inductive invariant of the priority layer.
PriInv == ListsInv /\ Sorted(TaskReady)

\* No step breaks the order of TaskReady.
LEMMA PriInductive == PriInv /\ [Next]_vars => PriInv'
<1> SUFFICES ASSUME PriInv, [Next]_vars PROVE Sorted(TaskReady)'
  BY ListsInductive DEF PriInv
<1>0. ListsInv /\ TypeOK /\ Sorted(TaskReady) /\ TaskReady \in Seq(Task)
  BY DEF PriInv, ListsInv, ForbidInv, TypeOK
<1>1. CASE UNCHANGED TaskReady
  BY <1>0, <1>1 DEF Sorted
<1>2. ASSUME NEW t \in Task, TaskReady' = Enqueue(TaskReady, t) PROVE Sorted(TaskReady)'
  <2>1. Sorted(Enqueue(TaskReady, t))
    BY <1>0, EnqueueSorted
  <2> QED  BY <1>2, <2>1 DEF Sorted
<1>3. CASE tick_switch
  <2>1. Sorted(TaskReady')
    BY <1>0, <1>3, SwitchStep, TailSorted
  <2> QED  BY <2>1 DEF Sorted
<1>4. CASE Boot \/ Tick \/ UNCHANGED vars
  BY <1>1, <1>2, <1>3, <1>4 DEF Boot, spawn, arm, main_exit, Tick, tick_off, tick_init,
         tick_forbidden, tick_shutdown, tick_idle, vars, schedVars
<1>5. ASSUME NEW t \in Task, TaskStep(t) PROVE Sorted(TaskReady)'
  <2>1. target[t] \in Task
    BY <1>0 DEF TypeOK
  <2> QED
    BY <1>1, <1>2, <1>5, <2>1 DEF TaskStep, KernelStep, ForbidStore, PermitLoad, PermitStore,
         WaitTest, WaitBlock, WaitSpin, WaitTake, SignalOr, SignalWake, CritFirst,
         CritLast, Call, CallWait, CallSignal, CallCrit, schedVars
<1> QED  BY <1>4, <1>5 DEF Next

\* TaskReady is ordered in every reachable state.
THEOREM PriInvariant == Spec => []PriInv
<1>1. Init => Sorted(TaskReady)
  BY DEF Init, Sorted
<1>2. Init => PriInv
  BY <1>1, InitListsInv DEF PriInv
<1> QED  BY <1>2, PriInductive, PTL DEF Spec

\* The dispatcher is strictly priority driven: a worker gets the CPU only when
\* no ready worker has a higher priority (exec.c, "pri-0 starved").
THEOREM PriorityRespected == Spec => StrictPriority
<1> DEFINE A == \A t \in Task : ThisTask # t /\ ThisTask' = t =>
                   /\ \A i \in 1..Len(TaskReady') : Pri[TaskReady'[i]] <= Pri[t]
                   /\ \A i \in 1..Len(TaskReady') - 1 :
                         Pri[TaskReady'[i]] >= Pri[TaskReady'[i + 1]]
<1>1. PriInv /\ [Next]_vars => A
  <2> SUFFICES ASSUME PriInv, [Next]_vars, NEW t \in Task, ThisTask # t, ThisTask' = t
               PROVE  /\ \A i \in 1..Len(TaskReady') : Pri[TaskReady'[i]] <= Pri[t]
                      /\ \A i \in 1..Len(TaskReady') - 1 :
                            Pri[TaskReady'[i]] >= Pri[TaskReady'[i + 1]]
    OBVIOUS
  <2>1. tick_switch
    BY NoOtherSwitch, KernelAssumption DEF PriInv
  <2>2. PICK l \in Seq(Task) : l # <<>> /\ Sorted(l) /\ t = Head(l) /\ TaskReady' = Tail(l)
    BY <2>1, SwitchStep DEF PriInv
  <2> QED  BY <2>2, TailSorted
<1>2. PriInv /\ [Next]_vars => [A]_vars
  BY <1>1
<1> QED  BY <1>2, PriInvariant, PTL DEF Spec, StrictPriority

\* Workers of equal priority take turns: a preempted task does not overtake
\* one that was ready before it (exec.c, "pri-1 round-robins fairly").
THEOREM EqualsTakeTurns == Spec => RoundRobin
<1> DEFINE A == \A t, u \in Task :
                   /\ ThisTask = t /\ ThisTask' # t /\ tc_State'[t] = "READY"
                   /\ tc_State[u] = "READY" /\ Pri[u] = Pri[t]
                   => \/ ThisTask' = u
                      \/ \E i, j \in 1..Len(TaskReady') :
                            i < j /\ TaskReady'[i] = u /\ TaskReady'[j] = t
<1>1. PriInv /\ [Next]_vars => A
  <2> SUFFICES ASSUME PriInv, [Next]_vars, NEW t \in Task, NEW u \in Task,
                      ThisTask = t, ThisTask' # t, tc_State'[t] = "READY",
                      tc_State[u] = "READY", Pri[u] = Pri[t]
               PROVE  \/ ThisTask' = u
                      \/ \E i, j \in 1..Len(TaskReady') :
                            i < j /\ TaskReady'[i] = u /\ TaskReady'[j] = t
    OBVIOUS
  <2>0. /\ ListsInv /\ Sorted(TaskReady) /\ TaskReady \in Seq(Task) /\ InList(TaskReady, u)
        /\ tc_State[t] # "READY"
    BY DEF PriInv, ListsInv, ReadyInv, RunInv, ForbidInv, TypeOK
  <2>1. tick_switch
    BY <2>0, NoOtherSwitch
  <2>2. ThisTask' = Head(Enqueue(TaskReady, t)) /\ TaskReady' = Tail(Enqueue(TaskReady, t))
    BY <2>0, <2>1, SwitchStep
  <2>3. PICK i \in 1..Len(TaskReady) : TaskReady[i] = u
    BY <2>0 DEF InList
  <2> DEFINE e == Enqueue(TaskReady, t)
  <2>4. PICK k \in 1..Len(TaskReady) + 1 : i < k /\ e[i] = u /\ e[k] = t
    BY <2>0, <2>3, EnqueueSorted
  <2>5. e \in Seq(Task) /\ Len(e) = Len(TaskReady) + 1
    BY <2>0, EnqueueType
  <2> HIDE DEF e
  <2>6. CASE i = 1
    BY <2>2, <2>4, <2>5, <2>6 DEF e
  <2>7. CASE i # 1
    <3>1. /\ Len(Tail(e)) = Len(TaskReady)
          /\ i - 1 \in 1..Len(TaskReady) /\ k - 1 \in 1..Len(TaskReady) /\ i - 1 < k - 1
          /\ Tail(e)[i - 1] = u /\ Tail(e)[k - 1] = t
      BY <2>0, <2>4, <2>5, <2>7
    <3> QED  BY <2>2, <3>1 DEF e
  <2> QED  BY <2>6, <2>7
<1>2. PriInv /\ [Next]_vars => [A]_vars
  BY <1>1
<1> QED  BY <1>2, PriInvariant, PTL DEF Spec, RoundRobin
=============================================================================
