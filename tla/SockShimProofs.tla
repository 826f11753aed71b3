--------------------------- MODULE SockShimProofs ---------------------------
(***************************************************************************)
(* Proofs about SockPump and SockShim, for any set of sockets, tasks and   *)
(* table size.  First the pump with tasks that call it in any order; then  *)
(* the blocking calls are shown to be such tasks, so what is proved of the *)
(* pump holds under them, and to leave no registration behind.             *)
(***************************************************************************)
EXTENDS SockShim, WellFoundedInduction, TLAPS

-----------------------------------------------------------------------------
(* The invariant of the pump *)

\* The single-owner contract, and an event filter for every direction an
\* entry wants, element by element.
OneOwner ==
  \A i, j \in Slot : g_regs[i].in_use /\ g_regs[j].in_use /\ g_regs[i].fd = g_regs[j].fd => i = j
Wanted(k) ==
  \E i \in Slot : g_regs[i].in_use /\ \E d \in g_regs[i].want : k = [fd |-> g_regs[i].fd, dir |-> d, reg |-> i]
Filtered == \A k : k \in filters <=> Wanted(k)

\* An entry in use belongs to a live PumpSig: what lets ps_create and the
\* wake of a destroyed target ignore the stashes.
OwnersLive ==
  \A i \in Slot : g_regs[i].in_use => /\ g_regs[i].sig \in Sig /\ live[g_regs[i].sig]
                                      /\ g_regs[i].fd \in Fd
\* The joined thread is not in the middle of a wake.
ThreadOff == mpc = "off" => ppc = "off"

PumpInv == TypeOK /\ OneOwner /\ Filtered /\ OwnersLive /\ ThreadOff /\ NoLostWake

LEMMA FiltersByEntry == FiltersMatch <=> OneOwner /\ Filtered
BY DEF FiltersMatch, OneOwner, Filtered, Wanted

\* The first free entry exists as soon as one is free.
LEMMA FirstFree ==
  ASSUME NEW S, S \subseteq Nat, S # {}
  PROVE  Min(S) \in S
<1> DEFINE R == {p \in Nat \X Nat : p[1] < p[2]}
<1>1. IsWellFoundedOn(R, Nat)
  BY NatLessThanWellFounded DEF OpToRel
<1>2. \A x, y \in Nat : y < x => <<y, x>> \in R
  OBVIOUS
<1> HIDE DEF R
<1>3. PICK x \in S : \A y \in S : ~ (<<y, x>> \in R)
  BY <1>1, WFMin
<1>4. ASSUME NEW y \in S
      PROVE  x <= y
  <2>1. x \in Nat /\ y \in Nat
    OBVIOUS
  <2>2. ~ (y < x)
    BY <1>2, <1>3, <2>1
  <2> QED  BY <2>1, <2>2
<1> QED  BY <1>4 DEF Min

\* The entry a registration takes: the task's own one, or a free one of a
\* socket nobody has registered.
LEMMA EntryTaken ==
  ASSUME TypeOK, OneOwner, NEW f \in Fd, NEW s \in Sig, NEW i \in RegFor(f, s)
  PROVE  /\ i \in Slot
         /\ \A j \in Slot : g_regs[j].in_use /\ g_regs[j].fd = f => j = i
         /\ find_reg(f, s) # {} => g_regs[i].in_use /\ g_regs[i].fd = f /\ g_regs[i].sig = s
         /\ find_reg(f, s) = {} => ~g_regs[i].in_use
<1>1. CASE find_reg(f, s) # {}
  BY <1>1 DEF RegFor, find_reg, OneOwner
<1>2. CASE find_reg(f, s) = {}
  <2>1. find_fd_owner(f) = {} /\ free_regs # {} /\ i = Min(free_regs)
    BY <1>2 DEF RegFor
  <2>2. free_regs \subseteq Nat
    BY PumpAssumption DEF free_regs, Slot
  <2>3. i \in free_regs
    BY <2>1, <2>2, FirstFree
  <2> QED  BY <1>2, <2>1, <2>3 DEF find_fd_owner, free_regs
<1> QED  BY <1>1, <1>2

-----------------------------------------------------------------------------
(* The steps that leave the table and the kqueue alone *)

LEMMA SocketChanges ==
  ASSUME PumpInv, NEW f \in Fd, NEW d \in Dir, socket_changes(f, d)
  PROVE  PumpInv'
<1>1. TypeOK'
  BY DEF PumpInv, TypeOK, socket_changes, ctlVars, pumpVars, sigVars, taskVars
<1> QED  BY <1>1 DEF PumpInv, socket_changes, ctlVars, pumpVars, sigVars, taskVars, OneOwner,
           Filtered, Wanted, OwnersLive, ThreadOff, NoLostWake, Stashed

LEMMA SigCreated ==
  ASSUME PumpInv, NEW s \in Sig, ps_create(s)
  PROVE  PumpInv'
<1>1. TypeOK'
  BY DEF PumpInv, TypeOK, ps_create, ctlVars, pumpVars
<1>2. OneOwner' /\ Filtered' /\ ThreadOff' /\ OwnersLive'
  BY DEF PumpInv, TypeOK, ps_create, ctlVars, pumpVars, OneOwner, Filtered, Wanted, OwnersLive, ThreadOff
<1>3. NoLostWake'
  <2>1. Stashed(s) = {}
    BY DEF PumpInv, ps_create, OwnersLive, Stashed
  <2>2. \A t \in Sig : Stashed(t)' = Stashed(t)
    BY DEF ps_create, Stashed
  <2> QED  BY <2>1, <2>2 DEF PumpInv, TypeOK, ps_create, ctlVars, pumpVars, NoLostWake
<1> QED  BY <1>1, <1>2, <1>3 DEF PumpInv

LEMMA SigDestroyed ==
  ASSUME PumpInv, NEW s \in Sig, ps_destroy(s)
  PROVE  PumpInv'
<1>1. TypeOK'
  BY DEF PumpInv, TypeOK, ps_destroy, ctlVars, pumpVars, taskVars
<1>2. OneOwner' /\ Filtered' /\ ThreadOff' /\ NoLostWake'
  BY DEF PumpInv, ps_destroy, ctlVars, pumpVars, taskVars, OneOwner, Filtered, Wanted, ThreadOff,
     NoLostWake, Stashed
<1>3. OwnersLive'
  BY DEF PumpInv, TypeOK, ps_destroy, OwnersLive
<1> QED  BY <1>1, <1>2, <1>3 DEF PumpInv

\* ps_wait: a latched wake becomes the task's own knowledge.
LEMMA Waits ==
  ASSUME PumpInv, NEW s \in Sig,
         ps_wait_call(s) \/ WaitStep(s) \/ ps_wait_eintr(s) \/ ps_wait_timeout(s) \/ register_wake(s)
  PROVE  PumpInv'
<1>1. TypeOK'
  <2>1. ps_wait_call(s) \/ ps_wait_readable(s) \/ ps_wait_eintr(s) \/ ps_wait_timeout(s) \/ register_wake(s)
        => TypeOK'
    BY DEF PumpInv, TypeOK, ps_wait_call, ps_wait_readable, ps_wait_eintr, ps_wait_timeout, register_wake,
       ctlVars, pumpVars, sigVars
  <2>2. ps_wait_check(s) => TypeOK'
    BY DEF PumpInv, TypeOK, ps_wait_check, ctlVars, pumpVars
  <2> QED  BY <2>1, <2>2 DEF WaitStep
<1>2. UNCHANGED <<g_regs, filters, live, mpc, ppc, psig>>
  BY DEF ps_wait_call, WaitStep, ps_wait_check, ps_wait_readable, ps_wait_eintr, ps_wait_timeout,
     register_wake, ctlVars, pumpVars, sigVars
<1>3. OneOwner' /\ Filtered' /\ ThreadOff' /\ OwnersLive'
  BY <1>2 DEF PumpInv, OneOwner, Filtered, Wanted, OwnersLive, ThreadOff
<1>4. NoLostWake'
  <2>1. \A t \in Sig : Stashed(t)' = Stashed(t)
    BY <1>2 DEF Stashed
  <2>2. CASE ps_wait_check(s)
    BY <1>2, <2>1, <2>2 DEF PumpInv, TypeOK, ps_wait_check, NoLostWake
  <2>3. CASE ~ps_wait_check(s)
    <3>1. UNCHANGED <<latched, pipe, owed>>
      BY <2>3 DEF ps_wait_call, WaitStep, ps_wait_readable, ps_wait_eintr, ps_wait_timeout,
         register_wake, sigVars
    <3> QED  BY <1>2, <2>1, <3>1 DEF PumpInv, NoLostWake
  <2> QED  BY <2>2, <2>3
<1> QED  BY <1>1, <1>3, <1>4 DEF PumpInv

-----------------------------------------------------------------------------
(* The registration table *)

LEMMA Registers ==
  ASSUME PumpInv, NEW s \in Sig, NEW f \in Fd, NEW want \in SUBSET Dir, pump_register(s, f, want)
  PROVE  PumpInv'
<1>1. /\ live[s] /\ tpc' = [tpc EXCEPT ![s] = "reg_wake"]
      /\ UNCHANGED <<level, ctl, should_stop, running, mpc, ppc, evs, psig, latched, pipe, live, owed>>
  BY DEF pump_register, ctlVars, pumpVars, sigVars
<1>2. PICK i \in RegFor(f, s) :
         /\ g_regs' = [g_regs EXCEPT ![i] =
               [in_use |-> TRUE, fd |-> f, want |-> want, sig |-> s,
                ready |-> IF find_reg(f, s) = {} THEN {} ELSE @.ready]]
         /\ filters' = apply_filters(f, want, i)
  BY DEF pump_register
<1> DEFINE new == [in_use |-> TRUE, fd |-> f, want |-> want, sig |-> s,
                   ready |-> IF find_reg(f, s) = {} THEN {} ELSE g_regs[i].ready]
<1>3. /\ i \in Slot
      /\ \A j \in Slot : g_regs[j].in_use /\ g_regs[j].fd = f => j = i
      /\ find_reg(f, s) # {} => g_regs[i].in_use /\ g_regs[i].fd = f /\ g_regs[i].sig = s
      /\ find_reg(f, s) = {} => ~g_regs[i].in_use
  BY EntryTaken DEF PumpInv
<1>4. /\ g_regs \in [Slot -> [in_use : BOOLEAN, fd : Fd \cup {NULL}, want : SUBSET Dir,
                            ready : SUBSET Dir, sig : Sig \cup {NULL}]]
      /\ filters \subseteq [fd : Fd, dir : Dir, reg : Slot]
  BY DEF PumpInv, TypeOK
<1>5. /\ new \in [in_use : BOOLEAN, fd : Fd \cup {NULL}, want : SUBSET Dir, ready : SUBSET Dir, sig : Sig \cup {NULL}]
      /\ new.in_use /\ new.fd = f /\ new.want = want /\ new.sig = s
      /\ new.ready # {} => find_reg(f, s) # {} /\ g_regs[i].ready # {}
  BY <1>3, <1>4
<1>6. g_regs' = [g_regs EXCEPT ![i] = new]
  BY <1>2
<1> HIDE DEF new
<1>7. \A j \in Slot : g_regs'[j] = IF j = i THEN new ELSE g_regs[j]
  BY <1>3, <1>4, <1>6
<1>8. filters' = {k \in filters : k.fd # f} \cup {[fd |-> f, dir |-> d, reg |-> i] : d \in want}
  BY <1>2 DEF apply_filters
<1>9. TypeOK'
  <2>1. g_regs' \in [Slot -> [in_use : BOOLEAN, fd : Fd \cup {NULL}, want : SUBSET Dir,
                              ready : SUBSET Dir, sig : Sig \cup {NULL}]]
    BY <1>3, <1>4, <1>5, <1>6
  <2>2. filters' \subseteq [fd : Fd, dir : Dir, reg : Slot]
    BY <1>3, <1>4, <1>8
  <2> QED  BY <1>1, <2>1, <2>2 DEF PumpInv, TypeOK
<1>10. OneOwner'
  BY <1>3, <1>5, <1>7 DEF PumpInv, OneOwner
<1>11. Filtered'
  <2> SUFFICES ASSUME NEW k PROVE k \in filters' <=> Wanted(k)'
    BY DEF Filtered
  <2>1. k \in filters <=> Wanted(k)
    BY DEF PumpInv, Filtered
  <2>2. ASSUME k \in filters' PROVE Wanted(k)'
    <3>1. CASE k \in filters /\ k.fd # f
      <4>1. PICK j \in Slot : g_regs[j].in_use /\ \E d \in g_regs[j].want : k = [fd |-> g_regs[j].fd, dir |-> d, reg |-> j]
        BY <2>1, <3>1 DEF Wanted
      <4>2. g_regs[j].fd # f
        BY <3>1, <4>1
      <4>3. j # i
        BY <1>3, <4>1, <4>2
      <4> QED  BY <1>7, <4>1, <4>3 DEF Wanted
    <3>2. CASE k \in {[fd |-> f, dir |-> d, reg |-> i] : d \in want}
      BY <1>3, <1>5, <1>7, <3>2 DEF Wanted
    <3> QED  BY <1>8, <2>2, <3>1, <3>2
  <2>3. ASSUME Wanted(k)' PROVE k \in filters'
    <3>1. PICK j \in Slot : g_regs'[j].in_use /\ \E d \in g_regs'[j].want : k = [fd |-> g_regs'[j].fd, dir |-> d, reg |-> j]
      BY <2>3 DEF Wanted
    <3>2. CASE j = i
      BY <1>3, <1>5, <1>7, <1>8, <3>1, <3>2
    <3>3. CASE j # i
      <4>1. g_regs[j].in_use /\ \E d \in g_regs[j].want : k = [fd |-> g_regs[j].fd, dir |-> d, reg |-> j]
        BY <1>7, <3>1, <3>3
      <4>2. g_regs[j].fd # f
        BY <1>3, <3>3, <4>1
      <4>3. k \in filters /\ k.fd # f
        BY <2>1, <4>1, <4>2 DEF Wanted
      <4> QED  BY <1>8, <4>3
    <3> QED  BY <3>2, <3>3
  <2> QED  BY <2>2, <2>3
<1>12. OwnersLive' /\ ThreadOff'
  BY <1>1, <1>5, <1>7 DEF PumpInv, OwnersLive, ThreadOff
<1>13. NoLostWake'
  <2>1. \A t \in Sig : Stashed(t)' \subseteq Stashed(t)
    BY <1>3, <1>5, <1>7 DEF Stashed
  <2> QED  BY <1>1, <2>1 DEF PumpInv, NoLostWake
<1> QED  BY <1>9, <1>10, <1>11, <1>12, <1>13 DEF PumpInv

LEMMA Unregisters ==
  ASSUME PumpInv, NEW s \in Sig, NEW f \in Fd, pump_unregister(s, f)
  PROVE  PumpInv' /\ find_reg(f, s)' = {}
<1>1. /\ filters' = IF find_reg(f, s) = {} THEN filters ELSE clear_filters(f)
      /\ g_regs' = [i \in Slot |-> IF i \in find_reg(f, s) THEN Unused ELSE g_regs[i]]
      /\ UNCHANGED <<level, ctl, should_stop, running, mpc, ppc, evs, psig, latched, pipe, live, tpc, owed>>
  BY DEF pump_unregister, ctlVars, pumpVars, sigVars, taskVars
<1>2. /\ g_regs \in [Slot -> [in_use : BOOLEAN, fd : Fd \cup {NULL}, want : SUBSET Dir,
                            ready : SUBSET Dir, sig : Sig \cup {NULL}]]
      /\ filters \subseteq [fd : Fd, dir : Dir, reg : Slot]
  BY DEF PumpInv, TypeOK
<1>3. /\ Unused \in [in_use : BOOLEAN, fd : Fd \cup {NULL}, want : SUBSET Dir, ready : SUBSET Dir, sig : Sig \cup {NULL}]
      /\ ~Unused.in_use
  BY DEF Unused
<1>4. \A j \in Slot : g_regs'[j] = IF j \in find_reg(f, s) THEN Unused ELSE g_regs[j]
  BY <1>1
<1>5. find_reg(f, s)' = {}
  BY <1>3, <1>4 DEF find_reg
<1>6. TypeOK'
  <2>1. g_regs' \in [Slot -> [in_use : BOOLEAN, fd : Fd \cup {NULL}, want : SUBSET Dir,
                              ready : SUBSET Dir, sig : Sig \cup {NULL}]]
    BY <1>1, <1>2, <1>3
  <2>2. filters' \subseteq [fd : Fd, dir : Dir, reg : Slot]
    BY <1>1, <1>2 DEF clear_filters
  <2> QED  BY <1>1, <2>1, <2>2 DEF PumpInv, TypeOK
<1>7. OneOwner' /\ OwnersLive' /\ ThreadOff'
  BY <1>1, <1>3, <1>4 DEF PumpInv, OneOwner, OwnersLive, ThreadOff
<1>8. Filtered'
  <2> SUFFICES ASSUME NEW k PROVE k \in filters' <=> Wanted(k)'
    BY DEF Filtered
  <2>1. k \in filters <=> Wanted(k)
    BY DEF PumpInv, Filtered
  <2>2. CASE find_reg(f, s) = {}
    BY <1>1, <1>4, <2>1, <2>2 DEF Wanted
  <2>3. CASE find_reg(f, s) # {}
    <3>1. PICK i \in Slot : find_reg(f, s) = {i} /\ \A j \in Slot : g_regs[j].in_use /\ g_regs[j].fd = f => j = i
      BY <2>3 DEF PumpInv, OneOwner, find_reg
    <3>2. filters' = {e \in filters : e.fd # f}
      BY <1>1, <2>3 DEF clear_filters
    <3>3. ASSUME k \in filters' PROVE Wanted(k)'
      <4>1. k \in filters /\ k.fd # f
        BY <3>2, <3>3
      <4>2. PICK j \in Slot : g_regs[j].in_use /\ \E d \in g_regs[j].want : k = [fd |-> g_regs[j].fd, dir |-> d, reg |-> j]
        BY <2>1, <4>1 DEF Wanted
      <4>3. j \notin find_reg(f, s)
        BY <4>1, <4>2 DEF find_reg
      <4> QED  BY <1>4, <4>2, <4>3 DEF Wanted
    <3>4. ASSUME Wanted(k)' PROVE k \in filters'
      <4>1. PICK j \in Slot : g_regs'[j].in_use /\ \E d \in g_regs'[j].want : k = [fd |-> g_regs'[j].fd, dir |-> d, reg |-> j]
        BY <3>4 DEF Wanted
      <4>2. j \notin find_reg(f, s) /\ g_regs'[j] = g_regs[j]
        BY <1>3, <1>4, <4>1
      <4>3. g_regs[j].fd # f
        BY <3>1, <4>1, <4>2
      <4>4. k \in filters /\ k.fd # f
        BY <2>1, <4>1, <4>2, <4>3 DEF Wanted
      <4> QED  BY <3>2, <4>4
    <3> QED  BY <3>3, <3>4
  <2> QED  BY <2>2, <2>3
<1>9. NoLostWake'
  <2>1. \A t \in Sig : Stashed(t)' \subseteq Stashed(t)
    BY <1>3, <1>4 DEF Stashed
  <2> QED  BY <1>1, <2>1 DEF PumpInv, NoLostWake
<1> QED  BY <1>5, <1>6, <1>7, <1>8, <1>9 DEF PumpInv

\* The stashes change, the rest of an entry does not.
LEMMA SameEntries ==
  ASSUME PumpInv, UNCHANGED <<filters, live>>,
         \A i \in Slot : /\ g_regs'[i].in_use = g_regs[i].in_use /\ g_regs'[i].fd = g_regs[i].fd
                         /\ g_regs'[i].want = g_regs[i].want /\ g_regs'[i].sig = g_regs[i].sig
  PROVE  OneOwner' /\ Filtered' /\ OwnersLive'
<1>1. OneOwner' /\ OwnersLive'
  BY DEF PumpInv, OneOwner, OwnersLive
<1>2. Filtered'
  <2> SUFFICES ASSUME NEW k PROVE Wanted(k)' <=> Wanted(k)
    BY DEF PumpInv, Filtered
  <2> QED  BY DEF Wanted
<1> QED  BY <1>1, <1>2

LEMMA Drains ==
  ASSUME PumpInv, NEW s \in Sig, NEW max \in 1 .. MAX_REGS, pump_drain(s, max)
  PROVE  PumpInv'
<1> DEFINE taken == {i \in Stashed(s) : Cardinality({j \in Stashed(s) : j < i}) < max}
<1>1. /\ g_regs' = [i \in Slot |-> IF i \in taken THEN [g_regs[i] EXCEPT !.ready = {}] ELSE g_regs[i]]
      /\ owed' = [owed EXCEPT ![s] = @ /\ taken # Stashed(s)]
      /\ UNCHANGED <<filters, level, ctl, should_stop, running, mpc, ppc, evs, psig, latched, pipe, live, tpc>>
  BY DEF pump_drain, ctlVars, pumpVars, sigVars
<1>2. taken \subseteq Stashed(s) /\ taken \subseteq Slot
  BY DEF Stashed
<1> HIDE DEF taken
<1>3. g_regs \in [Slot -> [in_use : BOOLEAN, fd : Fd \cup {NULL}, want : SUBSET Dir,
                           ready : SUBSET Dir, sig : Sig \cup {NULL}]]
  BY DEF PumpInv, TypeOK
<1>4. \A i \in Slot : /\ g_regs'[i].in_use = g_regs[i].in_use /\ g_regs'[i].fd = g_regs[i].fd
                      /\ g_regs'[i].want = g_regs[i].want /\ g_regs'[i].sig = g_regs[i].sig
                      /\ g_regs'[i].ready = IF i \in taken THEN {} ELSE g_regs[i].ready
  BY <1>1, <1>3
<1>5. TypeOK'
  <2>1. g_regs' \in [Slot -> [in_use : BOOLEAN, fd : Fd \cup {NULL}, want : SUBSET Dir,
                              ready : SUBSET Dir, sig : Sig \cup {NULL}]]
    BY <1>1, <1>3
  <2> QED  BY <1>1, <2>1 DEF PumpInv, TypeOK
<1>6. OneOwner' /\ Filtered' /\ OwnersLive'
  BY <1>1, <1>4, SameEntries
<1>7. NoLostWake'
  <2>1. \A t \in Sig : Stashed(t)' \subseteq Stashed(t)
    BY <1>4 DEF Stashed
  <2>2. Stashed(s)' = Stashed(s) \ taken
    BY <1>4 DEF Stashed
  <2>3. \A t \in Sig : owed'[t] = IF t = s THEN owed[s] /\ taken # Stashed(s) ELSE owed[t]
    BY <1>1 DEF PumpInv, TypeOK
  <2> QED  BY <1>1, <2>1, <2>2, <2>3 DEF PumpInv, NoLostWake
<1>8. ThreadOff'
  BY <1>1 DEF PumpInv, ThreadOff
<1> QED  BY <1>5, <1>6, <1>7, <1>8 DEF PumpInv

-----------------------------------------------------------------------------
(* pump_main, and its start and stop *)

LEMMA EventStashed ==
  ASSUME PumpInv, NEW e \in evs, pump_event(e)
  PROVE  PumpInv'
<1>1. /\ ppc = "scan" /\ e \in evs \ {CTL} /\ evs' = evs \ {e}
      /\ UNCHANGED <<filters, level, ctl, should_stop, running, mpc, latched, pipe, live, tpc, owed>>
  BY DEF pump_event, ctlVars, sigVars, taskVars
<1>2. /\ g_regs \in [Slot -> [in_use : BOOLEAN, fd : Fd \cup {NULL}, want : SUBSET Dir,
                              ready : SUBSET Dir, sig : Sig \cup {NULL}]]
      /\ e \in [fd : Fd, dir : Dir, reg : Slot] /\ psig = NULL
  BY <1>1 DEF PumpInv, TypeOK
<1>3. CASE ~Valid(e)
  <2>1. UNCHANGED <<g_regs, psig, ppc>>
    BY <1>3 DEF pump_event
  <2>2. TypeOK'
    BY <1>1, <2>1 DEF PumpInv, TypeOK
  <2>3. OneOwner' /\ Filtered' /\ OwnersLive' /\ ThreadOff' /\ NoLostWake'
    BY <1>1, <2>1 DEF PumpInv, OneOwner, Filtered, Wanted, OwnersLive, ThreadOff, NoLostWake, Stashed
  <2> QED  BY <2>2, <2>3 DEF PumpInv
<1>4. CASE Valid(e)
  <2>1. /\ g_regs' = [g_regs EXCEPT ![e.reg].ready = @ \cup {e.dir}]
        /\ psig' = g_regs[e.reg].sig /\ ppc' = "wake"
    BY <1>4 DEF pump_event
  <2>2. psig' \in Sig /\ e.reg \in Slot /\ e.dir \in Dir
    BY <1>2, <1>4, <2>1 DEF Valid, PumpInv, OwnersLive
  <2>3. \A i \in Slot : /\ g_regs'[i].in_use = g_regs[i].in_use /\ g_regs'[i].fd = g_regs[i].fd
                        /\ g_regs'[i].want = g_regs[i].want /\ g_regs'[i].sig = g_regs[i].sig
                        /\ i # e.reg => g_regs'[i].ready = g_regs[i].ready
    BY <1>2, <2>1, <2>2
  <2>4. TypeOK'
    <3>1. g_regs' \in [Slot -> [in_use : BOOLEAN, fd : Fd \cup {NULL}, want : SUBSET Dir,
                                ready : SUBSET Dir, sig : Sig \cup {NULL}]]
      BY <1>2, <2>1, <2>2
    <3> QED  BY <1>1, <2>1, <2>2, <3>1, PumpAssumption DEF PumpInv, TypeOK
  <2>5. OneOwner' /\ Filtered' /\ OwnersLive'
    BY <1>1, <2>3, SameEntries
  <2>6. NoLostWake'
    <3>1. \A t \in Sig : t # psig' => Stashed(t)' = Stashed(t)
      BY <2>1, <2>3 DEF Stashed
    <3> QED  BY <1>1, <1>2, <2>1, <2>2, <3>1, PumpAssumption DEF PumpInv, NoLostWake
  <2>7. ThreadOff'
    BY <1>1 DEF PumpInv, ThreadOff
  <2> QED  BY <2>4, <2>5, <2>6, <2>7 DEF PumpInv
<1> QED  BY <1>3, <1>4

LEMMA TargetWoken ==
  ASSUME PumpInv, pump_wake
  PROVE  PumpInv'
<1>1. /\ ppc = "wake" /\ psig' = NULL /\ ppc' = "scan"
      /\ IF live[psig] THEN ps_wake(psig) ELSE UNCHANGED <<latched, pipe>>
      /\ UNCHANGED <<g_regs, filters, level, ctl, should_stop, running, mpc, evs, live, tpc, owed>>
  BY DEF pump_wake, ctlVars, taskVars
<1>2. psig \in Sig
  BY <1>1 DEF PumpInv, TypeOK
<1>3. latched \in [Sig -> BOOLEAN] /\ pipe \in [Sig -> BOOLEAN]
  BY DEF PumpInv, TypeOK
<1>4. \A t \in Sig : /\ t # psig => latched'[t] = latched[t] /\ pipe'[t] = pipe[t]
                     /\ latched[t] => latched'[t] /\ pipe'[t] = pipe[t]
                     /\ live[psig] => latched'[psig] = TRUE
                     /\ live[psig] => pipe'[psig] = IF latched[psig] THEN pipe[psig] ELSE TRUE
                     /\ ~live[psig] => latched' = latched /\ pipe' = pipe
  BY <1>1, <1>2, <1>3 DEF ps_wake
<1>5. TypeOK'
  <2>1. latched' \in [Sig -> BOOLEAN] /\ pipe' \in [Sig -> BOOLEAN]
    BY <1>1, <1>2, <1>3 DEF ps_wake
  <2> QED  BY <1>1, <2>1, PumpAssumption DEF PumpInv, TypeOK
<1>6. OneOwner' /\ Filtered' /\ OwnersLive' /\ ThreadOff'
  BY <1>1 DEF PumpInv, OneOwner, Filtered, Wanted, OwnersLive, ThreadOff
<1>7. NoLostWake'
  <2>1. \A t \in Sig : Stashed(t)' = Stashed(t)
    BY <1>1 DEF Stashed
  <2>2. ~live[psig] => Stashed(psig) = {}
    BY DEF PumpInv, OwnersLive, Stashed
  <2> SUFFICES ASSUME NEW t \in Sig
               PROVE  /\ Stashed(t)' # {} => latched'[t] \/ psig' = t \/ owed'[t]
                      /\ latched'[t] => pipe'[t]
    BY DEF NoLostWake
  <2>3. (Stashed(t) # {} => latched[t] \/ psig = t \/ owed[t]) /\ (latched[t] => pipe[t])
    BY DEF PumpInv, NoLostWake
  <2>4. CASE t = psig
    BY <1>1, <1>4, <2>1, <2>2, <2>3, <2>4
  <2>5. CASE t # psig
    BY <1>1, <1>4, <2>1, <2>3, <2>5
  <2> QED  BY <2>4, <2>5
<1> QED  BY <1>5, <1>6, <1>7 DEF PumpInv

LEMMA PumpLoops ==
  ASSUME PumpInv, pump_kevent \/ pump_check \/ pump_control \/ pump_next
  PROVE  PumpInv'
<1>1. UNCHANGED <<g_regs, filters, level, should_stop, running, mpc, psig, latched, pipe, live, tpc, owed>>
  BY DEF pump_kevent, pump_check, pump_control, pump_next, ctlVars, sigVars, taskVars
<1>2. TypeOK'
  <2>1. CASE pump_kevent
    <3>1. Active \subseteq [fd : Fd, dir : Dir, reg : Slot] \cup {CTL}
      BY DEF PumpInv, TypeOK, Active
    <3> QED  BY <1>1, <2>1, <3>1 DEF PumpInv, TypeOK, pump_kevent, ctlVars
  <2>2. CASE pump_check \/ pump_control \/ pump_next
    BY <1>1, <2>2 DEF PumpInv, TypeOK, pump_check, pump_control, pump_next, ctlVars
  <2> QED  BY <2>1, <2>2
<1>3. ThreadOff'
  BY <1>1 DEF PumpInv, ThreadOff, pump_kevent, pump_check, pump_control, pump_next
<1>4. OneOwner' /\ Filtered' /\ OwnersLive' /\ NoLostWake'
  BY <1>1 DEF PumpInv, OneOwner, Filtered, Wanted, OwnersLive, NoLostWake, Stashed
<1> QED  BY <1>2, <1>3, <1>4 DEF PumpInv

LEMMA Controls ==
  ASSUME PumpInv, pump_start \/ pump_stop \/ stop_wake
  PROVE  PumpInv'
<1>1. UNCHANGED <<g_regs, filters, level, evs, psig, latched, pipe, live, tpc, owed>>
  BY DEF pump_start, pump_stop, stop_wake, pumpVars, sigVars, taskVars
<1>2. TypeOK' /\ ThreadOff'
  <2>1. CASE pump_start
    BY <1>1, <2>1 DEF PumpInv, TypeOK, ThreadOff, pump_start
  <2>2. CASE pump_stop \/ stop_wake
    BY <1>1, <2>2 DEF PumpInv, TypeOK, ThreadOff, pump_stop, stop_wake, pumpVars
  <2> QED  BY <2>1, <2>2
<1>3. OneOwner' /\ Filtered' /\ OwnersLive' /\ NoLostWake'
  BY <1>1 DEF PumpInv, OneOwner, Filtered, Wanted, OwnersLive, NoLostWake, Stashed
<1> QED  BY <1>2, <1>3 DEF PumpInv

\* pump_stop clears the table and closes the kqueue together.
LEMMA Joined ==
  ASSUME PumpInv, stop_join
  PROVE  PumpInv' /\ \A f \in Fd, s \in Sig : find_reg(f, s)' = {}
<1>1. /\ ppc = "off" /\ running' = FALSE /\ ctl' = FALSE /\ filters' = {} /\ mpc' = "off"
      /\ g_regs' = [i \in Slot |-> Unused]
      /\ UNCHANGED <<level, should_stop, ppc, evs, psig, latched, pipe, live, tpc, owed>>
  BY DEF stop_join, pumpVars, sigVars, taskVars
<1>2. /\ Unused \in [in_use : BOOLEAN, fd : Fd \cup {NULL}, want : SUBSET Dir, ready : SUBSET Dir, sig : Sig \cup {NULL}]
      /\ ~Unused.in_use
  BY DEF Unused
<1>3. \A i \in Slot : ~g_regs'[i].in_use
  BY <1>1, <1>2
<1>4. TypeOK'
  BY <1>1, <1>2 DEF PumpInv, TypeOK
<1>5. OneOwner' /\ Filtered' /\ OwnersLive' /\ ThreadOff'
  BY <1>1, <1>3 DEF OneOwner, Filtered, Wanted, OwnersLive, ThreadOff
<1>6. NoLostWake'
  BY <1>1, <1>3 DEF PumpInv, NoLostWake, Stashed
<1> QED  BY <1>3, <1>4, <1>5, <1>6 DEF PumpInv, find_reg

-----------------------------------------------------------------------------
(* The pump, whatever the tasks call *)

LEMMA PumpStarts ==
  ASSUME Init
  PROVE  PumpInv
<1>1. /\ Unused \in [in_use : BOOLEAN, fd : Fd \cup {NULL}, want : SUBSET Dir, ready : SUBSET Dir, sig : Sig \cup {NULL}]
      /\ ~Unused.in_use
  BY DEF Unused
<1>2. TypeOK
  BY <1>1 DEF Init, TypeOK
<1>3. \A i \in Slot : ~g_regs[i].in_use
  BY <1>1 DEF Init
<1>4. OneOwner /\ Filtered /\ OwnersLive /\ ThreadOff /\ NoLostWake
  BY <1>3 DEF Init, OneOwner, Filtered, Wanted, OwnersLive, ThreadOff, NoLostWake, Stashed
<1> QED  BY <1>2, <1>4 DEF PumpInv

LEMMA PumpSteps ==
  ASSUME PumpInv, [Next]_vars
  PROVE  PumpInv'
<1>1. ASSUME NEW f \in Fd, NEW d \in Dir, socket_changes(f, d) PROVE PumpInv'
  BY <1>1, SocketChanges
<1>2. ASSUME NEW s \in Sig, TaskStep(s) PROVE PumpInv'
  <2>1. CASE TaskCall(s)
    <3>1. ASSUME NEW f \in Fd, NEW want \in SUBSET Dir, pump_register(s, f, want) PROVE PumpInv'
      BY <3>1, Registers
    <3>2. ASSUME NEW f \in Fd, pump_unregister(s, f) PROVE PumpInv'
      BY <3>2, Unregisters
    <3>3. ASSUME NEW max \in 1 .. MAX_REGS, pump_drain(s, max) PROVE PumpInv'
      BY <3>3, Drains
    <3>4. ASSUME NEW f \in Fd, pump_register_fails(s, f) PROVE UNCHANGED vars
      BY <3>4 DEF pump_register_fails
    <3>5. CASE UNCHANGED vars
      BY <3>5 DEF vars, ctlVars, pumpVars, sigVars, taskVars, PumpInv, TypeOK, OneOwner, Filtered, Wanted,
         OwnersLive, ThreadOff, NoLostWake, Stashed
    <3> QED  BY <2>1, <3>1, <3>2, <3>3, <3>4, <3>5, SigCreated, SigDestroyed, Waits DEF TaskCall
  <2> QED  BY <1>2, <2>1, Waits DEF TaskStep
<1>3. ASSUME PumpStep PROVE PumpInv'
  <2>1. ASSUME NEW e \in evs, pump_event(e) PROVE PumpInv'
    BY <2>1, EventStashed
  <2> QED  BY <1>3, <2>1, TargetWoken, PumpLoops DEF PumpStep
<1>4. CASE UNCHANGED vars
  BY <1>4 DEF vars, ctlVars, pumpVars, sigVars, taskVars, PumpInv, TypeOK, OneOwner, Filtered, Wanted,
     OwnersLive, ThreadOff, NoLostWake, Stashed
<1> QED  BY <1>1, <1>2, <1>3, <1>4, Controls, Joined DEF Next, StopStep

LEMMA PumpInductive == Spec => []PumpInv
<1>1. Init => PumpInv
  BY PumpStarts
<1>2. PumpInv /\ [Next]_vars => PumpInv'
  BY PumpSteps
<1> QED  BY <1>1, <1>2, PTL DEF Spec

\* The pump's registration table, event batch and threads keep their type: the
\* Reg* of an event always points into the table.
THEOREM PumpTypeCorrect == Spec => []TypeOK
<1>1. PumpInv => TypeOK
  BY DEF PumpInv
<1> QED  BY <1>1, PumpInductive, PTL

\* pump_register, pump_unregister and pump_stop keep one owner per socket and
\* the kqueue's filters equal to what the table asks for.
THEOREM SingleOwner == Spec => []FiltersMatch
<1>1. PumpInv => FiltersMatch
  BY FiltersByEntry DEF PumpInv
<1> QED  BY <1>1, PumpInductive, PTL

\* What pump_main stashes is announced: ps_wait cannot sleep through it.
THEOREM WakeNotLost == Spec => []NoLostWake
<1>1. PumpInv => NoLostWake
  BY DEF PumpInv
<1> QED  BY <1>1, PumpInductive, PTL

-----------------------------------------------------------------------------
(* The blocking calls *)

HsPlaces == {"out", "try", "register", "deadline", "waiting", "unregister", "finish", "timed_out",
             "ok", "ETIMEDOUT"}

\* A call is only running while the pump is; where its socket must not be
\* registered: hs_recv and hs_send before a second try, every call at its end.
ShimInv ==
  /\ PumpInv
  /\ hpc \in [Sig -> HsPlaces] /\ op \in [Sig -> {"recv", "send", "connect"}]
  /\ hfd \in [Sig -> Fd \cup {NULL}] /\ spent \in [Sig -> Nat]
  /\ \A s \in Sig : hpc[s] # "out" => mpc = "on" /\ hfd[s] \in Fd /\ op[s] \in Calls
  /\ \A s \in Sig :
       \/ hpc[s] = "ETIMEDOUT"
       \/ hpc[s] = "ok" /\ (op[s] = "connect" \/ spent[s] > 0)
       \/ hpc[s] = "try" /\ op[s] # "connect" /\ spent[s] > 0
       => find_reg(hfd[s], s) = {}

\* No socket becomes registered by s.
Keeps(s) == \A f \in Fd : find_reg(f, s)' \subseteq find_reg(f, s)

LEMMA SameTableKeeps ==
  ASSUME NEW s \in Sig, UNCHANGED g_regs
  PROVE  Keeps(s)
BY DEF Keeps, find_reg

\* Only its own pump_register registers a socket for a task.
LEMMA OthersKeep ==
  ASSUME PumpInv, NEW s \in Sig, NEW t \in Sig, TaskStep(t),
         \/ t # s
         \/ \A f \in Fd, want \in SUBSET Dir : ~pump_register(t, f, want)
  PROVE  Keeps(s)
<1>1. ASSUME NEW f \in Fd, NEW want \in SUBSET Dir, pump_register(t, f, want), t # s
      PROVE  Keeps(s)
  <2>1. PICK i \in RegFor(f, t) : g_regs' = [g_regs EXCEPT ![i] =
               [in_use |-> TRUE, fd |-> f, want |-> want, sig |-> t,
                ready |-> IF find_reg(f, t) = {} THEN {} ELSE @.ready]]
    BY <1>1 DEF pump_register
  <2>2. i \in Slot
    BY EntryTaken DEF PumpInv
  <2>3. \A j \in Slot : /\ j # i => g_regs'[j] = g_regs[j]
                        /\ g_regs'[i].sig = t
    BY <2>1, <2>2 DEF PumpInv, TypeOK
  <2> QED  BY <1>1, <2>2, <2>3 DEF Keeps, find_reg
<1>2. ASSUME NEW f \in Fd, pump_unregister(t, f)
      PROVE  Keeps(s)
  <2>1. \A j \in Slot : g_regs'[j] = IF j \in find_reg(f, t) THEN Unused ELSE g_regs[j]
    BY <1>2 DEF pump_unregister
  <2> QED  BY <2>1 DEF Keeps, find_reg, Unused
<1>3. ASSUME NEW max \in 1 .. MAX_REGS, pump_drain(t, max)
      PROVE  Keeps(s)
  <2> DEFINE taken == {i \in Stashed(t) : Cardinality({j \in Stashed(t) : j < i}) < max}
  <2>1. g_regs' = [i \in Slot |-> IF i \in taken THEN [g_regs[i] EXCEPT !.ready = {}] ELSE g_regs[i]]
    BY <1>3 DEF pump_drain
  <2> HIDE DEF taken
  <2>2. \A i \in Slot : g_regs'[i].in_use = g_regs[i].in_use /\ g_regs'[i].fd = g_regs[i].fd
                        /\ g_regs'[i].sig = g_regs[i].sig
    BY <2>1 DEF PumpInv, TypeOK
  <2> QED  BY <2>2 DEF Keeps, find_reg
<1>4. \/ UNCHANGED g_regs
      \/ \E f \in Fd : (\E want \in SUBSET Dir : pump_register(t, f, want)) \/ pump_unregister(t, f)
      \/ \E max \in 1 .. MAX_REGS : pump_drain(t, max)
  BY DEF TaskStep, TaskCall, WaitStep, ps_create, ps_destroy, ps_wait_call, ps_wait_check, ps_wait_readable,
     ps_wait_eintr, ps_wait_timeout, register_wake, pump_register_fails, vars
<1> QED  BY <1>1, <1>2, <1>3, <1>4, SameTableKeeps

LEMMA HostKeeps ==
  ASSUME PumpInv, NEW s \in Sig, PumpStep \/ pump_start \/ pump_stop \/ StopStep
  PROVE  Keeps(s)
<1>1. ASSUME NEW e \in evs, pump_event(e)
      PROVE  Keeps(s)
  <2>1. e \in [fd : Fd, dir : Dir, reg : Slot]
    BY <1>1 DEF pump_event, PumpInv, TypeOK
  <2>2. UNCHANGED g_regs \/ g_regs' = [g_regs EXCEPT ![e.reg].ready = @ \cup {e.dir}]
    BY <1>1 DEF pump_event
  <2>3. \A i \in Slot : g_regs'[i].in_use = g_regs[i].in_use /\ g_regs'[i].fd = g_regs[i].fd
                        /\ g_regs'[i].sig = g_regs[i].sig
    BY <2>1, <2>2 DEF PumpInv, TypeOK
  <2> QED  BY <2>3 DEF Keeps, find_reg
<1>2. UNCHANGED g_regs \/ stop_join \/ \E e \in evs : pump_event(e)
  BY DEF PumpStep, StopStep, pump_kevent, pump_check, pump_control, pump_wake, pump_next, pump_start, pump_stop,
     stop_wake
<1> QED  BY <1>1, <1>2, SameTableKeeps, Joined DEF Keeps

\* A step that leaves the calls alone keeps their invariant, if it registers
\* nothing for a task inside a call and the pump goes on under it.
LEMMA CallsKept ==
  ASSUME ShimInv, PumpInv', UNCHANGED shimVars,
         \A s \in Sig : hpc[s] # "out" => mpc' = mpc /\ Keeps(s)
  PROVE  ShimInv'
<1>1. ASSUME NEW s \in Sig, hpc[s] # "out"
      PROVE  find_reg(hfd[s], s) = {} => find_reg(hfd[s], s)' = {}
  <2>1. hfd[s] \in Fd /\ hfd' = hfd
    BY <1>1 DEF ShimInv, shimVars
  <2> QED  BY <1>1, <2>1 DEF Keeps, find_reg
<1>2. ASSUME NEW s \in Sig,
             \/ hpc'[s] = "ETIMEDOUT"
             \/ hpc'[s] = "ok" /\ (op'[s] = "connect" \/ spent'[s] > 0)
             \/ hpc'[s] = "try" /\ op'[s] # "connect" /\ spent'[s] > 0
      PROVE  find_reg(hfd[s], s)' = {}
  <2>1. UNCHANGED <<hpc, op, spent>>
    BY DEF shimVars
  <2>2. find_reg(hfd[s], s) = {} /\ hpc[s] # "out"
    BY <1>2, <2>1 DEF ShimInv
  <2> QED  BY <1>1, <2>2
<1>3. UNCHANGED <<hpc, op, hfd, spent>> /\ \A s \in Sig : hpc[s] # "out" => mpc' = mpc
  BY DEF shimVars
<1> QED  BY <1>2, <1>3 DEF ShimInv

\* One task's call goes on: what the others rely on and what it must show.
LEMMA CallGoesOn ==
  ASSUME ShimInv, PumpInv', NEW s \in Sig, NEW l \in HsPlaces, HsGoto(s, l), mpc' = mpc,
         UNCHANGED op, UNCHANGED hfd, spent' \in [Sig -> Nat], hpc[s] # "out", l # "out",
         \A t \in Sig \ {s} : spent'[t] = spent[t] /\ Keeps(t),
         \/ l = "ETIMEDOUT"
         \/ l = "ok" /\ (op[s] = "connect" \/ spent'[s] > 0)
         \/ l = "try" /\ op[s] # "connect" /\ spent'[s] > 0
         => find_reg(hfd[s], s)' = {}
  PROVE  ShimInv'
<1>1. hpc' \in [Sig -> HsPlaces] /\ \A t \in Sig : hpc'[t] = IF t = s THEN l ELSE hpc[t]
  BY DEF HsGoto, ShimInv
<1>2. \A t \in Sig : hpc'[t] # "out" => mpc' = "on" /\ hfd'[t] \in Fd /\ op'[t] \in Calls
  BY <1>1 DEF ShimInv
<1>3. ASSUME NEW t \in Sig,
             \/ hpc'[t] = "ETIMEDOUT"
             \/ hpc'[t] = "ok" /\ (op'[t] = "connect" \/ spent'[t] > 0)
             \/ hpc'[t] = "try" /\ op'[t] # "connect" /\ spent'[t] > 0
      PROVE  find_reg(hfd[t], t)' = {}
  <2>1. CASE t = s
    BY <1>1, <1>3, <2>1 DEF find_reg
  <2>2. CASE t # s
    <3>1. hfd[t] \in Fd /\ find_reg(hfd[t], t) = {}
      BY <1>1, <1>3, <2>2 DEF ShimInv
    <3> QED  BY <2>2, <3>1 DEF Keeps, find_reg
  <2> QED  BY <2>1, <2>2
<1> QED  BY <1>1, <1>2, <1>3 DEF ShimInv

\* The steps of the calls themselves.
LEMMA CallSteps ==
  ASSUME ShimInv, NEW s \in Sig, HsStep(s) \/ \E o \in Calls, f \in Fd : hs_call(s, o, f)
  PROVE  ShimInv' /\ [Next]_vars
<1>1. PumpInv /\ (UNCHANGED vars => PumpInv') /\ ([Next]_vars => PumpInv')
  <2>1. UNCHANGED vars => [Next]_vars
    OBVIOUS
  <2> QED  BY <2>1, PumpSteps DEF ShimInv
<1>2. /\ hpc \in [Sig -> HsPlaces] /\ op \in [Sig -> {"recv", "send", "connect"}]
      /\ hfd \in [Sig -> Fd \cup {NULL}] /\ spent \in [Sig -> Nat]
      /\ hpc[s] # "out" => mpc = "on" /\ hfd[s] \in Fd /\ op[s] \in Calls
  BY DEF ShimInv
<1>3. UNCHANGED vars => /\ mpc' = mpc /\ \A t \in Sig : Keeps(t)
                        /\ find_reg(hfd[s], s) = {} /\ hfd' = hfd => find_reg(hfd[s], s)' = {}
  BY SameTableKeeps DEF vars, ctlVars, find_reg
<1>4. ASSUME TaskStep(s), mpc' = mpc PROVE [Next]_vars /\ \A t \in Sig \ {s} : Keeps(t)
  BY <1>1, <1>4, OthersKeep DEF Next
<1>5. ASSUME NEW o \in Calls, NEW f \in Fd, hs_call(s, o, f) PROVE ShimInv' /\ [Next]_vars
  <2>1. /\ hpc[s] = "out" /\ mpc = "on" /\ op' = [op EXCEPT ![s] = o] /\ hfd' = [hfd EXCEPT ![s] = f]
        /\ spent' = [spent EXCEPT ![s] = 0] /\ UNCHANGED vars
        /\ hpc' = [hpc EXCEPT ![s] = IF o = "connect" THEN "register" ELSE "try"]
    BY <1>5 DEF hs_call, HsAt, HsGoto
  <2>2. o \in {"recv", "send", "connect"}
    BY DEF Calls
  <2>3. \A t \in Sig : t # s => hpc'[t] = hpc[t] /\ op'[t] = op[t] /\ hfd'[t] = hfd[t] /\ spent'[t] = spent[t]
    BY <1>2, <2>1
  <2>4. hpc'[s] \in {"register", "try"} /\ op'[s] = o /\ hfd'[s] = f /\ spent'[s] = 0
    BY <1>2, <2>1
  <2>5. /\ hpc' \in [Sig -> HsPlaces] /\ op' \in [Sig -> {"recv", "send", "connect"}]
        /\ hfd' \in [Sig -> Fd \cup {NULL}] /\ spent' \in [Sig -> Nat]
    BY <1>2, <2>1, <2>2 DEF HsPlaces
  <2>6. UNCHANGED <<g_regs, mpc>>
    BY <2>1 DEF vars, ctlVars
  <2>7. \A t \in Sig : hpc'[t] # "out" => mpc' = "on" /\ hfd'[t] \in Fd /\ op'[t] \in Calls
    BY <2>1, <2>3, <2>4, <2>6 DEF ShimInv
  <2>8. ASSUME NEW t \in Sig,
               \/ hpc'[t] = "ETIMEDOUT"
               \/ hpc'[t] = "ok" /\ (op'[t] = "connect" \/ spent'[t] > 0)
               \/ hpc'[t] = "try" /\ op'[t] # "connect" /\ spent'[t] > 0
        PROVE  find_reg(hfd[t], t)' = {}
    <3>1. t # s
      BY <2>4, <2>8
    <3>2. find_reg(hfd[t], t) = {}
      BY <2>3, <2>8, <3>1 DEF ShimInv
    <3> QED  BY <2>3, <2>6, <3>1, <3>2 DEF find_reg
  <2> QED  BY <1>1, <2>1, <2>5, <2>7, <2>8 DEF ShimInv
<1>6. CASE hs_try(s)
  <2>1. /\ hpc[s] = "try" /\ UNCHANGED <<vars, op, hfd, spent>>
        /\ \E l \in {"ok", "finish", "deadline", "register"} :
             HsGoto(s, l) /\ (l = "ok" => op[s] # "connect")
    BY <1>6 DEF hs_try, HsAt
  <2>2. PICK l \in {"ok", "finish", "deadline", "register"} : HsGoto(s, l) /\ (l = "ok" => op[s] # "connect")
    BY <2>1
  <2>3. l = "ok" /\ spent'[s] > 0 => find_reg(hfd[s], s)' = {}
    <3>1. op[s] # "connect" /\ spent[s] > 0 => find_reg(hfd[s], s) = {}
      BY <2>1 DEF ShimInv
    <3> QED  BY <1>3, <2>1, <2>2, <3>1
  <2>4. l \in HsPlaces
    BY DEF HsPlaces
  <2>5. ShimInv'
    BY <1>1, <1>2, <1>3, <2>1, <2>2, <2>3, <2>4, CallGoesOn
  <2> QED  BY <2>1, <2>5
<1>7. CASE hs_register(s)
  <2> DEFINE l == IF op[s] = "connect" THEN "try" ELSE "deadline"
  <2>1. /\ hpc[s] = "register" /\ HsGoto(s, l) /\ UNCHANGED <<op, hfd, spent>>
        /\ pump_register(s, hfd[s], {Wants(op[s])}) \/ pump_register_fails(s, hfd[s])
    BY <1>7 DEF hs_register, HsAt
  <2>2. hfd[s] \in Fd /\ Wants(op[s]) \in Dir /\ mpc = "on"
    BY <1>2, <2>1 DEF Calls
  <2>3. TaskStep(s) /\ mpc' = mpc
    <3>1. {Wants(op[s])} \in SUBSET Dir
      BY <2>2
    <3>2. TaskCall(s)
      BY <2>1, <2>2, <3>1 DEF TaskCall
    <3>3. mpc' = mpc
      BY <2>1 DEF pump_register, pump_register_fails, vars, ctlVars
    <3> QED  BY <3>2, <3>3 DEF TaskStep
  <2>4. l \in HsPlaces /\ l # "out" /\ (l = "try" => op[s] = "connect") /\ l \notin {"ok", "ETIMEDOUT"}
    BY DEF HsPlaces
  <2> HIDE DEF l
  <2>5. ShimInv'
    BY <1>1, <1>2, <1>4, <2>1, <2>3, <2>4, CallGoesOn
  <2> QED  BY <1>4, <2>3, <2>5
<1>8. CASE hs_deadline(s)
  <2>1. /\ hpc[s] = "deadline" /\ UNCHANGED <<op, hfd, spent>>
        /\ (HsGoto(s, "timed_out") /\ UNCHANGED vars) \/ (HsGoto(s, "waiting") /\ ps_wait_call(s))
    BY <1>8 DEF hs_deadline, HsAt
  <2>2. mpc = "on" /\ (ps_wait_call(s) => mpc' = mpc /\ TaskStep(s))
    BY <1>2, <2>1 DEF ps_wait_call, ctlVars, TaskStep, TaskCall
  <2>3. {"timed_out", "waiting"} \subseteq HsPlaces
    BY DEF HsPlaces
  <2>4. CASE HsGoto(s, "timed_out") /\ UNCHANGED vars
    BY <1>1, <1>2, <1>3, <2>1, <2>3, <2>4, CallGoesOn
  <2>5. CASE HsGoto(s, "waiting") /\ ps_wait_call(s)
    BY <1>1, <1>2, <1>4, <2>1, <2>2, <2>3, <2>5, CallGoesOn
  <2> QED  BY <2>1, <2>4, <2>5
<1>9. CASE hs_slice(s)
  <2>1. hpc[s] = "waiting" /\ ps_wait_timeout(s) /\ UNCHANGED shimVars
    BY <1>9 DEF hs_slice
  <2>2. UNCHANGED <<g_regs, mpc>> /\ TaskStep(s)
    BY <2>1 DEF ps_wait_timeout, ctlVars, TaskStep
  <2> QED  BY <1>1, <1>4, <2>1, <2>2, SameTableKeeps, CallsKept
<1>10. CASE hs_spent(s)
  <2> DEFINE l == IF op[s] = "connect" THEN "try" ELSE "unregister"
  <2>1. /\ hpc[s] = "waiting" /\ HsGoto(s, l) /\ UNCHANGED <<vars, op, hfd>>
        /\ spent' = [spent EXCEPT ![s] = @ + 1]
    BY <1>10 DEF hs_spent, HsAt
  <2>2. l \in HsPlaces /\ l # "out" /\ (l = "try" => op[s] = "connect") /\ l \notin {"ok", "ETIMEDOUT"}
    BY DEF HsPlaces
  <2>3. spent' \in [Sig -> Nat] /\ \A t \in Sig \ {s} : spent'[t] = spent[t]
    BY <1>2, <2>1
  <2> HIDE DEF l
  <2>4. ShimInv'
    BY <1>1, <1>2, <1>3, <2>1, <2>2, <2>3, CallGoesOn
  <2> QED  BY <2>1, <2>4
<1>11. CASE hs_unregister(s)
  <2>1. /\ hpc[s] \in {"unregister", "finish", "timed_out"} /\ pump_unregister(s, hfd[s])
        /\ UNCHANGED <<op, hfd, spent>>
        /\ \E l \in {"try", "ok", "ETIMEDOUT"} : HsGoto(s, l)
    BY <1>11 DEF hs_unregister
  <2>2. hfd[s] \in Fd /\ mpc = "on"
    BY <1>2, <2>1
  <2>3. TaskStep(s) /\ mpc' = mpc
    BY <2>1, <2>2 DEF TaskStep, TaskCall, pump_unregister, ctlVars
  <2>4. find_reg(hfd[s], s)' = {}
    <3>1. \A f \in Fd : pump_unregister(s, f) => find_reg(f, s)' = {}
      BY <1>1, Unregisters
    <3> QED  BY <2>1, <2>2, <3>1 DEF find_reg
  <2>5. {"try", "ok", "ETIMEDOUT"} \subseteq HsPlaces
    BY DEF HsPlaces
  <2>6. ShimInv'
    BY <1>1, <1>2, <1>4, <2>1, <2>3, <2>4, <2>5, CallGoesOn
  <2> QED  BY <1>4, <2>3, <2>6
<1>12. CASE hs_return(s)
  <2>1. /\ hpc' = [hpc EXCEPT ![s] = "out"] /\ hfd' = [hfd EXCEPT ![s] = NULL]
        /\ spent' = [spent EXCEPT ![s] = 0] /\ UNCHANGED <<vars, op>>
    BY <1>12 DEF hs_return, HsGoto
  <2>2. \A t \in Sig : t # s => hpc'[t] = hpc[t] /\ op'[t] = op[t] /\ hfd'[t] = hfd[t] /\ spent'[t] = spent[t]
    BY <1>2, <2>1
  <2>3. hpc'[s] = "out"
    BY <1>2, <2>1
  <2>4. /\ hpc' \in [Sig -> HsPlaces] /\ op' \in [Sig -> {"recv", "send", "connect"}]
        /\ hfd' \in [Sig -> Fd \cup {NULL}] /\ spent' \in [Sig -> Nat]
    BY <1>2, <2>1 DEF HsPlaces
  <2>5. UNCHANGED <<g_regs, mpc>>
    BY <2>1 DEF vars, ctlVars
  <2>6. \A t \in Sig : hpc'[t] # "out" => mpc' = "on" /\ hfd'[t] \in Fd /\ op'[t] \in Calls
    BY <2>2, <2>3, <2>5, <2>1 DEF ShimInv
  <2>7. ASSUME NEW t \in Sig,
               \/ hpc'[t] = "ETIMEDOUT"
               \/ hpc'[t] = "ok" /\ (op'[t] = "connect" \/ spent'[t] > 0)
               \/ hpc'[t] = "try" /\ op'[t] # "connect" /\ spent'[t] > 0
        PROVE  find_reg(hfd[t], t)' = {}
    <3>1. t # s
      BY <2>3, <2>7
    <3>2. find_reg(hfd[t], t) = {}
      BY <2>2, <2>7, <3>1 DEF ShimInv
    <3> QED  BY <2>2, <2>5, <3>1, <3>2 DEF find_reg
  <2> QED  BY <1>1, <2>1, <2>4, <2>6, <2>7 DEF ShimInv
<1> QED  BY <1>5, <1>6, <1>7, <1>8, <1>9, <1>10, <1>11, <1>12 DEF HsStep

LEMMA ShimSteps ==
  ASSUME ShimInv, [HSNext]_hsVars
  PROVE  ShimInv' /\ [Next]_vars
<1>1. PumpInv /\ ([Next]_vars => PumpInv')
  BY PumpSteps DEF ShimInv
<1>2. \A s \in Sig : hpc[s] # "out" => mpc = "on"
  BY DEF ShimInv
<1>3. ASSUME NEW s \in Sig, hpc[s] = "out", TaskStep(s), UNCHANGED shimVars PROVE ShimInv' /\ [Next]_vars
  <2>1. [Next]_vars
    BY <1>3 DEF Next
  <2>2. mpc' = mpc
    BY <1>3 DEF TaskStep, TaskCall, WaitStep, ps_create, ps_destroy, ps_wait_call, ps_wait_check,
       ps_wait_readable, ps_wait_eintr, ps_wait_timeout, register_wake, pump_register, pump_register_fails,
       pump_unregister, pump_drain, vars, ctlVars
  <2>3. \A t \in Sig : hpc[t] # "out" => Keeps(t)
    BY <1>1, <1>3, OthersKeep
  <2> QED  BY <1>1, <1>3, <2>1, <2>2, <2>3, CallsKept
<1>4. ASSUME NEW s \in Sig, register_wake(s) \/ WaitStep(s) \/ ps_wait_eintr(s), UNCHANGED shimVars
      PROVE  ShimInv' /\ [Next]_vars
  <2>1. UNCHANGED <<g_regs, mpc>>
    BY <1>4 DEF register_wake, WaitStep, ps_wait_check, ps_wait_readable, ps_wait_eintr, ctlVars
  <2>2. [Next]_vars
    BY <1>4 DEF Next, TaskStep
  <2> QED  BY <1>1, <1>4, <2>1, <2>2, SameTableKeeps, CallsKept
<1>5. ASSUME PumpStep, UNCHANGED shimVars PROVE ShimInv' /\ [Next]_vars
  <2>1. [Next]_vars
    BY <1>5 DEF Next
  <2>2. mpc' = mpc
    BY <1>5 DEF PumpStep, pump_kevent, pump_check, pump_control, pump_event, pump_wake, pump_next, ctlVars
  <2>3. \A t \in Sig : Keeps(t)
    BY <1>1, <1>5, HostKeeps
  <2> QED  BY <1>1, <1>5, <2>1, <2>2, <2>3, CallsKept
<1>6. ASSUME NEW f \in Fd, NEW d \in Dir, socket_changes(f, d), UNCHANGED shimVars PROVE ShimInv' /\ [Next]_vars
  <2>1. UNCHANGED <<g_regs, mpc>>
    BY <1>6 DEF socket_changes, ctlVars
  <2>2. [Next]_vars
    BY <1>6 DEF Next
  <2> QED  BY <1>1, <1>6, <2>1, <2>2, SameTableKeeps, CallsKept
<1>7. ASSUME pump_start \/ StopStep \/ ((\A s \in Sig : hpc[s] = "out") /\ pump_stop), UNCHANGED shimVars
      PROVE  ShimInv' /\ [Next]_vars
  <2>1. [Next]_vars
    BY <1>7 DEF Next
  <2>2. \A t \in Sig : hpc[t] = "out"
    BY <1>2, <1>7 DEF pump_start, StopStep, stop_wake, stop_join
  <2> QED  BY <1>1, <1>7, <2>1, <2>2, CallsKept
<1>8. ASSUME UNCHANGED hsVars PROVE ShimInv' /\ [Next]_vars
  <2>1. UNCHANGED vars /\ UNCHANGED shimVars
    BY <1>8 DEF hsVars
  <2>2. UNCHANGED <<g_regs, mpc>>
    BY <2>1 DEF vars, ctlVars
  <2> QED  BY <1>1, <2>1, <2>2, SameTableKeeps, CallsKept
<1> QED  BY <1>3, <1>4, <1>5, <1>6, <1>7, <1>8, CallSteps DEF HSNext

LEMMA ShimInductive == HSSpec => []ShimInv
<1>1. HSInit => ShimInv
  BY PumpStarts DEF HSInit, ShimInv, HsPlaces
<1>2. ShimInv /\ [HSNext]_hsVars => ShimInv'
  BY ShimSteps
<1> QED  BY <1>1, <1>2, PTL DEF HSSpec

\* hs_recv, hs_send and hs_connect use the pump as any task may: a program of
\* blocking calls is one of the behaviours the pump is specified for.
THEOREM CallsUseThePump == HSSpec => Spec
<1>1. HSInit => Init
  BY DEF HSInit
<1>2. ShimInv /\ [HSNext]_hsVars => [Next]_vars
  BY ShimSteps
<1> QED  BY <1>1, <1>2, ShimInductive, PTL DEF HSSpec, Spec

\* So under the blocking calls a socket has one owner and its filters, too.
THEOREM SingleOwnerUnderCalls == HSSpec => []FiltersMatch
BY CallsUseThePump, SingleOwner, PTL

\* And no wake-up is lost under a call that parks in ps_wait.
THEOREM WakeNotLostUnderCalls == HSSpec => []NoLostWake
BY CallsUseThePump, WakeNotLost, PTL

\* hs_recv, hs_send and hs_connect unregister on every way out.
THEOREM CallsLeaveNothing == HSSpec => []NothingLeftRegistered
<1>1. ShimInv => NothingLeftRegistered
  BY DEF ShimInv, NothingLeftRegistered
<1> QED  BY <1>1, ShimInductive, PTL
=============================================================================
