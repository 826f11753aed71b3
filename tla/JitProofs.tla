----------------------------- MODULE JitProofs -----------------------------
(***************************************************************************)
(* Proofs about the JIT.                                                   *)
(*                                                                         *)
(* JitEngine, for any guest programs, cache size, quantum and number of    *)
(* stop requests:                                                          *)
(*                                                                         *)
(*   SlotsInv    what the cache holds and where its patched branches lead  *)
(*   ControlInv  which block translated code is in, and what the           *)
(*               dispatcher will read of it                                *)
(*   LoadedInv   which registers the host holds                            *)
(*                                                                         *)
(* With them, and when a block's index fits where it is recorded, every    *)
(* step of the engine is a step of GuestCpu or none.  BudgetInv, that the  *)
(* budget is a number of blocks, bounds a chain without that condition.    *)
(*                                                                         *)
(* M68kFpu, for FP blocks of any length:                                   *)
(*                                                                         *)
(*   Simulates    translated code and the interpreter, after k instructions *)
(*   WalkFollows  the second walk and the interpreter, after k instructions *)
(*   FpInv        what holds of a block before and after it runs           *)
(***************************************************************************)
EXTENDS JitEngine, M68kFpu, WellFoundedInduction, FiniteSetTheorems, TLAPS


\* The cache: a sequence of blocks, each with as many branches as its
\* terminator has targets, each branch patched to a block of its target that
\* is not an FP block, or not patched.
Blocks == [pc : DOMAIN prog, link : Seq(Nat)]
SlotsOK(slots) ==
  /\ slots \in Seq(Blocks)
  /\ \A k \in DOMAIN slots :
       /\ DOMAIN slots[k].link = DOMAIN chain_targets(slots[k].pc)
       /\ \A j \in DOMAIN slots[k].link :
            LET to == slots[k].link[j]
            IN  to # 0 => /\ to \in DOMAIN slots
                          /\ slots[to].pc = chain_targets(slots[k].pc)[j]
                          /\ ~IsFp(slots[to].pc)
SlotsInv == SlotsOK(eng.slots) /\ Len(eng.slots) <= MaxBlocks

-----------------------------------------------------------------------------
(* The cache *)

\* What chain_targets returns: nothing for an FP block, else the targets of a
\* branch.
LEMMA TargetsOfBranches ==
  ASSUME NEW pc
  PROVE  /\ chain_targets(pc) \in {<<>>, <<prog[pc].t.to>>, <<prog[pc].t.to, prog[pc].t.ret>>}
         /\ chain_targets(pc) # <<>> =>
              /\ ~IsFp(pc)
              /\ \/ prog[pc].t.k = "bra" /\ chain_targets(pc) = <<prog[pc].t.to>>
                 \/ prog[pc].t.k = "bcc" /\ chain_targets(pc) = <<prog[pc].t.to, prog[pc].t.ret>>
BY DEF chain_targets

\* translate_block makes a block none of whose branches is patched.
LEMMA TranslatedBlock ==
  ASSUME NEW pc \in DOMAIN prog
  PROVE  /\ translate_block(pc) \in Blocks
         /\ translate_block(pc).pc = pc
         /\ DOMAIN translate_block(pc).link = DOMAIN chain_targets(pc)
         /\ \A j \in DOMAIN translate_block(pc).link : translate_block(pc).link[j] = 0
<1> DEFINE t == chain_targets(pc)
           l == [k \in DOMAIN t |-> 0]
<1>1. t \in {<<>>, <<prog[pc].t.to>>, <<prog[pc].t.to, prog[pc].t.ret>>}
  BY TargetsOfBranches
<1>2. \E n \in Nat : DOMAIN t = 1 .. n
  BY <1>1
<1> HIDE DEF t
<1>3. l \in Seq(Nat)
  BY <1>2
<1> QED  BY <1>3 DEF translate_block, Blocks, t

\* Caching a block keeps the cache sound, the other blocks where they are, and
\* cache_find then finds it.
LEMMA CachedBlock ==
  ASSUME NEW slots, SlotsOK(slots), NEW pc \in DOMAIN prog
  PROVE  /\ SlotsOK(Cached(slots, pc))
         /\ Slot(Cached(slots, pc), pc) \in DOMAIN Cached(slots, pc)
         /\ Cached(slots, pc)[Slot(Cached(slots, pc), pc)].pc = pc
<1> DEFINE c == Cached(slots, pc)
           b == translate_block(pc)
<1>0. slots \in Seq(Blocks)
  BY DEF SlotsOK
<1>1. CASE cache_find(slots, pc) # {}
  BY <1>1 DEF Cached, Slot, cache_find
<1>2. CASE cache_find(slots, pc) = {}
  <2>1. c = Append(slots, b)
    BY <1>2 DEF Cached
  <2>2. b \in Blocks /\ b.pc = pc /\ DOMAIN b.link = DOMAIN chain_targets(pc) /\ \A j \in DOMAIN b.link : b.link[j] = 0
    BY TranslatedBlock
  <2> HIDE DEF b, c
  <2>3. /\ c \in Seq(Blocks) /\ DOMAIN c = 1 .. Len(slots) + 1 /\ DOMAIN slots = 1 .. Len(slots) /\ Len(slots) \in Nat
        /\ c[Len(slots) + 1] = b /\ \A k \in DOMAIN slots : c[k] = slots[k]
    BY <1>0, <2>1, <2>2
  <2>4. SlotsOK(c)
    <3>1. ASSUME NEW k \in DOMAIN c
          PROVE  /\ DOMAIN c[k].link = DOMAIN chain_targets(c[k].pc)
                 /\ \A j \in DOMAIN c[k].link :
                      c[k].link[j] # 0 => /\ c[k].link[j] \in DOMAIN c
                                          /\ c[c[k].link[j]].pc = chain_targets(c[k].pc)[j]
                                          /\ ~IsFp(c[c[k].link[j]].pc)
      <4>1. CASE k = Len(slots) + 1
        BY <4>1, <2>2, <2>3
      <4>2. CASE k # Len(slots) + 1
        <5>1. k \in DOMAIN slots /\ c[k] = slots[k]
          BY <4>2, <2>3
        <5> QED  BY <5>1, <2>3 DEF SlotsOK
      <4> QED  BY <4>1, <4>2
    <3> QED  BY <3>1, <2>3 DEF SlotsOK
  <2>5. Len(slots) + 1 \in cache_find(c, pc)
    BY <2>2, <2>3 DEF cache_find
  <2>6. Slot(c, pc) \in cache_find(c, pc)
    BY <2>5 DEF Slot
  <2> QED  BY <2>4, <2>6 DEF cache_find, c
<1> QED  BY <1>1, <1>2

\* Patching keeps the cache sound, and changes no block's address.
LEMMA LinkedBlock ==
  ASSUME NEW slots, SlotsOK(slots), NEW k, NEW pc
  PROVE  LET linked == link_if_resolved(slots, k, pc)
         IN  /\ SlotsOK(linked)
             /\ Len(linked) = Len(slots)
<1> DEFINE linked == link_if_resolved(slots, k, pc)
<1>1. CASE k \notin DOMAIN slots \/ cache_find(slots, pc) = {} \/ IsFp(pc)
  BY <1>1 DEF link_if_resolved
<1>2. CASE k \in DOMAIN slots /\ cache_find(slots, pc) # {} /\ ~IsFp(pc)
  <2> DEFINE to == Slot(slots, pc)
             old == slots[k].link
             new == [j \in DOMAIN old |-> IF old[j] = 0 /\ chain_targets(slots[k].pc)[j] = pc THEN to ELSE old[j]]
  <2>1. slots \in Seq(Blocks) /\ DOMAIN slots = 1 .. Len(slots) /\ Len(slots) \in Nat /\ slots[k] \in Blocks
    BY <1>2 DEF SlotsOK
  <2>2. to \in DOMAIN slots /\ slots[to].pc = pc /\ to \in Nat
    <3>1. to \in cache_find(slots, pc)
      BY <1>2 DEF Slot
    <3> QED  BY <3>1, <2>1 DEF cache_find
  <2> HIDE DEF to
  <2>3. old \in Seq(Nat)
    BY <2>1 DEF Blocks
  <2>4. new \in Seq(Nat) /\ DOMAIN new = DOMAIN old
    <3> HIDE DEF old
    <3>1. \E n \in Nat : DOMAIN old = 1 .. n
      BY <2>3
    <3>2. \A j \in DOMAIN old : old[j] \in Nat
      BY <2>3
    <3> QED  BY <3>1, <3>2, <2>2
  <2>5. linked = [slots EXCEPT ![k].link = new]
    BY <1>2 DEF link_if_resolved, to
  <2> HIDE DEF linked, new, old
  <2>6. [slots[k] EXCEPT !.link = new] = [pc |-> slots[k].pc, link |-> new]
    BY <2>1 DEF Blocks
  <2>7. linked = [slots EXCEPT ![k] = [pc |-> slots[k].pc, link |-> new]]
    BY <2>5, <2>6
  <2>8. [pc |-> slots[k].pc, link |-> new] \in Blocks
    BY <2>1, <2>4 DEF Blocks
  <2>9. /\ linked \in Seq(Blocks) /\ Len(linked) = Len(slots) /\ DOMAIN linked = DOMAIN slots
        /\ \A i \in DOMAIN slots : linked[i].pc = slots[i].pc /\ linked[i].link = IF i = k THEN new ELSE slots[i].link
    BY <2>1, <2>7, <2>8, <1>2
  <2>10. ASSUME NEW i \in DOMAIN linked
         PROVE  /\ DOMAIN linked[i].link = DOMAIN chain_targets(linked[i].pc)
                /\ \A j \in DOMAIN linked[i].link :
                     linked[i].link[j] # 0 => /\ linked[i].link[j] \in DOMAIN linked
                                              /\ linked[linked[i].link[j]].pc = chain_targets(linked[i].pc)[j]
                                              /\ ~IsFp(linked[linked[i].link[j]].pc)
    <3>1. CASE i # k
      BY <3>1, <2>9 DEF SlotsOK
    <3>2. CASE i = k
      <4>1. linked[i].link = new /\ linked[i].pc = slots[k].pc
        BY <3>2, <2>9
      <4>2. /\ DOMAIN old = DOMAIN chain_targets(slots[k].pc)
            /\ \A j \in DOMAIN old : old[j] # 0 => /\ old[j] \in DOMAIN slots
                                                   /\ slots[old[j]].pc = chain_targets(slots[k].pc)[j]
                                                   /\ ~IsFp(slots[old[j]].pc)
        BY <1>2 DEF SlotsOK, old
      <4>3. \A j \in DOMAIN new : \/ new[j] = old[j]
                                  \/ new[j] = to /\ chain_targets(slots[k].pc)[j] = pc
        BY DEF new
      <4> QED  BY <4>1, <4>2, <4>3, <2>2, <2>4, <2>9, <1>2
    <3> QED  BY <3>1, <3>2
  <2> QED  BY <2>9, <2>10 DEF SlotsOK, linked
<1> QED  BY <1>1, <1>2
-----------------------------------------------------------------------------
(* The invariant *)

\* A record with these fields.
HasFields(v, names) == DOMAIN v = names /\ v = [x \in names |-> v[x]]
\* The guest's state: all FP registers, and a stack that is a sequence.
IsSeq(q) == q \in Seq({q[i] : i \in DOMAIN q})
StOK(s) ==
  /\ HasFields(s, {"r", "fp", "cc", "s", "stack"})
  /\ s.fp = [n \in G!FloatRegs |-> s.fp[n]]
  /\ IsSeq(s.stack)
ShapesInv ==
  /\ StOK(st)
  /\ HasFields(host, {"r", "fp"})
  /\ HasFields(eng, {"slots", "budget", "yield", "stop", "terminal", "resume"})
  /\ HasFields(run, {"mode", "pc", "at", "t", "base", "out", "late", "stops"})
\* Translated code is in a block of the cache.  When it has returned, the
\* recorded index is that block's, or it parked and the block's address is
\* left.  Every leg of the run starts from the same stack pointer.
ControlInv ==
  /\ run.mode \in {"top", "yielded", "returned"} \cup InHost
  /\ run.mode \in InHost \cup {"returned"} => run.at \in DOMAIN eng.slots
  /\ run.mode = "returned" => /\ eng.yield \in {<<>>, <<Here>>}
                              /\ eng.yield = <<>> => eng.terminal = run.at - 1
  /\ run.mode # "returned" => eng.yield = <<>>
  /\ run.base = 0
  /\ run.mode = "yielded" => eng.resume = <<0>>
\* Up to the body, the host holds the FP registers that the block reads.
LoadedInv ==
  run.mode \in {"load", "store", "body"} =>
    \A n \in G!FloatRegs : n \in prog[Here].fr => host.fp[n] = st.fp[n]
EngineInv == ShapesInv /\ SlotsInv /\ ControlInv /\ LoadedInv

\* What the stack operations do to a sequence.
LEMMA Sequences ==
  ASSUME NEW q, IsSeq(q)
  PROVE  /\ Len(q) \in Nat /\ (Len(q) <= 0 <=> q = <<>>)
         /\ \A x : IsSeq(Append(q, x))
         /\ q # <<>> => IsSeq(G!Front(q))
<1> DEFINE S == {q[i] : i \in DOMAIN q}
<1>1. q \in Seq(S)
  BY DEF IsSeq
<1> HIDE DEF S
<1>2. Len(q) \in Nat /\ (Len(q) <= 0 <=> q = <<>>)
  BY <1>1
<1>3. ASSUME NEW x
      PROVE  IsSeq(Append(q, x))
  <2> DEFINE a == Append(q, x)
  <2>1. a \in Seq(S \cup {x})
    BY <1>1
  <2> HIDE DEF a
  <2>2. IsSeq(a)
    BY <2>1 DEF IsSeq
  <2> QED  BY <2>2 DEF a
<1>4. ASSUME q # <<>>
      PROVE  IsSeq(G!Front(q))
  <2> DEFINE f == G!Front(q)
  <2>1. f \in Seq(S)
    BY <1>1, <1>4 DEF G!Front
  <2> HIDE DEF f
  <2>2. IsSeq(f)
    BY <2>1 DEF IsSeq
  <2> QED  BY <2>2 DEF f
<1> QED  BY <1>2, <1>3, <1>4

\* A call and an exception push, a return pops.
LEMMA Pushed ==
  ASSUME NEW s, StOK(s), NEW x
  PROVE  /\ StOK(sp_push(s, x))
         /\ sp_push(s, x) = [r |-> s.r, fp |-> s.fp, cc |-> s.cc, s |-> s.s, stack |-> Append(s.stack, x)]
<1> DEFINE p == sp_push(s, x)
<1>1. /\ HasFields(p, {"r", "fp", "cc", "s", "stack"})
      /\ p.r = s.r /\ p.fp = s.fp /\ p.cc = s.cc /\ p.s = s.s /\ p.stack = Append(s.stack, x)
  BY DEF StOK, HasFields, sp_push
<1>2. IsSeq(Append(s.stack, x))
  BY Sequences DEF StOK
<1> HIDE DEF p
<1>3. StOK(p)
  BY <1>1, <1>2 DEF StOK
<1>4. p = [r |-> s.r, fp |-> s.fp, cc |-> s.cc, s |-> s.s, stack |-> Append(s.stack, x)]
  BY <1>1 DEF HasFields
<1> QED  BY <1>3, <1>4 DEF p
LEMMA Raised ==
  ASSUME NEW s, StOK(s), NEW x
  PROVE  /\ StOK(raise_exception(s, x))
         /\ raise_exception(s, x) =
              [r |-> s.r, fp |-> s.fp, cc |-> s.cc, s |-> TRUE,
               stack |-> Append(s.stack, [cc |-> s.cc, s |-> s.s, ret |-> x])]
<1> DEFINE f == [cc |-> s.cc, s |-> s.s, ret |-> x]
           e == raise_exception(s, x)
<1>1. e = [sp_push(s, f) EXCEPT !.s = TRUE]
  BY DEF raise_exception
<1> HIDE DEF f, e
<1>2. e = [r |-> s.r, fp |-> s.fp, cc |-> s.cc, s |-> TRUE, stack |-> Append(s.stack, f)]
  <2> DEFINE p == sp_push(s, f)
  <2>1. StOK(p) /\ p = [r |-> s.r, fp |-> s.fp, cc |-> s.cc, s |-> s.s, stack |-> Append(s.stack, f)]
    BY Pushed
  <2>2. e = [p EXCEPT !.s = TRUE]
    BY <1>1
  <2> HIDE DEF p
  <2>3. HasFields(p, {"r", "fp", "cc", "s", "stack"}) /\ p.r = s.r /\ p.fp = s.fp /\ p.cc = s.cc /\ p.stack = Append(s.stack, f)
    BY <2>1 DEF StOK
  <2>4. /\ HasFields(e, {"r", "fp", "cc", "s", "stack"})
        /\ e.r = s.r /\ e.fp = s.fp /\ e.cc = s.cc /\ e.s = TRUE /\ e.stack = Append(s.stack, f)
    BY <2>2, <2>3 DEF HasFields
  <2> QED  BY <2>4 DEF HasFields
<1>3. StOK(e)
  BY <1>2, Sequences DEF StOK, HasFields
<1> QED  BY <1>2, <1>3 DEF e, f
LEMMA Popped ==
  ASSUME NEW s, StOK(s), s.stack # <<>>
  PROVE  /\ StOK([s EXCEPT !.stack = G!Front(@)])
         /\ [s EXCEPT !.stack = G!Front(@)] =
              [r |-> s.r, fp |-> s.fp, cc |-> s.cc, s |-> s.s, stack |-> G!Front(s.stack)]
<1> DEFINE p == [s EXCEPT !.stack = G!Front(@)]
<1>1. /\ HasFields(p, {"r", "fp", "cc", "s", "stack"})
      /\ p.r = s.r /\ p.fp = s.fp /\ p.cc = s.cc /\ p.s = s.s /\ p.stack = G!Front(s.stack)
  BY DEF StOK, HasFields
<1>2. IsSeq(G!Front(s.stack))
  BY Sequences DEF StOK
<1> HIDE DEF p
<1>3. StOK(p)
  BY <1>1, <1>2 DEF StOK
<1>4. p = [r |-> s.r, fp |-> s.fp, cc |-> s.cc, s |-> s.s, stack |-> G!Front(s.stack)]
  BY <1>1 DEF HasFields
<1> QED  BY <1>3, <1>4 DEF p

-----------------------------------------------------------------------------
(* The steps: each keeps the invariant, and is a step of the guest or none *)

GuestStep == [G!GNext]_<<prog, Guest>>

\* A step that leaves the cache a sound one keeps SlotsInv.
LEMMA SlotsSet ==
  ASSUME NEW q, SlotsOK(q), Len(q) <= MaxBlocks, prog' = prog, eng'.slots = q
  PROVE  SlotsInv'
<1>1. \A pc : (IsFp(pc))' = IsFp(pc)
  BY DEF IsFp
<1>2. \A pc : (chain_targets(pc))' = chain_targets(pc)
  BY <1>1 DEF chain_targets
<1>3. Blocks' = Blocks
  BY DEF Blocks
<1>4. (SlotsOK(q))' <=> SlotsOK(q)
  BY <1>1, <1>2, <1>3 DEF SlotsOK
<1> QED  BY <1>4 DEF SlotsInv

\* What the guest looks like when translated code does not hold its registers.
GuestRec(pc, ph, s) ==
  [pc |-> pc, ph |-> ph, r |-> s.r, fp |-> s.fp, cc |-> s.cc, s |-> s.s, stack |-> s.stack, out |-> "run"]
LEMMA GuestInState ==
  ASSUME run.mode \in {"top", "yielded"} \/ (run.mode = "returned" /\ eng.yield = <<>>), run.out = "run"
  PROVE  Guest = GuestRec(Here, IF run.mode = "returned" THEN "term" ELSE "body", st)
BY DEF Guest, InHost, GuestRec

\* A guest is known by its fields.
GuestNames == {"pc", "ph", "r", "fp", "cc", "s", "stack", "out"}
LEMMA GuestByFields ==
  ASSUME NEW v, NEW pc, NEW ph, NEW s
  PROVE  v = GuestRec(pc, ph, s) <=>
           /\ HasFields(v, GuestNames)
           /\ v.pc = pc /\ v.ph = ph /\ v.out = "run"
           /\ v.r = s.r /\ v.fp = s.fp /\ v.cc = s.cc /\ v.s = s.s /\ v.stack = s.stack
<1>1. ASSUME v = GuestRec(pc, ph, s)
      PROVE  /\ HasFields(v, GuestNames)
             /\ v.pc = pc /\ v.ph = ph /\ v.out = "run"
             /\ v.r = s.r /\ v.fp = s.fp /\ v.cc = s.cc /\ v.s = s.s /\ v.stack = s.stack
  BY <1>1 DEF GuestRec, HasFields, GuestNames
<1>2. ASSUME /\ HasFields(v, GuestNames)
             /\ v.pc = pc /\ v.ph = ph /\ v.out = "run"
             /\ v.r = s.r /\ v.fp = s.fp /\ v.cc = s.cc /\ v.s = s.s /\ v.stack = s.stack
      PROVE  v = GuestRec(pc, ph, s)
  BY <1>2 DEF GuestRec, HasFields, GuestNames
<1> QED  BY <1>1, <1>2

\* What GuestCpu's operators do to it.
LEMMA GuestGoes ==
  ASSUME NEW v, NEW pc, NEW ph, NEW s, v = GuestRec(pc, ph, s), NEW to
  PROVE  G!Goto(v, to) = GuestRec(to, "body", s)
<1> DEFINE w == G!Goto(v, to)
<1>1. /\ HasFields(v, GuestNames) /\ v.out = "run"
      /\ v.r = s.r /\ v.fp = s.fp /\ v.cc = s.cc /\ v.s = s.s /\ v.stack = s.stack
  BY GuestByFields
<1>2. /\ HasFields(w, GuestNames) /\ w.pc = to /\ w.ph = "body" /\ w.out = v.out
      /\ w.r = v.r /\ w.fp = v.fp /\ w.cc = v.cc /\ w.s = v.s /\ w.stack = v.stack
  BY <1>1 DEF G!Goto, HasFields, GuestNames
<1> HIDE DEF w
<1>3. w = GuestRec(to, "body", s)
  BY <1>1, <1>2, GuestByFields
<1> QED  BY <1>3 DEF w
LEMMA GuestPushes ==
  ASSUME NEW v, NEW pc, NEW ph, NEW s, v = GuestRec(pc, ph, s), NEW x, StOK(s)
  PROVE  G!Push(v, x) = GuestRec(pc, ph, sp_push(s, x))
<1> DEFINE w == G!Push(v, x)
           p == sp_push(s, x)
<1>1. /\ HasFields(v, GuestNames) /\ v.pc = pc /\ v.ph = ph /\ v.out = "run"
      /\ v.r = s.r /\ v.fp = s.fp /\ v.cc = s.cc /\ v.s = s.s /\ v.stack = s.stack
  BY GuestByFields
<1>2. p = [r |-> s.r, fp |-> s.fp, cc |-> s.cc, s |-> s.s, stack |-> Append(s.stack, x)]
  BY Pushed
<1>3. /\ HasFields(w, GuestNames) /\ w.pc = v.pc /\ w.ph = v.ph /\ w.out = v.out
      /\ w.r = v.r /\ w.fp = v.fp /\ w.cc = v.cc /\ w.s = v.s /\ w.stack = Append(v.stack, x)
  BY <1>1 DEF G!Push, HasFields, GuestNames
<1> HIDE DEF w, p
<1>4. p.r = s.r /\ p.fp = s.fp /\ p.cc = s.cc /\ p.s = s.s /\ p.stack = Append(s.stack, x)
  BY <1>2
<1>5. w = GuestRec(pc, ph, p)
  BY <1>1, <1>3, <1>4, GuestByFields
<1> QED  BY <1>5 DEF w, p
LEMMA GuestRaises ==
  ASSUME NEW v, NEW pc, NEW ph, NEW s, v = GuestRec(pc, ph, s), StOK(s), NEW x, NEW to
  PROVE  G!Goto([G!Push(v, G!Frame(v, x)) EXCEPT !.s = TRUE], to) = GuestRec(to, "body", raise_exception(s, x))
<1> DEFINE f == [cc |-> s.cc, s |-> s.s, ret |-> x]
           e == raise_exception(s, x)
           w == G!Push(v, f)
           t == [w EXCEPT !.s = TRUE]
<1>1. G!Frame(v, x) = f
  BY GuestByFields DEF G!Frame
<1>2. w = GuestRec(pc, ph, sp_push(s, f)) /\ StOK(sp_push(s, f))
  BY GuestPushes, Pushed
<1>3. e = [sp_push(s, f) EXCEPT !.s = TRUE]
  BY DEF raise_exception
<1> HIDE DEF f, e, w
<1> DEFINE p == sp_push(s, f)
<1>4. /\ HasFields(w, GuestNames) /\ w.pc = pc /\ w.ph = ph /\ w.out = "run"
      /\ w.r = p.r /\ w.fp = p.fp /\ w.cc = p.cc /\ w.s = p.s /\ w.stack = p.stack
  BY <1>2, GuestByFields
<1>5. HasFields(p, {"r", "fp", "cc", "s", "stack"}) /\ e = [p EXCEPT !.s = TRUE]
  BY <1>2, <1>3 DEF StOK
<1> HIDE DEF p
<1>6. e.r = p.r /\ e.fp = p.fp /\ e.cc = p.cc /\ e.s = TRUE /\ e.stack = p.stack
  BY <1>5 DEF HasFields
<1>7. /\ HasFields(t, GuestNames) /\ t.pc = w.pc /\ t.ph = w.ph /\ t.out = w.out
      /\ t.r = w.r /\ t.fp = w.fp /\ t.cc = w.cc /\ t.s = TRUE /\ t.stack = w.stack
  BY <1>4 DEF HasFields, GuestNames
<1> HIDE DEF t
<1>8. t = GuestRec(pc, ph, e)
  <2>1. /\ HasFields(t, GuestNames) /\ t.pc = pc /\ t.ph = ph /\ t.out = "run"
        /\ t.r = e.r /\ t.fp = e.fp /\ t.cc = e.cc /\ t.s = e.s /\ t.stack = e.stack
    BY <1>4, <1>6, <1>7
  <2> QED  BY <2>1, GuestByFields
<1>9. G!Goto(t, to) = GuestRec(to, "body", e)
  BY <1>8, GuestGoes
<1> QED  BY <1>1, <1>9 DEF e, w, t

\* A run that ends with a stop, a failure or the last rts leaves everything
\* else as it is.
LEMMA Left ==
  ASSUME EngineInv, run.out = "run", NEW o, run' = Leave(o), UNCHANGED <<prog, st, host, eng>>
  PROVE  EngineInv' /\ Guest' = [Guest EXCEPT !.out = o] /\ Guest.out = "run"
<1>1. /\ HasFields(run', {"mode", "pc", "at", "t", "base", "out", "late", "stops"})
      /\ run'.mode = run.mode /\ run'.pc = run.pc /\ run'.at = run.at /\ run'.base = run.base /\ run'.out = o
  BY DEF Leave, EngineInv, ShapesInv, HasFields
<1>2. Here' = Here
  BY <1>1 DEF Here, InHost
<1>3. ShapesInv'
  BY <1>1 DEF EngineInv, ShapesInv, HasFields, StOK
<1>4. SlotsInv'
  BY SlotsSet DEF EngineInv, SlotsInv
<1>5. ControlInv' /\ LoadedInv'
  BY <1>1, <1>2 DEF EngineInv, ControlInv, LoadedInv, InHost
<1>6. /\ Guest'.pc = Guest.pc /\ Guest'.ph = Guest.ph /\ Guest'.r = Guest.r /\ Guest'.fp = Guest.fp
      /\ Guest'.cc = Guest.cc /\ Guest'.s = Guest.s /\ Guest'.stack = Guest.stack /\ Guest'.out = o
      /\ Guest.out = "run"
  BY <1>1, <1>2 DEF Guest, InHost
<1>7. /\ HasFields(Guest, {"pc", "ph", "r", "fp", "cc", "s", "stack", "out"})
      /\ HasFields(Guest', {"pc", "ph", "r", "fp", "cc", "s", "stack", "out"})
  BY DEF Guest, HasFields
<1>8. Guest' = [Guest EXCEPT !.out = o]
  BY <1>6, <1>7 DEF HasFields
<1> QED  BY <1>3, <1>4, <1>5, <1>6, <1>8 DEF EngineInv

\* The dispatcher's steps between blocks.
LEMMA PollKillStep ==
  ASSUME EngineInv, PollKill
  PROVE  EngineInv' /\ GuestStep
<1>1. /\ run' = [run EXCEPT !.out = "killed", !.late = 0] /\ UNCHANGED <<prog, st, host>>
      /\ eng' = [eng EXCEPT !.stop = FALSE, !.budget = Quantum]
      /\ run.mode = "top" /\ run.out = "run"
  BY DEF PollKill, Leave, In, EngineInv, ShapesInv, HasFields
<1>2. ShapesInv'
  BY <1>1 DEF EngineInv, ShapesInv, HasFields, StOK
<1>3. /\ run'.mode = "top" /\ run'.pc = run.pc /\ run'.base = run.base /\ run'.out = "killed"
      /\ eng'.slots = eng.slots /\ eng'.yield = eng.yield
  BY <1>1 DEF EngineInv, ShapesInv, HasFields
<1>4. SlotsInv'
  BY <1>1, <1>3, SlotsSet DEF EngineInv, SlotsInv
<1>5. ControlInv' /\ LoadedInv'
  BY <1>1, <1>3 DEF EngineInv, ControlInv, LoadedInv
<1>6. Guest' = [Guest EXCEPT !.out = "killed"] /\ Guest.out = "run"
  BY <1>1, <1>3 DEF Guest, Here, InHost
<1> QED  BY <1>1, <1>2, <1>4, <1>5, <1>6 DEF EngineInv, GuestStep, G!GNext, G!GEnd, G!Running
LEMMA OuterEntryStep ==
  ASSUME EngineInv, OuterEntry
  PROVE  EngineInv' /\ GuestStep
<1> DEFINE slots == Cached(eng.slots, run.pc)
           k == Slot(slots, run.pc)
<1>1. /\ run.mode = "top" /\ run.out = "run" /\ run.pc \in DOMAIN prog
      /\ UNCHANGED <<prog, st>>
  BY DEF OuterEntry, In
<1>2. SlotsOK(slots) /\ k \in DOMAIN slots /\ slots[k].pc = run.pc
  BY <1>1, CachedBlock DEF EngineInv, SlotsInv
<1>3. k \in Nat \ {0} /\ Len(slots) \in Nat
  BY <1>2 DEF SlotsOK
<1> HIDE DEF slots, k
<1>4. CASE Len(slots) > MaxBlocks
  <2>1. run' = Leave("error") /\ UNCHANGED <<prog, st, host, eng>>
    BY <1>1, <1>4 DEF OuterEntry, slots, k
  <2> QED  BY <1>1, <2>1, Left DEF GuestStep, G!GNext, G!GEnd, G!Running
<1>5. CASE Len(slots) <= MaxBlocks
  <2>1. /\ eng' = [eng EXCEPT !.slots = slots, !.budget = Quantum, !.terminal = k - 1]
        /\ host' = [r |-> st.r, fp |-> [n \in G!FloatRegs |-> IF n \in prog[run.pc].fr THEN st.fp[n] ELSE host.fp[n]]]
        /\ run' = [run EXCEPT !.mode = "load", !.at = k]
    BY <1>1, <1>3, <1>5, JitEngineAssumption DEF OuterEntry, slots, k
  <2>2. /\ run'.mode = "load" /\ run'.at = k /\ run'.base = run.base /\ run'.out = "run"
        /\ eng'.slots = slots /\ eng'.yield = eng.yield
        /\ host'.r = st.r /\ \A n \in G!FloatRegs : n \in prog[run.pc].fr => host'.fp[n] = st.fp[n]
    BY <1>1, <2>1 DEF EngineInv, ShapesInv, HasFields
  <2>3. Here' = run.pc
    BY <1>2, <2>2 DEF Here, InHost
  <2>4. ShapesInv'
    BY <1>1, <2>1 DEF EngineInv, ShapesInv, HasFields, StOK
  <2>5. SlotsInv'
    BY <1>1, <1>2, <1>5, <2>2, SlotsSet
  <2>6. ControlInv'
    BY <1>1, <1>2, <2>2 DEF EngineInv, ControlInv, InHost
  <2>7. LoadedInv'
    BY <1>1, <2>2, <2>3 DEF LoadedInv
  <2>8. Guest' = Guest
    BY <1>1, <2>2, <2>3 DEF Guest, Here, InHost
  <2> QED  BY <1>1, <2>4, <2>5, <2>6, <2>7, <2>8 DEF EngineInv, GuestStep
<1> QED  BY <1>3, <1>4, <1>5, JitEngineAssumption
LEMMA WildPcStep ==
  ASSUME EngineInv, WildPc
  PROVE  EngineInv' /\ GuestStep
<1>1. run.mode = "top" /\ run.out = "run" /\ run.pc \notin DOMAIN prog /\ UNCHANGED <<prog, host>>
  BY DEF WildPc, In
<1>2. CASE NoRoom
  <2>1. run' = Leave("error") /\ UNCHANGED <<prog, st, host, eng>>
    BY <1>1, <1>2 DEF WildPc, Fails
  <2> QED  BY <1>1, <2>1, Left DEF GuestStep, G!GNext, G!GEnd, G!Running
<1>3. CASE ~NoRoom
  <2> DEFINE s == raise_exception(st, run.pc)
  <2>1. StOK(s) /\ s = [r |-> st.r, fp |-> st.fp, cc |-> st.cc, s |-> TRUE,
                        stack |-> Append(st.stack, [cc |-> st.cc, s |-> st.s, ret |-> run.pc])]
    BY Raised DEF EngineInv, ShapesInv
  <2>2. st' = s /\ run' = [run EXCEPT !.pc = G!Trapped] /\ eng' = eng
    BY <1>1, <1>3 DEF WildPc
  <2> HIDE DEF s
  <2>3. ShapesInv'
    BY <1>1, <2>1, <2>2 DEF EngineInv, ShapesInv, HasFields, StOK
  <2>4. /\ run'.mode = "top" /\ run'.pc = G!Trapped /\ run'.base = run.base /\ run'.out = "run"
    BY <1>1, <2>2 DEF EngineInv, ShapesInv, HasFields
  <2>5. SlotsInv'
    BY <1>1, <2>2, SlotsSet DEF EngineInv, SlotsInv
  <2>6. ControlInv' /\ LoadedInv'
    BY <1>1, <2>2, <2>4 DEF EngineInv, ControlInv, LoadedInv, InHost
  <2>7. Guest = GuestRec(run.pc, "body", st) /\ Guest' = GuestRec(G!Trapped, "body", s)
    BY <1>1, <2>2, <2>4 DEF Guest, GuestRec, Here, InHost
  <2>8. Guest.out = "run" /\ Guest.ph = "body" /\ Guest.pc = run.pc /\ Guest.stack = st.stack
    BY <2>7 DEF GuestRec
  <2>9. G!Room
    BY <1>3, <2>8, Sequences, JitEngineAssumption DEF NoRoom, G!Room, EngineInv, ShapesInv, StOK
  <2>10. G!GWild
    BY <1>1, <2>7, <2>8, <2>9, GuestRaises DEF G!GWild, G!Running, s, EngineInv, ShapesInv
  <2> QED  BY <1>1, <2>3, <2>5, <2>6, <2>10 DEF EngineInv, GuestStep, G!GNext
<1> QED  BY <1>2, <1>3
\* Steps that the guest cannot see: the dispatcher yields, resumes, takes a
\* parked block's address, is asked to stop.
LEMMA DispatcherStep ==
  ASSUME EngineInv, PollYield \/ Resume \/ Parked \/ RequestStop
  PROVE  EngineInv' /\ Guest' = Guest /\ prog' = prog
<1>0. HasFields(eng, {"slots", "budget", "yield", "stop", "terminal", "resume"})
        /\ HasFields(run, {"mode", "pc", "at", "t", "base", "out", "late", "stops"})
  BY DEF EngineInv, ShapesInv
<1>1. CASE PollYield
  <2>1. /\ run.mode = "top" /\ run'.mode = "yielded" /\ run'.pc = run.pc /\ run'.base = run.base /\ run'.out = run.out
        /\ eng'.slots = eng.slots /\ eng'.yield = eng.yield /\ eng'.resume = <<run.base>>
        /\ HasFields(eng', {"slots", "budget", "yield", "stop", "terminal", "resume"})
        /\ HasFields(run', {"mode", "pc", "at", "t", "base", "out", "late", "stops"})
        /\ UNCHANGED <<prog, st, host>>
    BY <1>0, <1>1 DEF PollYield, In, HasFields
  <2>2. ShapesInv'
    BY <2>1 DEF EngineInv, ShapesInv, HasFields, StOK
  <2>3. SlotsInv'
    BY <2>1, SlotsSet DEF EngineInv, SlotsInv
  <2>4. ControlInv' /\ LoadedInv'
    BY <2>1 DEF EngineInv, ControlInv, LoadedInv, InHost
  <2> QED  BY <2>1, <2>2, <2>3, <2>4 DEF EngineInv, Guest, Here, InHost
<1>2. CASE Resume
  <2>0. run.mode = "yielded" /\ eng.resume = <<0>>
    BY <1>2 DEF Resume, In, EngineInv, ControlInv
  <2>1. run' = [run EXCEPT !.mode = "top", !.base = 0] /\ eng' = [eng EXCEPT !.resume = <<>>]
          /\ UNCHANGED <<prog, st, host>>
    BY <1>2, <2>0, <<0>> # <<>>, <<0>>[1] = 0 DEF Resume
  <2>2. /\ run.mode = "yielded" /\ run'.mode = "top" /\ run'.pc = run.pc /\ run'.base = 0 /\ run'.out = run.out
        /\ eng'.slots = eng.slots /\ eng'.yield = eng.yield
        /\ HasFields(eng', {"slots", "budget", "yield", "stop", "terminal", "resume"})
        /\ HasFields(run', {"mode", "pc", "at", "t", "base", "out", "late", "stops"})
        /\ UNCHANGED <<prog, st, host>>
    BY <1>0, <2>0, <2>1 DEF HasFields
  <2>3. ShapesInv'
    BY <2>2 DEF EngineInv, ShapesInv, HasFields, StOK
  <2>4. SlotsInv'
    BY <2>2, SlotsSet DEF EngineInv, SlotsInv
  <2>5. ControlInv' /\ LoadedInv'
    BY <2>2 DEF EngineInv, ControlInv, LoadedInv, InHost
  <2> QED  BY <2>2, <2>3, <2>4, <2>5 DEF EngineInv, Guest, Here, InHost
<1>3. CASE Parked
  <2>0. run.mode = "returned" /\ eng.yield = <<Here>> /\ eng.yield[1] = Here
    BY <1>3 DEF Parked, In, EngineInv, ControlInv
  <2>1. /\ run.mode = "returned" /\ eng.yield = <<Here>> /\ run'.mode = "top" /\ run'.pc = Here
        /\ run'.base = run.base /\ run'.out = run.out
        /\ eng'.slots = eng.slots /\ eng'.yield = <<>>
        /\ HasFields(eng', {"slots", "budget", "yield", "stop", "terminal", "resume"})
        /\ HasFields(run', {"mode", "pc", "at", "t", "base", "out", "late", "stops"})
        /\ UNCHANGED <<prog, st, host>>
    BY <1>0, <1>3, <2>0 DEF Parked, HasFields
  <2>2. ShapesInv'
    BY <2>1 DEF EngineInv, ShapesInv, HasFields, StOK
  <2>3. SlotsInv'
    BY <2>1, SlotsSet DEF EngineInv, SlotsInv
  <2>4. ControlInv' /\ LoadedInv'
    BY <2>1 DEF EngineInv, ControlInv, LoadedInv, InHost
  <2>5. Here' = Here
    BY <2>1 DEF Here, InHost
  <2> QED  BY <2>1, <2>2, <2>3, <2>4, <2>5 DEF EngineInv, Guest, InHost
<1>4. CASE RequestStop
  <2>1. /\ run'.mode = run.mode /\ run'.pc = run.pc /\ run'.at = run.at /\ run'.base = run.base /\ run'.out = run.out
        /\ eng'.slots = eng.slots /\ eng'.yield = eng.yield /\ eng'.terminal = eng.terminal /\ eng'.resume = eng.resume
        /\ HasFields(eng', {"slots", "budget", "yield", "stop", "terminal", "resume"})
        /\ HasFields(run', {"mode", "pc", "at", "t", "base", "out", "late", "stops"})
        /\ UNCHANGED <<prog, st, host>>
    BY <1>0, <1>4 DEF RequestStop, HasFields
  <2>2. ShapesInv'
    BY <2>1 DEF EngineInv, ShapesInv, HasFields, StOK
  <2>3. SlotsInv'
    BY <2>1, SlotsSet DEF EngineInv, SlotsInv
  <2>4. Here' = Here
    BY <2>1 DEF Here, InHost
  <2>5. ControlInv' /\ LoadedInv'
    BY <2>1, <2>4 DEF EngineInv, ControlInv, LoadedInv, InHost
  <2> QED  BY <2>1, <2>2, <2>3, <2>4, <2>5 DEF EngineInv, Guest, InHost
<1> QED  BY <1>1, <1>2, <1>3, <1>4

\* Translated code: the safe point with both of its outcomes.
LEMMA SafePointStep ==
  ASSUME EngineInv, SafePointLoad \/ SafePointStore
  PROVE  EngineInv' /\ Guest' = Guest /\ prog' = prog
<1>0. /\ HasFields(eng, {"slots", "budget", "yield", "stop", "terminal", "resume"})
      /\ HasFields(run, {"mode", "pc", "at", "t", "base", "out", "late", "stops"})
      /\ HasFields(host, {"r", "fp"}) /\ HasFields(st, {"r", "fp", "cc", "s", "stack"})
      /\ st.fp = [n \in G!FloatRegs |-> st.fp[n]] /\ IsSeq(st.stack)
  BY DEF EngineInv, ShapesInv, StOK
<1>1. CASE SafePointLoad \/ (SafePointStore /\ run.t - 1 > 0)
  <2>1. /\ run.mode \in {"load", "store"} /\ run'.mode \in {"store", "body"}
        /\ run'.pc = run.pc /\ run'.at = run.at /\ run'.base = run.base /\ run'.out = run.out
        /\ eng'.slots = eng.slots /\ eng'.yield = eng.yield
        /\ HasFields(eng', {"slots", "budget", "yield", "stop", "terminal", "resume"})
        /\ HasFields(run', {"mode", "pc", "at", "t", "base", "out", "late", "stops"})
        /\ UNCHANGED <<prog, st, host>>
    <3>1. CASE SafePointLoad
      BY <1>0, <3>1 DEF SafePointLoad, In, HasFields
    <3>2. CASE SafePointStore /\ run.t - 1 > 0
      <4>1. /\ run.mode = "store" /\ eng' = [eng EXCEPT !.budget = run.t - 1] /\ run' = [run EXCEPT !.mode = "body"]
            /\ UNCHANGED <<prog, st, host>>
        BY <3>2 DEF SafePointStore, In
      <4> QED  BY <1>0, <4>1 DEF HasFields
    <3> QED  BY <1>1, <3>1, <3>2
  <2>2. ShapesInv'
    BY <2>1 DEF EngineInv, ShapesInv, HasFields, StOK
  <2>3. SlotsInv'
    BY <2>1, SlotsSet DEF EngineInv, SlotsInv
  <2>4. Here' = Here
    BY <2>1 DEF Here, InHost
  <2>5. ControlInv' /\ LoadedInv'
    BY <2>1, <2>4 DEF EngineInv, ControlInv, LoadedInv, InHost
  <2> QED  BY <2>1, <2>2, <2>3, <2>4, <2>5 DEF EngineInv, Guest, InHost
<1>2. CASE SafePointStore /\ ~(run.t - 1 > 0)
  <2> DEFINE loaded == [n \in G!FloatRegs |-> IF n \in prog[Here].fw \ prog[Here].fr THEN st.fp[n] ELSE host.fp[n]]
             stored == [n \in G!FloatRegs |-> IF n \in prog[Here].fw THEN loaded[n] ELSE st.fp[n]]
  <2>1. /\ run.mode = "store" /\ prog' = prog
        /\ eng' = [eng EXCEPT !.budget = run.t - 1, !.yield = <<Here>>, !.terminal = Terminal]
        /\ host' = [host EXCEPT !.fp = loaded]
        /\ st' = [st EXCEPT !.r = host.r, !.fp = stored]
        /\ run' = [run EXCEPT !.mode = "returned"]
    BY <1>2, <1>0 DEF SafePointStore, In, Epilogue
  <2>2. stored = st.fp
    <3>1. ASSUME NEW n \in G!FloatRegs
          PROVE  stored[n] = st.fp[n]
      BY <2>1 DEF EngineInv, LoadedInv
    <3> HIDE DEF stored
    <3>2. stored = [n \in G!FloatRegs |-> stored[n]]
      BY DEF stored
    <3> QED  BY <3>1, <3>2, <1>0
  <2> HIDE DEF stored, loaded
  <2>3. /\ run'.mode = "returned" /\ run'.at = run.at /\ run'.base = run.base /\ run'.out = run.out
        /\ eng'.slots = eng.slots /\ eng'.yield = <<Here>>
        /\ HasFields(eng', {"slots", "budget", "yield", "stop", "terminal", "resume"})
        /\ HasFields(run', {"mode", "pc", "at", "t", "base", "out", "late", "stops"})
        /\ HasFields(host', {"r", "fp"}) /\ HasFields(st', {"r", "fp", "cc", "s", "stack"})
        /\ st'.r = host.r /\ st'.fp = st.fp /\ st'.cc = st.cc /\ st'.s = st.s /\ st'.stack = st.stack
    BY <1>0, <2>1, <2>2 DEF HasFields
  <2>4. ShapesInv'
    BY <1>0, <2>3 DEF ShapesInv, StOK
  <2>5. SlotsInv'
    BY <2>1, <2>3, SlotsSet DEF EngineInv, SlotsInv
  <2>6. Here' = Here
    BY <2>1, <2>3 DEF Here, InHost
  <2>7. eng'.yield \in {<<>>, <<Here'>>} /\ eng'.yield # <<>> /\ eng'.yield[1] = Here
    BY <2>3, <2>6
  <2>8. ControlInv' /\ LoadedInv'
    BY <2>1, <2>3, <2>7 DEF EngineInv, ControlInv, LoadedInv, InHost
  <2>9. Guest' = Guest
    BY <2>1, <2>3, <2>6, <2>7 DEF Guest, InHost
  <2> QED  BY <2>1, <2>4, <2>5, <2>8, <2>9 DEF EngineInv
<1> QED  BY <1>1, <1>2
\* The end of a chain: the registers go back to the state, and the index
\* recorded is the block's own, because it fits.
LEMMA FallsBackStep ==
  ASSUME EngineInv, FallsBack, IndexMod >= MaxBlocks
  PROVE  EngineInv' /\ Guest' = Guest /\ prog' = prog
<1>0. /\ HasFields(eng, {"slots", "budget", "yield", "stop", "terminal", "resume"})
      /\ HasFields(run, {"mode", "pc", "at", "t", "base", "out", "late", "stops"})
      /\ HasFields(host, {"r", "fp"}) /\ HasFields(st, {"r", "fp", "cc", "s", "stack"})
      /\ st.fp = [n \in G!FloatRegs |-> st.fp[n]] /\ IsSeq(st.stack)
  BY DEF EngineInv, ShapesInv, StOK
<1> DEFINE stored == [n \in G!FloatRegs |-> IF n \in prog[Here].fw THEN host.fp[n] ELSE st.fp[n]]
<1>1. /\ run.mode = "tail" /\ UNCHANGED <<prog, host>>
      /\ eng' = [eng EXCEPT !.terminal = Terminal]
      /\ st' = [st EXCEPT !.r = host.r, !.fp = stored]
      /\ run' = [run EXCEPT !.mode = "returned"]
  BY <1>0 DEF FallsBack, In, Epilogue
<1>2. stored = [n \in DOMAIN st.fp |-> IF n \in prog[Here].fw THEN host.fp[n] ELSE st.fp[n]]
  <2>1. DOMAIN st.fp = G!FloatRegs
    BY <1>0
  <2> QED  BY <2>1
<1>3. Terminal = run.at - 1
  <2>1. /\ run.at \in DOMAIN eng.slots /\ eng.slots \in Seq(Blocks) /\ Len(eng.slots) <= MaxBlocks
    BY <1>1 DEF EngineInv, ControlInv, SlotsInv, SlotsOK, InHost
  <2>2. run.at - 1 \in 0 .. IndexMod - 1
    BY <2>1, JitEngineAssumption
  <2> QED  BY <2>2, JitEngineAssumption DEF Terminal
<1>4. stored = [n \in G!FloatRegs |-> stored[n]]
  OBVIOUS
<1> HIDE DEF stored
<1>5. /\ run'.mode = "returned" /\ run'.at = run.at /\ run'.base = run.base /\ run'.out = run.out
      /\ eng'.slots = eng.slots /\ eng'.yield = eng.yield /\ eng'.terminal = run.at - 1
      /\ HasFields(eng', {"slots", "budget", "yield", "stop", "terminal", "resume"})
      /\ HasFields(run', {"mode", "pc", "at", "t", "base", "out", "late", "stops"})
      /\ HasFields(st', {"r", "fp", "cc", "s", "stack"})
      /\ st'.r = host.r /\ st'.fp = stored /\ st'.cc = st.cc /\ st'.s = st.s /\ st'.stack = st.stack
  BY <1>0, <1>1, <1>3 DEF HasFields
<1>6. ShapesInv'
  BY <1>0, <1>1, <1>4, <1>5 DEF ShapesInv, StOK
<1>7. SlotsInv'
  BY <1>1, <1>5, SlotsSet DEF EngineInv, SlotsInv
<1>8. Here' = Here
  BY <1>1, <1>5 DEF Here, InHost
<1>9. eng'.yield = <<>>
  BY <1>1, <1>5 DEF EngineInv, ControlInv
<1>10. ControlInv' /\ LoadedInv'
  BY <1>1, <1>5, <1>9 DEF EngineInv, ControlInv, LoadedInv, InHost
<1>11. Guest' = Guest
  BY <1>1, <1>2, <1>5, <1>8, <1>9 DEF Guest, InHost
<1> QED  BY <1>1, <1>6, <1>7, <1>10, <1>11 DEF EngineInv
\* The body computes in the host's registers what the guest would: the ones it
\* reads are there.
LEMMA BodyStep ==
  ASSUME EngineInv, Body
  PROVE  EngineInv' /\ GuestStep
<1>0. /\ HasFields(run, {"mode", "pc", "at", "t", "base", "out", "late", "stops"})
      /\ HasFields(st, {"r", "fp", "cc", "s", "stack"})
      /\ st.fp = [n \in G!FloatRegs |-> st.fp[n]] /\ IsSeq(st.stack)
  BY DEF EngineInv, ShapesInv, StOK
<1> DEFINE b == prog[Here]
           r == G!Counted(host.r, b)
           fp == G!Floated(host.fp, b)
           cc == IF b.inc = {} THEN st.cc ELSE r[0] = 0
           late == IF eng.stop THEN IF run.late < 2 THEN run.late + 1 ELSE run.late ELSE 0
<1>1. /\ run.mode = "body" /\ run.out = "run" /\ UNCHANGED <<prog, eng>>
      /\ host' = [r |-> r, fp |-> fp]
      /\ st' = [st EXCEPT !.cc = cc]
      /\ run' = [run EXCEPT !.mode = "tail", !.late = late]
  BY DEF Body, In
<1>2. Here \in DOMAIN prog
  <2>1. Here = eng.slots[run.at].pc /\ eng.slots[run.at] \in Blocks
    BY <1>1 DEF EngineInv, ControlInv, SlotsInv, SlotsOK, Here, InHost
  <2> QED  BY <2>1 DEF Blocks
<1>3. [n \in G!FloatRegs |-> IF n \in b.fw THEN fp[n] ELSE st.fp[n]] = G!Floated(st.fp, b)
  <2>1. \A n \in G!FloatRegs : n \in b.fr => host.fp[n] = st.fp[n]
    BY <1>1 DEF EngineInv, LoadedInv
  <2>2. ASSUME NEW n \in G!FloatRegs
        PROVE  (IF n \in b.fw THEN fp[n] ELSE st.fp[n]) = G!Floated(st.fp, b)[n]
    BY <2>1 DEF G!Floated, G!FloatRegs
  <2>3. G!Floated(st.fp, b) = [n \in G!FloatRegs |-> G!Floated(st.fp, b)[n]]
    BY DEF G!Floated
  <2> QED  BY <2>2, <2>3
<1> HIDE DEF r, fp, cc, late
<1>4. /\ run'.mode = "tail" /\ run'.at = run.at /\ run'.base = run.base /\ run'.out = "run"
      /\ HasFields(run', {"mode", "pc", "at", "t", "base", "out", "late", "stops"})
      /\ HasFields(st', {"r", "fp", "cc", "s", "stack"})
      /\ st'.r = st.r /\ st'.fp = st.fp /\ st'.cc = cc /\ st'.s = st.s /\ st'.stack = st.stack
      /\ host'.r = r /\ host'.fp = fp
  BY <1>0, <1>1 DEF HasFields
<1>5. ShapesInv'
  BY <1>0, <1>1, <1>4 DEF EngineInv, ShapesInv, StOK, HasFields
<1>6. SlotsInv'
  BY <1>1, SlotsSet DEF EngineInv, SlotsInv
<1>7. Here' = Here
  BY <1>1, <1>4 DEF Here, InHost
<1>8. ControlInv' /\ LoadedInv'
  BY <1>1, <1>4 DEF EngineInv, ControlInv, LoadedInv, InHost
<1>9. /\ Guest.pc = Here /\ Guest.ph = "body" /\ Guest.r = host.r /\ Guest.fp = st.fp /\ Guest.cc = st.cc
      /\ Guest.s = st.s /\ Guest.stack = st.stack /\ Guest.out = "run"
      /\ HasFields(Guest, GuestNames) /\ HasFields(Guest', GuestNames)
  BY <1>1 DEF Guest, InHost, HasFields, GuestNames
<1>10. Guest'.fp = G!Floated(st.fp, b)
  <2>1. DOMAIN st.fp = G!FloatRegs
    BY <1>0
  <2> QED  BY <1>1, <1>3, <1>4, <1>7, <2>1 DEF Guest
<1>11. /\ Guest'.pc = Here /\ Guest'.ph = "term" /\ Guest'.r = r /\ Guest'.cc = cc
       /\ Guest'.s = st.s /\ Guest'.stack = st.stack /\ Guest'.out = "run"
  BY <1>1, <1>4, <1>7 DEF Guest, InHost
<1>12. Guest' = [Guest EXCEPT !.r = r, !.fp = G!Floated(st.fp, b), !.cc = cc, !.ph = "term"]
  <2> DEFINE x == G!Floated(st.fp, b)
             w == [Guest EXCEPT !.r = r, !.fp = x, !.cc = cc, !.ph = "term"]
  <2> HIDE DEF x
  <2>1. /\ HasFields(w, GuestNames) /\ w.pc = Guest.pc /\ w.ph = "term" /\ w.r = r /\ w.fp = x /\ w.cc = cc
        /\ w.s = Guest.s /\ w.stack = Guest.stack /\ w.out = Guest.out
    BY <1>9 DEF HasFields, GuestNames
  <2> HIDE DEF w
  <2>2. Guest' = w
    BY <1>9, <1>10, <1>11, <2>1 DEF HasFields, GuestNames, x
  <2> QED  BY <2>2 DEF w, x
<1>13. G!Blk = b /\ r = G!Counted(Guest.r, b)
  BY <1>9 DEF G!Blk, r
<1>14. cc = IF b.inc = {} THEN Guest.cc ELSE G!Counted(Guest.r, b)[0] = 0
  BY <1>9, <1>13 DEF cc
<1>15. G!GBody
  BY <1>2, <1>9, <1>12, <1>13, <1>14 DEF G!GBody, G!Running
<1> QED  BY <1>1, <1>5, <1>6, <1>8, <1>15 DEF EngineInv, GuestStep, G!GNext
\* A patched branch: into the block of the address the guest goes to, whose
\* entry skips no FP register because it has none.
LEMMA ChainedStep ==
  ASSUME EngineInv, Chained
  PROVE  EngineInv' /\ GuestStep
<1>0. /\ HasFields(run, {"mode", "pc", "at", "t", "base", "out", "late", "stops"})
      /\ StOK(st)
  BY DEF EngineInv, ShapesInv
<1> DEFINE to == Hop(run.at)
           b == eng.slots[run.at]
           j == IF prog[Here].t.k = "bcc" /\ ~st.cc THEN 2 ELSE 1
<1>1. /\ run.mode = "tail" /\ run.out = "run" /\ to # 0 /\ UNCHANGED <<prog, st, host, eng>>
      /\ run' = [run EXCEPT !.mode = "load", !.at = to]
  BY DEF Chained, In
<1>2. run.at \in DOMAIN eng.slots /\ Here = b.pc /\ b \in Blocks /\ DOMAIN b.link = DOMAIN chain_targets(Here)
  BY <1>1 DEF EngineInv, ControlInv, SlotsInv, SlotsOK, Here, InHost
<1>3. b.link # <<>> /\ to = b.link[j]
  BY <1>1 DEF Hop
<1>4. chain_targets(Here) # <<>>
  <2>1. b.link \in Seq(Nat)
    BY <1>2 DEF Blocks
  <2> QED  BY <1>2, <1>3, <2>1
<1>5. /\ ~IsFp(Here)
      /\ \/ prog[Here].t.k = "bra" /\ chain_targets(Here) = <<prog[Here].t.to>>
         \/ prog[Here].t.k = "bcc" /\ chain_targets(Here) = <<prog[Here].t.to, prog[Here].t.ret>>
  BY <1>4, TargetsOfBranches
<1>6. j \in DOMAIN b.link
  <2>1. CASE prog[Here].t.k = "bra" /\ chain_targets(Here) = <<prog[Here].t.to>>
    BY <1>2, <2>1
  <2>2. CASE prog[Here].t.k = "bcc" /\ chain_targets(Here) = <<prog[Here].t.to, prog[Here].t.ret>>
    BY <1>2, <2>2
  <2> QED  BY <1>5, <2>1, <2>2
<1>7. to \in DOMAIN eng.slots /\ eng.slots[to].pc = chain_targets(Here)[j] /\ ~IsFp(eng.slots[to].pc)
  BY <1>1, <1>2, <1>3, <1>6 DEF EngineInv, SlotsInv, SlotsOK
<1> HIDE DEF to
<1>8. /\ run'.mode = "load" /\ run'.at = to /\ run'.base = run.base /\ run'.out = "run"
      /\ HasFields(run', {"mode", "pc", "at", "t", "base", "out", "late", "stops"})
  BY <1>0, <1>1 DEF HasFields
<1>9. Here' = eng.slots[to].pc
  BY <1>1, <1>8 DEF Here, InHost
<1>10. ShapesInv'
  BY <1>1, <1>8 DEF EngineInv, ShapesInv, StOK, HasFields
<1>11. SlotsInv'
  BY <1>1, SlotsSet DEF EngineInv, SlotsInv
<1>12. ControlInv'
  BY <1>1, <1>7, <1>8 DEF EngineInv, ControlInv, InHost
<1>13. LoadedInv'
  BY <1>1, <1>7, <1>9 DEF LoadedInv, IsFp
<1>14. [n \in DOMAIN st.fp |-> IF n \in prog[Here].fw THEN host.fp[n] ELSE st.fp[n]] = st.fp
  <2>1. prog[Here].fw = {}
    BY <1>5 DEF IsFp
  <2> QED  BY <2>1, <1>0 DEF StOK
<1> DEFINE s == [r |-> host.r, fp |-> st.fp, cc |-> st.cc, s |-> st.s, stack |-> st.stack]
<1>15. Guest = GuestRec(Here, "term", s)
  BY <1>1, <1>14 DEF Guest, InHost, GuestRec
<1>16. Guest' = GuestRec(eng.slots[to].pc, "body", s)
  BY <1>1, <1>8, <1>9 DEF Guest, InHost, GuestRec
<1>17. Guest' = G!Goto(Guest, eng.slots[to].pc)
  BY <1>15, <1>16, GuestGoes
<1>18. Guest.pc = Here /\ Guest.ph = "term" /\ Guest.cc = st.cc /\ Guest.out = "run"
  BY <1>15 DEF GuestRec
<1>19. G!GBranch
  <2>1. CASE prog[Here].t.k = "bra" /\ chain_targets(Here) = <<prog[Here].t.to>>
    <3>1. eng.slots[to].pc = prog[Here].t.to
      BY <1>7, <2>1
    <3> QED  BY <1>17, <1>18, <2>1, <3>1 DEF G!GBranch, G!Ending, G!Blk, G!Running
  <2>2. CASE prog[Here].t.k = "bcc" /\ chain_targets(Here) = <<prog[Here].t.to, prog[Here].t.ret>>
    <3>1. eng.slots[to].pc = IF st.cc THEN prog[Here].t.to ELSE prog[Here].t.ret
      BY <1>7, <2>2
    <3> QED  BY <1>17, <1>18, <2>2, <3>1 DEF G!GBranch, G!Ending, G!Blk, G!Running
  <2> QED  BY <1>5, <2>1, <2>2
<1> QED  BY <1>1, <1>10, <1>11, <1>12, <1>13, <1>19 DEF EngineInv, GuestStep, G!GNext

\* At the end of a chain the dispatcher decodes the terminator that the guest
\* is at, and sees the guest's stack as it is.
LEMMA AtTerminator ==
  ASSUME EngineInv, NEW k, Decoding(k)
  PROVE  /\ run.mode = "returned" /\ run.out = "run" /\ eng.yield = <<>> /\ UNCHANGED <<prog, host>>
         /\ StOK(st) /\ Guest = GuestRec(Here, "term", st)
         /\ G!Ending(k) /\ G!Blk.t = Term
         /\ Guest.cc = st.cc /\ Guest.r = st.r /\ Guest.stack = st.stack /\ Guest.out = "run"
         /\ G!Room <=> ~NoRoom
         /\ Outermost <=> st.stack = <<>>
<1>1. run.mode = "returned" /\ run.out = "run" /\ eng.yield = <<>> /\ UNCHANGED <<prog, host>> /\ Term.k = k
  BY DEF Decoding, In
<1>2. Last1 = run.at
  <2>1. eng.terminal = run.at - 1 /\ run.at \in DOMAIN eng.slots /\ eng.slots \in Seq(Blocks)
    BY <1>1 DEF EngineInv, ControlInv, SlotsInv, SlotsOK
  <2> QED  BY <2>1 DEF Last1
<1>3. Term = prog[Here].t
  BY <1>1, <1>2 DEF Term, Here, InHost
<1>4. Guest = GuestRec(Here, "term", st) /\ StOK(st)
  BY <1>1, GuestInState DEF EngineInv, ShapesInv
<1>5. /\ Guest.pc = Here /\ Guest.ph = "term" /\ Guest.out = "run"
      /\ Guest.cc = st.cc /\ Guest.r = st.r /\ Guest.stack = st.stack
  BY <1>4 DEF GuestRec
<1>6. Len(st.stack) \in Nat /\ (Len(st.stack) <= 0 <=> st.stack = <<>>)
  BY <1>4, Sequences DEF StOK
<1>7. G!Room <=> ~NoRoom
  BY <1>5, <1>6, JitEngineAssumption DEF NoRoom, G!Room
<1>8. Outermost <=> st.stack = <<>>
  BY <1>6 DEF Outermost, EngineInv, ControlInv
<1> QED  BY <1>1, <1>3, <1>4, <1>5, <1>7, <1>8 DEF G!Ending, G!Blk, G!Running

\* However the dispatcher goes on to an address, the guest is there, in the
\* state it was given.
GoesTo(s, pc) ==
  \/ Continue(s, pc)
  \/ s = st /\ ServedAndFreed(pc)
  \/ BlockYieldAt(s, pc)
LEMMA GoneTo ==
  ASSUME EngineInv, run.mode = "returned", run.out = "run", eng.yield = <<>>, UNCHANGED <<prog, host>>,
         NEW s, StOK(s), NEW pc, GoesTo(s, pc)
  PROVE  EngineInv' /\ Guest' = GuestRec(pc, "body", s)
<1>0. /\ HasFields(eng, {"slots", "budget", "yield", "stop", "terminal", "resume"})
      /\ HasFields(run, {"mode", "pc", "at", "t", "base", "out", "late", "stops"})
      /\ SlotsOK(eng.slots) /\ Len(eng.slots) <= MaxBlocks
  BY DEF EngineInv, ShapesInv, SlotsInv
<1> DEFINE q == eng'.slots
<1>1. /\ st' = s /\ run'.mode \in {"top", "yielded"} /\ run'.pc = pc /\ run'.base = run.base /\ run'.out = "run"
      /\ run'.mode = "yielded" => eng'.resume = <<run.base>>
      /\ eng'.yield = <<>> /\ q \in {eng.slots, link_if_resolved(eng.slots, Last1, pc), <<>>}
      /\ HasFields(eng', {"slots", "budget", "yield", "stop", "terminal", "resume"})
      /\ HasFields(run', {"mode", "pc", "at", "t", "base", "out", "late", "stops"})
  <2>1. CASE Continue(s, pc)
    BY <1>0, <2>1 DEF Continue, HasFields
  <2>2. CASE s = st /\ ServedAndFreed(pc)
    BY <1>0, <2>2 DEF ServedAndFreed, HasFields
  <2>3. CASE BlockYieldAt(s, pc)
    BY <1>0, <2>3 DEF BlockYieldAt, HasFields
  <2> QED  BY <2>1, <2>2, <2>3 DEF GoesTo
<1>2. SlotsOK(q) /\ Len(q) <= MaxBlocks
  <2>1. SlotsOK(<<>>) /\ Len(<<>>) <= MaxBlocks
    BY JitEngineAssumption DEF SlotsOK
  <2>2. SlotsOK(link_if_resolved(eng.slots, Last1, pc)) /\ Len(link_if_resolved(eng.slots, Last1, pc)) <= MaxBlocks
    BY <1>0, LinkedBlock
  <2> QED  BY <1>0, <1>1, <2>1, <2>2
<1>3. ShapesInv'
  BY <1>1 DEF EngineInv, ShapesInv, StOK, HasFields
<1>4. SlotsInv'
  BY <1>2, SlotsSet
<1>5. ControlInv' /\ LoadedInv'
  BY <1>1 DEF EngineInv, ControlInv, LoadedInv, InHost
<1>6. Guest' = GuestRec(pc, "body", s)
  BY <1>1 DEF Guest, GuestRec, Here, InHost
<1> QED  BY <1>3, <1>4, <1>5, <1>6 DEF EngineInv
LEMMA Failed ==
  ASSUME EngineInv, run.out = "run", UNCHANGED <<prog, host>>, Fails
  PROVE  EngineInv' /\ GuestStep
BY Left DEF Fails, GuestStep, G!GNext, G!GEnd, G!Running
LEMMA Exited ==
  ASSUME EngineInv, run.out = "run", UNCHANGED <<prog, host>>, run' = Leave("exit"), UNCHANGED <<st, eng>>
  PROVE  EngineInv' /\ Guest' = [Guest EXCEPT !.out = "exit"]
BY Left

\* Branches and loops.
LEMMA DoBranchStep ==
  ASSUME EngineInv, DoBranch
  PROVE  EngineInv' /\ GuestStep
<1> DEFINE Dest == IF st.cc THEN Term.to ELSE Term.ret
<1>1. CASE Decoding("bra") /\ Continue(st, Term.to)
  <2>1. EngineInv' /\ Guest' = G!Goto(Guest, Term.to)
    BY <1>1, AtTerminator, GoneTo, GuestGoes DEF GoesTo
  <2>2. G!GBranch /\ prog' = prog
    BY <1>1, <2>1, AtTerminator DEF G!GBranch
  <2> QED  BY <2>1, <2>2 DEF GuestStep, G!GNext
<1>2. CASE Decoding("bcc") /\ Continue(st, Dest)
  <2>1. EngineInv' /\ Guest' = G!Goto(Guest, Dest)
    BY <1>2, AtTerminator, GoneTo, GuestGoes DEF GoesTo
  <2>2. G!GBranch /\ prog' = prog
    BY <1>2, <2>1, AtTerminator DEF G!GBranch
  <2> QED  BY <2>1, <2>2 DEF GuestStep, G!GNext
<1> QED  BY <1>1, <1>2 DEF DoBranch, cond_taken
LEMMA DoDbccStep ==
  ASSUME EngineInv, DoDbcc
  PROVE  EngineInv' /\ GuestStep
<1> DEFINE n == (st.r[1] - 1) % RegMod
           to == IF n = RegMod - 1 THEN Term.ret ELSE Term.to
           s == [st EXCEPT !.r[1] = n]
<1>1. Decoding("dbcc") /\ (IF st.cc THEN Continue(st, Term.ret) ELSE Continue(s, to))
  BY DEF DoDbcc, cond_taken
<1>2. prog' = prog /\ StOK(st) /\ Guest = GuestRec(Here, "term", st) /\ G!Ending("dbcc") /\ G!Blk.t = Term
      /\ Guest.cc = st.cc /\ Guest.r = st.r
  BY <1>1, AtTerminator
<1>3. CASE st.cc
  <2>1. Decoding("dbcc") /\ Continue(st, Term.ret)
    BY <1>1, <1>3
  <2>2. EngineInv' /\ Guest' = G!Goto(Guest, Term.ret)
    BY <2>1, AtTerminator, GoneTo, GuestGoes DEF GoesTo
  <2>3. G!GBranch
    BY <1>2, <1>3, <2>2 DEF G!GBranch
  <2> QED  BY <1>2, <2>2, <2>3 DEF GuestStep, G!GNext
<1>4. CASE ~st.cc
  <2> HIDE DEF n, to
  <2>1. /\ HasFields(s, {"r", "fp", "cc", "s", "stack"})
        /\ s.r = [st.r EXCEPT ![1] = n] /\ s.fp = st.fp /\ s.cc = st.cc /\ s.s = st.s /\ s.stack = st.stack
    BY <1>2 DEF StOK, HasFields
  <2> DEFINE w == [Guest EXCEPT !.r[1] = n]
  <2>2. /\ HasFields(w, GuestNames) /\ w.pc = Here /\ w.ph = "term" /\ w.out = "run"
        /\ w.r = [st.r EXCEPT ![1] = n] /\ w.fp = st.fp /\ w.cc = st.cc /\ w.s = st.s /\ w.stack = st.stack
    <3>1. /\ HasFields(Guest, GuestNames) /\ Guest.pc = Here /\ Guest.ph = "term" /\ Guest.out = "run"
          /\ Guest.r = st.r /\ Guest.fp = st.fp /\ Guest.cc = st.cc /\ Guest.s = st.s /\ Guest.stack = st.stack
      BY <1>2, GuestByFields
    <3> QED  BY <3>1 DEF HasFields, GuestNames
  <2>3. Continue(s, to)
    BY <1>1, <1>4 DEF n, to
  <2> HIDE DEF s, w
  <2>4. StOK(s)
    BY <1>2, <2>1 DEF StOK
  <2>5. EngineInv' /\ Guest' = GuestRec(to, "body", s)
    BY <1>1, <2>3, <2>4, AtTerminator, GoneTo DEF GoesTo
  <2>6. w = GuestRec(Here, "term", s)
    BY <2>1, <2>2, GuestByFields
  <2>7. Guest' = G!Goto(w, to)
    BY <2>5, <2>6, GuestGoes
  <2>8. G!GBranch
    BY <1>2, <1>4, <2>7 DEF G!GBranch, w, n, to
  <2> QED  BY <1>2, <2>5, <2>8 DEF GuestStep, G!GNext
<1> QED  BY <1>3, <1>4
\* Calls, traps and returns.
LEMMA DoBsrStep ==
  ASSUME EngineInv, DoBsr
  PROVE  EngineInv' /\ GuestStep
<1>1. Decoding("bsr") /\ (NoRoom => Fails) /\ (~NoRoom => Continue(sp_push(st, Term.ret), Term.to))
  BY DEF DoBsr
<1>2. UNCHANGED <<prog, host>> /\ StOK(st) /\ Guest = GuestRec(Here, "term", st) /\ run.out = "run"
      /\ G!Ending("bsr") /\ G!Blk.t = Term /\ (G!Room <=> ~NoRoom)
  BY <1>1, AtTerminator
<1>3. CASE NoRoom
  BY <1>1, <1>2, <1>3, Failed
<1>4. CASE ~NoRoom
  <2>1. StOK(sp_push(st, Term.ret))
    BY <1>2, Pushed
  <2>2. EngineInv' /\ Guest' = GuestRec(Term.to, "body", sp_push(st, Term.ret))
    BY <1>1, <1>4, <2>1, AtTerminator, GoneTo DEF GoesTo
  <2>3. Guest' = G!Goto(G!Push(Guest, Term.ret), Term.to)
    BY <1>2, <2>2, GuestPushes, GuestGoes
  <2>4. G!GCall
    BY <1>2, <1>4, <2>3 DEF G!GCall
  <2> QED  BY <1>2, <2>2, <2>4 DEF GuestStep, G!GNext
<1> QED  BY <1>3, <1>4
\* An exception pushes a frame and goes to the handler.
LEMMA Excepted ==
  ASSUME EngineInv, NEW k, Decoding(k), ~NoRoom, Continue(raise_exception(st, Term.ret), G!Trapped)
  PROVE  EngineInv' /\ G!Room /\ Guest' = G!Goto([G!Push(Guest, G!Frame(Guest, Term.ret)) EXCEPT !.s = TRUE], G!Trapped)
<1>1. StOK(st) /\ Guest = GuestRec(Here, "term", st) /\ (G!Room <=> ~NoRoom)
  BY AtTerminator
<1>2. StOK(raise_exception(st, Term.ret))
  BY <1>1, Raised
<1>3. EngineInv' /\ Guest' = GuestRec(G!Trapped, "body", raise_exception(st, Term.ret))
  BY <1>2, AtTerminator, GoneTo DEF GoesTo
<1> QED  BY <1>1, <1>3, GuestRaises
LEMMA DoTrapStep ==
  ASSUME EngineInv, DoTrap
  PROVE  EngineInv' /\ GuestStep
<1>1. Decoding("trap") /\ (NoRoom => Fails) /\ (~NoRoom => Continue(raise_exception(st, Term.ret), G!Trapped))
  BY DEF DoTrap
<1>2. UNCHANGED <<prog, host>> /\ run.out = "run" /\ G!Ending("trap") /\ G!Blk.t = Term
  BY <1>1, AtTerminator
<1>3. CASE NoRoom
  BY <1>1, <1>2, <1>3, Failed
<1>4. CASE ~NoRoom
  <2>1. EngineInv' /\ G!Room /\ Guest' = G!Goto([G!Push(Guest, G!Frame(Guest, Term.ret)) EXCEPT !.s = TRUE], G!Trapped)
    BY <1>1, <1>4, Excepted
  <2>2. G!GTrap
    BY <1>2, <2>1 DEF G!GTrap
  <2> QED  BY <1>2, <2>1, <2>2 DEF GuestStep, G!GNext
<1> QED  BY <1>3, <1>4
\* A return to the address on the stack.
LEMMA Returned ==
  ASSUME EngineInv, NEW k, Decoding(k), st.stack # <<>>,
         GoesTo([st EXCEPT !.stack = G!Front(@)], G!Last(st.stack))
  PROVE  EngineInv' /\ Guest' = G!Goto([Guest EXCEPT !.stack = G!Front(@)], G!Last(Guest.stack))
<1> DEFINE s == [st EXCEPT !.stack = G!Front(@)]
           w == [Guest EXCEPT !.stack = G!Front(@)]
<1>1. StOK(st) /\ Guest = GuestRec(Here, "term", st) /\ Guest.stack = st.stack
  BY AtTerminator
<1>2. StOK(s) /\ s = [r |-> st.r, fp |-> st.fp, cc |-> st.cc, s |-> st.s, stack |-> G!Front(st.stack)]
  BY <1>1, Popped
<1>3. EngineInv' /\ Guest' = GuestRec(G!Last(st.stack), "body", s)
  BY <1>2, AtTerminator, GoneTo
<1>4. /\ HasFields(Guest, GuestNames) /\ Guest.pc = Here /\ Guest.ph = "term" /\ Guest.out = "run"
      /\ Guest.r = st.r /\ Guest.fp = st.fp /\ Guest.cc = st.cc /\ Guest.s = st.s /\ Guest.stack = st.stack
  BY <1>1, GuestByFields
<1>5. /\ HasFields(w, GuestNames) /\ w.pc = Here /\ w.ph = "term" /\ w.out = "run"
      /\ w.r = st.r /\ w.fp = st.fp /\ w.cc = st.cc /\ w.s = st.s /\ w.stack = G!Front(st.stack)
  BY <1>4 DEF HasFields, GuestNames
<1> HIDE DEF s, w
<1>6. s.r = st.r /\ s.fp = st.fp /\ s.cc = st.cc /\ s.s = st.s /\ s.stack = G!Front(st.stack)
  BY <1>2
<1>7. w = GuestRec(Here, "term", s)
  BY <1>5, <1>6, GuestByFields
<1>8. Guest' = G!Goto(w, G!Last(st.stack))
  BY <1>3, <1>7, GuestGoes
<1> QED  BY <1>1, <1>3, <1>8 DEF w
LEMMA DoRtsStep ==
  ASSUME EngineInv, DoRts
  PROVE  EngineInv' /\ GuestStep
<1> DEFINE s == [st EXCEPT !.stack = G!Front(@)]
<1>1. Decoding("rts") /\ (Outermost => run' = Leave("exit") /\ UNCHANGED <<st, eng>>)
      /\ (~Outermost => Continue(s, G!Last(st.stack)))
  BY DEF DoRts
<1> HIDE DEF s
<1>2. UNCHANGED <<prog, host>> /\ run.out = "run" /\ G!Ending("rts") /\ Guest.stack = st.stack
      /\ (Outermost <=> st.stack = <<>>)
  BY <1>1, AtTerminator
<1>3. CASE Outermost
  <2>1. EngineInv' /\ Guest' = [Guest EXCEPT !.out = "exit"]
    BY <1>1, <1>2, <1>3, Exited
  <2>2. G!GReturn
    BY <1>2, <1>3, <2>1 DEF G!GReturn
  <2> QED  BY <1>2, <2>1, <2>2 DEF GuestStep, G!GNext
<1>4. CASE ~Outermost
  <2>1. EngineInv' /\ Guest' = G!Goto([Guest EXCEPT !.stack = G!Front(@)], G!Last(Guest.stack))
    BY <1>1, <1>2, <1>4, Returned DEF GoesTo, s
  <2>2. G!GReturn
    BY <1>2, <1>4, <2>1 DEF G!GReturn
  <2> QED  BY <1>2, <2>1, <2>2 DEF GuestStep, G!GNext
<1> QED  BY <1>3, <1>4
LEMMA DoRteStep ==
  ASSUME EngineInv, DoRte
  PROVE  EngineInv' /\ GuestStep
<1> DEFINE f == G!Last(st.stack)
           s == [st EXCEPT !.stack = G!Front(@), !.cc = f.cc, !.s = f.s]
           w == [Guest EXCEPT !.stack = G!Front(@), !.cc = f.cc, !.s = f.s]
<1>1. Decoding("rte") /\ (st.stack = <<>> => Fails) /\ (st.stack # <<>> => Continue(s, f.ret))
  BY DEF DoRte
<1>2. UNCHANGED <<prog, host>> /\ StOK(st) /\ Guest = GuestRec(Here, "term", st) /\ run.out = "run"
      /\ G!Ending("rte") /\ Guest.stack = st.stack
  BY <1>1, AtTerminator
<1>3. CASE st.stack = <<>>
  BY <1>1, <1>2, <1>3, Failed
<1>4. CASE st.stack # <<>>
  <2> HIDE DEF f
  <2>1. /\ HasFields(Guest, GuestNames) /\ Guest.pc = Here /\ Guest.ph = "term" /\ Guest.out = "run"
        /\ Guest.r = st.r /\ Guest.fp = st.fp /\ Guest.cc = st.cc /\ Guest.s = st.s /\ Guest.stack = st.stack
    BY <1>2, GuestByFields
  <2>2. /\ HasFields(s, {"r", "fp", "cc", "s", "stack"})
        /\ s.r = st.r /\ s.fp = st.fp /\ s.cc = f.cc /\ s.s = f.s /\ s.stack = G!Front(st.stack)
    BY <1>2 DEF StOK, HasFields
  <2>3. /\ HasFields(w, GuestNames) /\ w.pc = Here /\ w.ph = "term" /\ w.out = "run"
        /\ w.r = st.r /\ w.fp = st.fp /\ w.cc = f.cc /\ w.s = f.s /\ w.stack = G!Front(st.stack)
    BY <2>1 DEF HasFields, GuestNames
  <2> HIDE DEF s, w
  <2>4. StOK(s)
    BY <1>2, <1>4, <2>2, Sequences DEF StOK
  <2>5. EngineInv' /\ Guest' = GuestRec(f.ret, "body", s)
    BY <1>1, <1>4, <2>4, AtTerminator, GoneTo DEF GoesTo
  <2>6. w = GuestRec(Here, "term", s)
    BY <2>2, <2>3, GuestByFields
  <2>7. Guest' = G!Goto(w, f.ret)
    BY <2>5, <2>6, GuestGoes
  <2>8. G!GRte
    BY <1>2, <1>4, <2>7 DEF G!GRte, w, f
  <2> QED  BY <1>2, <2>5, <2>8 DEF GuestStep, G!GNext
<1> QED  BY <1>3, <1>4
\* A library call, however the host serves it.
LEMMA DoLibStep ==
  ASSUME EngineInv, DoLib
  PROVE  EngineInv' /\ GuestStep
<1>1. /\ Decoding("lib")
      /\ \/ GoesTo(st, Term.ret)
         \/ NoRoom /\ Fails
         \/ ~NoRoom /\ Continue(sp_push(st, Term.ret), Term.to)
         \/ ~NoRoom /\ Continue(raise_exception(st, Term.ret), G!Trapped)
  BY DEF DoLib, GoesTo
<1>2. UNCHANGED <<prog, host>> /\ StOK(st) /\ Guest = GuestRec(Here, "term", st) /\ run.out = "run"
      /\ G!Ending("lib") /\ G!Blk.t = Term /\ (G!Room <=> ~NoRoom)
  BY <1>1, AtTerminator
<1>3. CASE GoesTo(st, Term.ret)
  <2>1. EngineInv' /\ Guest' = G!Goto(Guest, Term.ret)
    BY <1>1, <1>2, <1>3, AtTerminator, GoneTo, GuestGoes
  <2>2. G!GLib
    BY <1>2, <2>1 DEF G!GLib
  <2> QED  BY <1>2, <2>1, <2>2 DEF GuestStep, G!GNext
<1>4. CASE NoRoom /\ Fails
  BY <1>2, <1>4, Failed
<1>5. CASE ~NoRoom /\ Continue(sp_push(st, Term.ret), Term.to)
  <2>1. StOK(sp_push(st, Term.ret))
    BY <1>2, Pushed
  <2>2. EngineInv' /\ Guest' = GuestRec(Term.to, "body", sp_push(st, Term.ret))
    BY <1>1, <1>5, <2>1, AtTerminator, GoneTo DEF GoesTo
  <2>3. Guest' = G!Goto(G!Push(Guest, Term.ret), Term.to)
    BY <1>2, <2>2, GuestPushes, GuestGoes
  <2>4. G!GLib
    BY <1>2, <1>5, <2>3 DEF G!GLib
  <2> QED  BY <1>2, <2>2, <2>4 DEF GuestStep, G!GNext
<1>6. CASE ~NoRoom /\ Continue(raise_exception(st, Term.ret), G!Trapped)
  <2>1. EngineInv' /\ G!Room /\ Guest' = G!Goto([G!Push(Guest, G!Frame(Guest, Term.ret)) EXCEPT !.s = TRUE], G!Trapped)
    BY <1>1, <1>6, Excepted
  <2>2. G!GLib
    BY <1>2, <2>1 DEF G!GLib
  <2> QED  BY <1>2, <2>1, <2>2 DEF GuestStep, G!GNext
<1> QED  BY <1>1, <1>3, <1>4, <1>5, <1>6
\* A jump onto a library vector: as a call, but with the caller's return.
LEMMA DoTailStep ==
  ASSUME EngineInv, DoTail
  PROVE  EngineInv' /\ GuestStep
<1> DEFINE x == G!Last(st.stack)
           s == [st EXCEPT !.stack = G!Front(@)]
<1>1. /\ Decoding("tail")
      /\ \/ Outermost /\ run' = Leave("exit") /\ UNCHANGED <<st, eng>>
         \/ Outermost /\ Fails
         \/ ~Outermost /\ GoesTo(s, x)
         \/ Continue(st, Term.to)
         \/ ~Outermost /\ Continue(raise_exception(s, x), G!Trapped)
  BY DEF DoTail, GoesTo
<1>2. UNCHANGED <<prog, host>> /\ StOK(st) /\ Guest = GuestRec(Here, "term", st) /\ run.out = "run"
      /\ G!Ending("tail") /\ G!Blk.t = Term /\ Guest.stack = st.stack /\ (Outermost <=> st.stack = <<>>)
  BY <1>1, AtTerminator
<1> HIDE DEF s
<1>3. CASE Outermost /\ run' = Leave("exit") /\ UNCHANGED <<st, eng>>
  <2>1. EngineInv' /\ Guest' = [Guest EXCEPT !.out = "exit"]
    BY <1>2, <1>3, Exited
  <2>2. G!GTail
    BY <1>2, <1>3, <2>1 DEF G!GTail
  <2> QED  BY <1>2, <2>1, <2>2 DEF GuestStep, G!GNext
<1>4. CASE Outermost /\ Fails
  BY <1>2, <1>4, Failed
<1>5. CASE ~Outermost /\ GoesTo(s, x)
  <2>1. EngineInv' /\ Guest' = G!Goto([Guest EXCEPT !.stack = G!Front(@)], G!Last(Guest.stack))
    BY <1>1, <1>2, <1>5, Returned DEF s
  <2>2. G!GTail
    BY <1>2, <1>5, <2>1 DEF G!GTail
  <2> QED  BY <1>2, <2>1, <2>2 DEF GuestStep, G!GNext
<1>6. CASE Continue(st, Term.to)
  <2>1. EngineInv' /\ Guest' = G!Goto(Guest, Term.to)
    BY <1>1, <1>2, <1>6, AtTerminator, GoneTo, GuestGoes DEF GoesTo
  <2>2. G!GTail
    BY <1>2, <2>1 DEF G!GTail
  <2> QED  BY <1>2, <2>1, <2>2 DEF GuestStep, G!GNext
<1>7. CASE ~Outermost /\ Continue(raise_exception(s, x), G!Trapped)
  <2> DEFINE f == [cc |-> st.cc, s |-> st.s, ret |-> x]
             e == raise_exception(s, x)
             t == [Guest EXCEPT !.stack = Append(G!Front(@), f), !.s = TRUE]
  <2> HIDE DEF x
  <2>1. StOK(s) /\ s.r = st.r /\ s.fp = st.fp /\ s.cc = st.cc /\ s.s = st.s /\ s.stack = G!Front(st.stack)
    <3>1. StOK(s) /\ s = [r |-> st.r, fp |-> st.fp, cc |-> st.cc, s |-> st.s, stack |-> G!Front(st.stack)]
      BY <1>2, <1>7, Popped DEF s
    <3> QED  BY <3>1
  <2>2. StOK(e) /\ e = [r |-> s.r, fp |-> s.fp, cc |-> s.cc, s |-> TRUE,
                        stack |-> Append(s.stack, [cc |-> s.cc, s |-> s.s, ret |-> x])]
    BY <2>1, Raised
  <2>3. Guest' = GuestRec(G!Trapped, "body", e) /\ EngineInv'
    BY <1>1, <1>7, <2>2, AtTerminator, GoneTo DEF GoesTo
  <2>4. /\ HasFields(Guest, GuestNames) /\ Guest.pc = Here /\ Guest.ph = "term" /\ Guest.out = "run"
        /\ Guest.r = st.r /\ Guest.fp = st.fp /\ Guest.cc = st.cc /\ Guest.s = st.s /\ Guest.stack = st.stack
    BY <1>2, GuestByFields
  <2>5. [cc |-> s.cc, s |-> s.s, ret |-> x] = f
    BY <2>1
  <2>6. G!Frame(Guest, x) = f
    BY <2>4 DEF G!Frame
  <2> HIDE DEF f, e
  <2>7. e.r = st.r /\ e.fp = st.fp /\ e.cc = st.cc /\ e.s = TRUE /\ e.stack = Append(G!Front(st.stack), f)
    BY <2>1, <2>2, <2>5
  <2>8. /\ HasFields(t, GuestNames) /\ t.pc = Here /\ t.ph = "term" /\ t.out = "run"
        /\ t.r = st.r /\ t.fp = st.fp /\ t.cc = st.cc /\ t.s = TRUE /\ t.stack = Append(G!Front(st.stack), f)
    BY <2>4 DEF HasFields, GuestNames
  <2> HIDE DEF t
  <2>9. t = GuestRec(Here, "term", e)
    <3>1. t.r = e.r /\ t.fp = e.fp /\ t.cc = e.cc /\ t.s = e.s /\ t.stack = e.stack
      BY <2>7, <2>8
    <3> QED  BY <2>8, <3>1, GuestByFields
  <2>10. Guest' = G!Goto(t, G!Trapped)
    BY <2>3, <2>9, GuestGoes
  <2>11. Guest' = G!Goto([Guest EXCEPT !.stack = Append(G!Front(@), G!Frame(Guest, G!Last(@))), !.s = TRUE], G!Trapped)
    BY <2>4, <2>6, <2>10 DEF t, x
  <2>12. G!GTail
    BY <1>2, <1>7, <2>11 DEF G!GTail
  <2> QED  BY <1>2, <2>3, <2>12 DEF GuestStep, G!GNext
<1> QED  BY <1>1, <1>3, <1>4, <1>5, <1>6, <1>7

-----------------------------------------------------------------------------
(* The theorems *)

\* j5d_engine_new sets the invariant up, in the guest's first state.
LEMMA Starts ==
  ASSUME JitInit
  PROVE  EngineInv /\ G!GInit
<1>1. ShapesInv
  <2>1. IsSeq(<<>>)
    BY DEF IsSeq
  <2>2. StOK(st)
    BY <2>1 DEF JitInit, StOK, HasFields
  <2> QED  BY <2>2 DEF JitInit, ShapesInv, HasFields
<1>2. SlotsInv
  <2>1. SlotsOK(<<>>) /\ Len(<<>>) <= MaxBlocks
    BY JitEngineAssumption DEF SlotsOK
  <2> QED  BY <2>1 DEF JitInit, SlotsInv
<1>3. ControlInv /\ LoadedInv
  BY DEF JitInit, ControlInv, LoadedInv, InHost
<1>4. G!GInit
  <2>1. prog \in Programs /\ run.mode = "top" /\ run.pc = 0 /\ run.out = "run"
        /\ st = [r |-> [n \in G!IntRegs |-> 0], fp |-> [n \in G!FloatRegs |-> n], cc |-> FALSE, s |-> FALSE, stack |-> <<>>]
    BY DEF JitInit
  <2>2. Guest = [pc |-> 0, ph |-> "body", r |-> st.r, fp |-> st.fp, cc |-> st.cc, s |-> st.s, stack |-> st.stack, out |-> "run"]
    BY <2>1 DEF Guest, Here, InHost
  <2> QED  BY <2>1, <2>2 DEF G!GInit
<1> QED  BY <1>1, <1>2, <1>3, <1>4 DEF EngineInv

\* Every step of the engine keeps the invariant and is a step of the guest, or
\* leaves the guest where it is.
LEMMA Steps ==
  ASSUME EngineInv, [JitNext]_jitVars, IndexMod >= MaxBlocks
  PROVE  EngineInv' /\ GuestStep
<1>1. ASSUME UNCHANGED jitVars
      PROVE  EngineInv' /\ GuestStep
  <2>1. prog' = prog /\ st' = st /\ host' = host /\ eng' = eng /\ run' = run
    BY <1>1 DEF jitVars
  <2>2. Here' = Here /\ Guest' = Guest
    BY <2>1 DEF Guest, Here, InHost
  <2>3. ShapesInv'
    BY <2>1 DEF EngineInv, ShapesInv
  <2>4. SlotsInv'
    BY <2>1, SlotsSet DEF EngineInv, SlotsInv
  <2>5. ControlInv' /\ LoadedInv'
    BY <2>1, <2>2 DEF EngineInv, ControlInv, LoadedInv, InHost, IsFp
  <2> QED  BY <2>1, <2>2, <2>3, <2>4, <2>5 DEF EngineInv, GuestStep
<1>2. CASE PollKill
  BY <1>2, PollKillStep
<1>3. CASE OuterEntry
  BY <1>3, OuterEntryStep
<1>4. CASE WildPc
  BY <1>4, WildPcStep
<1>5. CASE PollYield \/ Resume \/ Parked \/ RequestStop
  BY <1>5, DispatcherStep DEF GuestStep
<1>6. CASE SafePointLoad \/ SafePointStore
  BY <1>6, SafePointStep DEF GuestStep
<1>7. CASE FallsBack
  BY <1>7, FallsBackStep DEF GuestStep
<1>8. CASE Body
  BY <1>8, BodyStep
<1>9. CASE Chained
  BY <1>9, ChainedStep
<1>10. CASE DoBranch \/ DoDbcc \/ DoBsr
  BY <1>10, DoBranchStep, DoDbccStep, DoBsrStep
<1>11. CASE DoRts \/ DoTrap \/ DoRte
  BY <1>11, DoRtsStep, DoTrapStep, DoRteStep
<1>12. CASE DoLib \/ DoTail
  BY <1>12, DoLibStep, DoTailStep
<1>13. CASE Over
  BY <1>1, <1>13 DEF Over
<1> QED
  BY <1>1, <1>2, <1>3, <1>4, <1>5, <1>6, <1>7, <1>8, <1>9, <1>10, <1>11, <1>12, <1>13 DEF JitNext, EngineStep

\* The guest cannot tell: whatever programs run, however few blocks the cache
\* holds, wherever the budget runs out and whenever a stop is requested, the
\* engine does what the interpreter does, as long as every block's index can
\* be recorded.
THEOREM EngineImplementsGuest == IndexMod >= MaxBlocks => (JitSpec => GuestUnaware)
<1> SUFFICES ASSUME IndexMod >= MaxBlocks
             PROVE  JitSpec => GuestUnaware
  OBVIOUS
<1>1. JitInit => EngineInv /\ G!GInit
  BY Starts
<1>2. EngineInv /\ [JitNext]_jitVars => EngineInv' /\ [G!GNext]_(G!guestVars)
  BY Steps DEF GuestStep, G!guestVars
<1> QED  BY <1>1, <1>2, PTL DEF JitSpec, GuestUnaware, G!GSpec

\* Patched branches stay live when blocks are added, linked and dropped.
THEOREM BranchesStayLive == IndexMod >= MaxBlocks => (JitSpec => []LinksLive)
<1> SUFFICES ASSUME IndexMod >= MaxBlocks
             PROVE  JitSpec => []LinksLive
  OBVIOUS
<1>1. JitInit => EngineInv
  BY Starts
<1>2. EngineInv /\ [JitNext]_jitVars => EngineInv'
  BY Steps
<1>3. EngineInv => LinksLive
  BY DEF EngineInv, SlotsInv, SlotsOK, LinksLive
<1> QED  BY <1>1, <1>2, <1>3, PTL DEF JitSpec

-----------------------------------------------------------------------------
(* Chains end *)

\* Every block of a chain uses up some of the budget, whatever a stop request
\* does to the budget meanwhile; the dispatcher starts a chain with at most
\* Quantum, and never while a stop is pending.  So at most Quantum blocks run
\* between two looks at the stop request.
BlocksLeft == IF run.mode = "store" THEN run.t ELSE eng.budget
ChainStep ==
  run'.mode \in InHost =>
    IF run.mode \in InHost
    THEN /\ BlocksLeft' <= BlocksLeft
         /\ run.mode = "store" /\ run'.mode = "body" => 0 < BlocksLeft' /\ BlocksLeft' < BlocksLeft
    ELSE ~eng.stop /\ BlocksLeft' <= Quantum
ChainShortens == [][ChainStep]_jitVars

\* The budget is a number of blocks wherever it is counted down.
BudgetInv ==
  /\ HasFields(eng, {"slots", "budget", "yield", "stop", "terminal", "resume"})
  /\ HasFields(run, {"mode", "pc", "at", "t", "base", "out", "late", "stops"})
  /\ run.mode \in InHost => eng.budget \in Nat
  /\ run.mode = "store" => run.t \in Nat

\* The dispatcher's own steps leave no block running.
LEMMA NotInHost ==
  ASSUME BudgetInv, run.mode \notin InHost,
         \/ \E s, pc : Continue(s, pc)
         \/ \E pc : ServedAndFreed(pc)
         \/ \E s, pc : BlockYieldAt(s, pc)
         \/ eng' = eng /\ \E o : run' = Leave(o)
  PROVE  BudgetInv' /\ ChainStep
<1>1. CASE \E s, pc : Continue(s, pc)
  <2>1. PICK s, pc : Continue(s, pc)
    BY <1>1
  <2> DEFINE slots == link_if_resolved(eng.slots, Last1, pc)
  <2>2. eng' = [eng EXCEPT !.slots = slots] /\ run' = [run EXCEPT !.mode = "top", !.pc = pc]
    BY <2>1 DEF Continue
  <2> HIDE DEF slots
  <2> QED  BY <2>2 DEF BudgetInv, HasFields, ChainStep, InHost
<1>2. CASE \E pc : ServedAndFreed(pc)
  BY <1>2 DEF ServedAndFreed, BudgetInv, HasFields, ChainStep, InHost
<1>3. CASE \E s, pc : BlockYieldAt(s, pc)
  BY <1>3 DEF BlockYieldAt, BudgetInv, HasFields, ChainStep, InHost
<1>4. CASE eng' = eng /\ \E o : run' = Leave(o)
  BY <1>4 DEF Leave, BudgetInv, HasFields, ChainStep, InHost
<1> QED  BY <1>1, <1>2, <1>3, <1>4

\* Nor does the decoding of a terminator.
LEMMA TerminatorsEnd ==
  ASSUME BudgetInv, DoBranch \/ DoDbcc \/ DoBsr \/ DoRts \/ DoTrap \/ DoRte \/ DoLib \/ DoTail
  PROVE  BudgetInv' /\ ChainStep
<1>1. run.mode \notin InHost
  BY DEF DoBranch, DoDbcc, DoBsr, DoRts, DoTrap, DoRte, DoLib, DoTail, Decoding, In, InHost
<1>2. CASE DoBranch \/ DoDbcc \/ DoBsr
  BY <1>1, <1>2, NotInHost DEF DoBranch, DoDbcc, DoBsr, Fails
<1>3. CASE DoRts \/ DoTrap \/ DoRte
  BY <1>1, <1>3, NotInHost DEF DoRts, DoTrap, DoRte, Fails
<1>4. CASE DoLib
  BY <1>1, <1>4, NotInHost DEF DoLib, Fails
<1>5. CASE DoTail
  BY <1>1, <1>5, NotInHost DEF DoTail, Fails
<1> QED  BY <1>2, <1>3, <1>4, <1>5

\* Every step of the engine keeps the budget a number, and counts it down.
LEMMA BudgetSteps ==
  ASSUME BudgetInv, [JitNext]_jitVars
  PROVE  BudgetInv' /\ [ChainStep]_jitVars
<1>0. Quantum \in Nat
  BY JitEngineAssumption
<1>1. CASE UNCHANGED jitVars
  BY <1>1 DEF jitVars, BudgetInv
<1>2. CASE Over
  BY <1>2 DEF Over, jitVars, BudgetInv
<1>3. CASE PollKill \/ PollYield \/ Resume \/ Parked
  <2>1. CASE PollKill
    BY <2>1 DEF PollKill, Leave, In, BudgetInv, HasFields, ChainStep, InHost
  <2>2. CASE PollYield
    BY <2>2 DEF PollYield, In, BudgetInv, HasFields, ChainStep, InHost
  <2>3. CASE Resume
    <3> DEFINE b == IF eng.resume # <<>> THEN eng.resume[1] ELSE Len(st.stack)
    <3>1. run' = [run EXCEPT !.mode = "top", !.base = b] /\ eng' = [eng EXCEPT !.resume = <<>>]
      BY <2>3 DEF Resume
    <3> HIDE DEF b
    <3> QED  BY <3>1 DEF BudgetInv, HasFields, ChainStep, InHost
  <2>4. CASE Parked
    BY <2>4 DEF Parked, In, BudgetInv, HasFields, ChainStep, InHost
  <2> QED  BY <1>3, <2>1, <2>2, <2>3, <2>4
<1>4. CASE WildPc
  <2>1. CASE NoRoom
    BY <1>4, <2>1, NotInHost DEF WildPc, In, InHost, Fails
  <2>2. CASE ~NoRoom
    BY <1>4, <2>2 DEF WildPc, In, BudgetInv, HasFields, ChainStep, InHost
  <2> QED  BY <2>1, <2>2
<1>5. CASE OuterEntry
  <2> DEFINE slots == Cached(eng.slots, run.pc)
             k == Slot(slots, run.pc)
  <2>1. CASE Len(slots) > MaxBlocks
    BY <1>5, <2>1, NotInHost DEF OuterEntry, In, InHost
  <2>2. CASE ~(Len(slots) > MaxBlocks)
    <3>1. /\ eng' = [eng EXCEPT !.slots = slots, !.budget = Quantum, !.terminal = k - 1]
          /\ run' = [run EXCEPT !.mode = "load", !.at = k] /\ ~eng.stop /\ run.mode = "top"
      BY <1>5, <2>2 DEF OuterEntry, In
    <3> HIDE DEF slots, k
    <3>2. HasFields(eng, DOMAIN eng)' /\ DOMAIN eng' = DOMAIN eng /\ eng'.budget = Quantum
      BY <3>1 DEF BudgetInv, HasFields
    <3>3. HasFields(run, DOMAIN run)' /\ DOMAIN run' = DOMAIN run /\ run'.mode = "load"
      BY <3>1 DEF BudgetInv, HasFields
    <3>4. BudgetInv'
      BY <1>0, <3>2, <3>3 DEF BudgetInv, HasFields
    <3>5. BlocksLeft' = Quantum
      BY <3>2, <3>3 DEF BlocksLeft
    <3> QED  BY <1>0, <3>1, <3>4, <3>5 DEF ChainStep, InHost
  <2> QED  BY <2>1, <2>2
<1>6. CASE SafePointLoad
  <2>1. run' = [run EXCEPT !.mode = "store", !.t = eng.budget] /\ eng' = eng /\ run.mode = "load"
    BY <1>6 DEF SafePointLoad, In
  <2>2. DOMAIN run' = DOMAIN run /\ HasFields(run, DOMAIN run)' /\ run'.mode = "store" /\ run'.t = eng.budget
    BY <2>1 DEF BudgetInv, HasFields
  <2>3. eng.budget \in Nat
    BY <2>1 DEF BudgetInv, InHost
  <2>4. BudgetInv'
    BY <2>1, <2>2, <2>3 DEF BudgetInv, HasFields
  <2>5. BlocksLeft' = eng.budget /\ BlocksLeft = eng.budget
    BY <2>1, <2>2 DEF BlocksLeft
  <2> QED  BY <2>1, <2>2, <2>3, <2>4, <2>5 DEF ChainStep, InHost
<1>7. CASE SafePointStore
  <2>0. run.mode = "store" /\ run.t \in Nat
    BY <1>7 DEF SafePointStore, In, BudgetInv
  <2>1. CASE run.t - 1 > 0
    <3>1. eng' = [eng EXCEPT !.budget = run.t - 1] /\ run' = [run EXCEPT !.mode = "body"]
      BY <1>7, <2>1 DEF SafePointStore
    <3> QED  BY <2>0, <2>1, <3>1 DEF BudgetInv, HasFields, ChainStep, BlocksLeft, InHost
  <2>2. CASE ~(run.t - 1 > 0)
    <3>1. /\ eng' = [eng EXCEPT !.budget = run.t - 1, !.yield = <<Here>>, !.terminal = Terminal]
          /\ run' = [run EXCEPT !.mode = "returned"]
      BY <1>7, <2>2 DEF SafePointStore, Epilogue
    <3> QED  BY <3>1 DEF BudgetInv, HasFields, ChainStep, InHost
  <2> QED  BY <2>1, <2>2
<1>8. CASE Body
  <2> DEFINE late == IF eng.stop THEN IF run.late < 2 THEN run.late + 1 ELSE run.late ELSE 0
  <2>1. run' = [run EXCEPT !.mode = "tail", !.late = late] /\ eng' = eng /\ run.mode = "body"
    BY <1>8 DEF Body, In
  <2> HIDE DEF late
  <2>2. DOMAIN run' = DOMAIN run /\ HasFields(run, DOMAIN run)' /\ run'.mode = "tail"
    BY <2>1 DEF BudgetInv, HasFields
  <2>3. eng.budget \in Nat
    BY <2>1 DEF BudgetInv, InHost
  <2>4. BudgetInv'
    BY <2>1, <2>2, <2>3 DEF BudgetInv, HasFields
  <2>5. BlocksLeft' = eng.budget /\ BlocksLeft = eng.budget
    BY <2>1, <2>2 DEF BlocksLeft
  <2> QED  BY <2>1, <2>2, <2>3, <2>4, <2>5 DEF ChainStep, InHost
<1>9. CASE Chained
  <2> DEFINE k == Hop(run.at)
  <2>1. run' = [run EXCEPT !.mode = "load", !.at = k] /\ eng' = eng /\ run.mode = "tail"
    BY <1>9 DEF Chained, In
  <2> HIDE DEF k
  <2>2. DOMAIN run' = DOMAIN run /\ HasFields(run, DOMAIN run)' /\ run'.mode = "load"
    BY <2>1 DEF BudgetInv, HasFields
  <2>3. eng.budget \in Nat
    BY <2>1 DEF BudgetInv, InHost
  <2>4. BudgetInv'
    BY <2>1, <2>2, <2>3 DEF BudgetInv, HasFields
  <2>5. BlocksLeft' = eng.budget /\ BlocksLeft = eng.budget
    BY <2>1, <2>2 DEF BlocksLeft
  <2> QED  BY <2>1, <2>2, <2>3, <2>4, <2>5 DEF ChainStep, InHost
<1>10. CASE FallsBack
  <2>1. run' = [run EXCEPT !.mode = "returned"] /\ eng' = [eng EXCEPT !.terminal = Terminal]
    BY <1>10 DEF FallsBack, Epilogue
  <2> QED  BY <2>1 DEF BudgetInv, HasFields, ChainStep, InHost
<1>11. CASE RequestStop
  <2>1. /\ eng' = [eng EXCEPT !.stop = TRUE, !.budget = 0]
        /\ run' = [run EXCEPT !.stops = @ + 1, !.late = 0]
    BY <1>11 DEF RequestStop
  <2>2. DOMAIN eng' = DOMAIN eng /\ HasFields(eng, DOMAIN eng)' /\ eng'.budget = 0
    BY <2>1 DEF BudgetInv, HasFields
  <2>3. DOMAIN run' = DOMAIN run /\ HasFields(run, DOMAIN run)' /\ run'.mode = run.mode /\ run'.t = run.t
    BY <2>1 DEF BudgetInv, HasFields
  <2>4. BudgetInv'
    BY <2>2, <2>3 DEF BudgetInv, HasFields
  <2>5. BlocksLeft' = IF run.mode = "store" THEN run.t ELSE 0
    BY <2>2, <2>3 DEF BlocksLeft
  <2>6. run.mode \in InHost => BlocksLeft \in Nat /\ BlocksLeft' <= BlocksLeft
    BY <2>5 DEF BudgetInv, BlocksLeft, InHost
  <2> QED  BY <2>3, <2>4, <2>6 DEF ChainStep
<1>12. CASE DoBranch \/ DoDbcc \/ DoBsr \/ DoRts \/ DoTrap \/ DoRte \/ DoLib \/ DoTail
  BY <1>12, TerminatorsEnd
<1> QED
  BY <1>1, <1>2, <1>3, <1>4, <1>5, <1>6, <1>7, <1>8, <1>9, <1>10, <1>11, <1>12 DEF JitNext, EngineStep

\* A stop request is looked at again after at most Quantum blocks, although the
\* safe point counts the budget down without a lock (the block prologue and
\* j5d_request_stop in j5d_engine.c).
THEOREM ChainsEnd == JitSpec => ChainShortens
<1>1. JitInit => BudgetInv
  BY DEF JitInit, BudgetInv, HasFields, InHost
<1>2. BudgetInv /\ [JitNext]_jitVars => BudgetInv' /\ [ChainStep]_jitVars
  BY BudgetSteps
<1> QED  BY <1>1, <1>2, PTL DEF JitSpec, ChainShortens

-----------------------------------------------------------------------------
(* FP blocks: what one instruction does *)

Operations == Monadic \cup Dyadic \cup {"FCMP", "FTST", "FMOVECR", "FSINCOS"}
Others     == {"INT", "TOMEM"}
Names == Operations \cup Others \cup Consumers \cup {"Bcc", "FNOP"}
Words == [op : Names, dst : FpRegs, k : {"fp", "dn", "an", "ind", "post", "pre", "none", "imm"}, r : Nat,
          cos : FpRegs, look : BOOLEAN, pred : Nat, mask : SUBSET Nat]
Insns == {i \in Words : i.op \in Operations \cup Others /\ (i.k = "fp" => i.r \in FpRegs)}

\* A state has its fields, whatever they hold.
Whole(s) ==
  /\ s = [fp |-> s.fp, d |-> s.d, a |-> s.a, mem |-> s.mem, cc |-> s.cc, exc |-> s.exc, aexc |-> s.aexc,
          single |-> s.single, enabled |-> s.enabled, trap |-> s.trap, ctl |-> s.ctl, pc |-> s.pc]
  /\ s.fp = [n \in FpRegs |-> s.fp[n]]

\* What an operation writes to a register, and what its flags are taken from.
Fetched(s, i) == FPU_FetchData(s, i).v
Value(s, i, n) ==
  IF i.op = "FMOVECR" THEN 1
  ELSE IF i.op = "FSINCOS" THEN Call(IF n = i.dst THEN "FSIN" ELSE "FCOS", Fetched(s, i))
  ELSE Evaluate(i.op, s.fp[i.dst], Fetched(s, i)).v
Codes(s, i) ==
  IF i.op = "FCMP" THEN Compare2(s.fp[i.dst], Fetched(s, i))
  ELSE IF i.op = "FTST" THEN Compare2(Fetched(s, i), 0)
  ELSE Compare2(Value(s, i, i.dst), 0)
Raises(s, i) ==
  IF i.op \in (Monadic \cup Dyadic) \ {"FMOVE"} THEN Evaluate(i.op, s.fp[i.dst], Fetched(s, i)).e ELSE {}

\* The names of the library functions.
LEMMA LibmNames ==
  LibmOps = {"FSIN", "FCOS", "FTAN", "FASIN", "FACOS", "FATAN", "FSINH", "FCOSH", "FTANH", "FATANH",
             "FETOX", "FETOXM1", "FTWOTOX", "FTENTOX", "FLOGN", "FLOGNP1", "FLOG10", "FLOG2",
             "FGETEXP", "FGETMAN"}
<1>1. DOMAIN Libm = 1 .. 20
  BY DEF Libm
<1>2. \A k \in 1 .. 20 : \/ k = 1 \/ k = 2 \/ k = 3 \/ k = 4 \/ k = 5 \/ k = 6 \/ k = 7 \/ k = 8 \/ k = 9 \/ k = 10
                         \/ k = 11 \/ k = 12 \/ k = 13 \/ k = 14 \/ k = 15 \/ k = 16 \/ k = 17 \/ k = 18 \/ k = 19 \/ k = 20
  OBVIOUS
<1> QED  BY <1>1, <1>2 DEF LibmOps, Libm

\* A monadic operation does not look at its destination.
LEMMA MonadicIgnores ==
  ASSUME NEW op \in Monadic, NEW d, NEW e, NEW v
  PROVE  Evaluate(op, d, v) = Evaluate(op, e, v)
<1>1. CASE op \in LibmOps
  <2>1. op \notin {"FABS", "FNEG", "FMOVE", "FINT", "FINTRZ", "FSQRT", "FADD", "FSUB", "FMUL", "FDIV",
                   "FSGLMUL", "FSGLDIV", "FMOD", "FREM", "FSCALE"}
    BY <1>1, LibmNames
  <2> QED  BY <1>1, <2>1 DEF Evaluate
<1>2. CASE op \notin LibmOps
  BY <1>2 DEF Evaluate, Monadic
<1> QED  BY <1>1, <1>2

\* The emitter of a monadic operation.
LEMMA EmitsMonadic ==
  ASSUME NEW h, NEW i, NEW need, i.op \in Monadic
  PROVE  EMIT_FPU(h, i, need) = OneSource(h, i, i.op, need)
<1>1. CASE i.op \in {"FSIN", "FCOS", "FTAN", "FASIN", "FACOS", "FATAN", "FSINH"}
  BY <1>1 DEF EMIT_FPU, EMIT_FSIN, EMIT_FCOS, EMIT_FTAN, EMIT_FASIN, EMIT_FACOS, EMIT_FATAN, EMIT_FSINH, ViaLibm
<1>2. CASE i.op \in {"FCOSH", "FTANH", "FATANH", "FETOX", "FETOXM1", "FTWOTOX", "FTENTOX"}
  BY <1>2 DEF EMIT_FPU, EMIT_FCOSH, EMIT_FTANH, EMIT_FATANH, EMIT_FETOX, EMIT_FETOXM1, EMIT_FTWOTOX, EMIT_FTENTOX,
    ViaLibm
<1>3. CASE i.op \in {"FLOGN", "FLOGNP1", "FLOG10", "FLOG2", "FGETEXP", "FGETMAN"}
  BY <1>3 DEF EMIT_FPU, EMIT_FLOGN, EMIT_FLOGNP1, EMIT_FLOG10, EMIT_FLOG2, EMIT_FGETEXP, EMIT_FGETMAN, ViaLibm
<1>4. CASE i.op \in {"FMOVE", "FABS", "FNEG", "FSQRT", "FINT", "FINTRZ"}
  BY <1>4 DEF EMIT_FPU, EMIT_FMOVE, EMIT_FABS, EMIT_FNEG, EMIT_FSQRT, EMIT_FINT, EMIT_FINTRZ
<1> QED  BY <1>1, <1>2, <1>3, <1>4, LibmNames DEF Monadic

\* The emitter of a dyadic one; a scale that is not by FP0 reads its source.
LEMMA EmitsDyadic ==
  ASSUME NEW h, NEW i, NEW need, i.op \in Dyadic,
         i.op = "FSCALE" => ~(i.k = "fp" /\ i.r = 0)
  PROVE  EMIT_FPU(h, i, need) = TwoSources(h, i, i.op, need)
<1>1. CASE i.op = "FSCALE"
  <2>1. EMIT_FPU(h, i, need) = EMIT_FSCALE(h, i, need)
    BY <1>1 DEF EMIT_FPU
  <2>2. \A d, v : Evaluate("FSCALE", d, v) = Fscale(d, v)
    BY LibmNames DEF Evaluate
  <2> QED  BY <1>1, <2>1, <2>2 DEF EMIT_FSCALE, TwoSources
<1>2. CASE i.op # "FSCALE"
  BY <1>2 DEF EMIT_FPU, Dyadic, EMIT_FADD, EMIT_FSUB, EMIT_FMUL, EMIT_FDIV, EMIT_FSGLMUL, EMIT_FSGLDIV, EMIT_FMOD,
    EMIT_FREM
<1> QED  BY <1>1, <1>2

\* An operation whose operands the register map and the second walk get right.
Plain(i) ==
  /\ i \in Insns /\ i.op \in Operations /\ i.k \notin {"post", "pre"}
  /\ i.op = "FSCALE" => ~(i.k = "fp" /\ i.r = 0)
  /\ i.op = "FSINCOS" => i.cos # i.dst
\* Everything but the FP registers, their flags and the exceptions.
SameRest(e, s) ==
  /\ e.d = s.d /\ e.a = s.a /\ e.mem = s.mem /\ e.single = s.single /\ e.enabled = s.enabled
  /\ e.trap = s.trap /\ e.ctl = s.ctl /\ e.pc = s.pc
Emitted(e, h, i, need) ==
  /\ Whole(e) /\ SameRest(e, h) /\ e.exc = h.exc /\ e.aexc = h.aexc
  /\ \A n \in FpRegs : e.fp[n] = IF n \in MapsForWrite(i) THEN Value(h, i, n) ELSE h.fp[n]
  /\ e.cc = IF need THEN Codes(h, i) ELSE h.cc

LEMMA ResultIs ==
  ASSUME NEW h, NEW i \in Insns, NEW v, NEW need, Whole(h)
  PROVE  LET e == Result(h, i, v, need)
         IN  /\ Whole(e) /\ SameRest(e, h) /\ e.exc = h.exc /\ e.aexc = h.aexc
             /\ \A n \in FpRegs : e.fp[n] = IF n = i.dst THEN v ELSE h.fp[n]
             /\ e.cc = IF need THEN Compare2(v, 0) ELSE h.cc
<1> DEFINE e == Result(h, i, v, need)
           f == [h.fp EXCEPT ![i.dst] = v]
           c == IF need THEN Compare2(v, 0) ELSE h.cc
<1>1. e = [h EXCEPT !.fp = f, !.cc = c]
  BY DEF Result, Whole
<1>2. f = [n \in FpRegs |-> f[n]] /\ \A n \in FpRegs : f[n] = IF n = i.dst THEN v ELSE h.fp[n]
  BY DEF Whole, Insns, Words
<1> HIDE DEF f, c, e
<1>3. Whole(e) /\ SameRest(e, h) /\ e.exc = h.exc /\ e.aexc = h.aexc /\ e.fp = f /\ e.cc = c
  <2>1. e = [fp |-> f, d |-> h.d, a |-> h.a, mem |-> h.mem, cc |-> c, exc |-> h.exc, aexc |-> h.aexc,
             single |-> h.single, enabled |-> h.enabled, trap |-> h.trap, ctl |-> h.ctl, pc |-> h.pc]
    BY <1>1 DEF Whole
  <2> QED  BY <2>1, <1>2 DEF Whole, SameRest
<1> QED  BY <1>2, <1>3 DEF c, e

\* A translated operation computes in the registers it writes, and computes the
\* flags only when they are needed.
LEMMA Emits ==
  ASSUME NEW h, NEW i, NEW need, Whole(h), Plain(i)
  PROVE  Emitted(EMIT_FPU(h, i, need), h, i, need)
<1> USE DEF Plain
<1>1. FPU_FetchData(h, i).s = h
  BY DEF FPU_FetchData, Stepped
<1>2. CASE i.op \in Monadic
  <2>1. i.op \notin {"FCMP", "FTST", "FMOVECR", "FSINCOS"}
    BY <1>2, LibmNames DEF Monadic
  <2>2. EMIT_FPU(h, i, need) = Result(h, i, Value(h, i, i.dst), need)
    BY <1>1, <1>2, <2>1, EmitsMonadic, MonadicIgnores DEF OneSource, Value, Fetched
  <2>3. Codes(h, i) = Compare2(Value(h, i, i.dst), 0) /\ MapsForWrite(i) = {i.dst}
    BY <1>2, <2>1 DEF Codes, MapsForWrite
  <2> QED  BY <2>2, <2>3, ResultIs DEF Emitted
<1>3. CASE i.op \in Dyadic
  <2>1. i.op \notin {"FCMP", "FTST", "FMOVECR", "FSINCOS"}
    BY <1>3 DEF Dyadic
  <2>2. EMIT_FPU(h, i, need) = Result(h, i, Value(h, i, i.dst), need)
    BY <1>1, <1>3, <2>1, EmitsDyadic DEF TwoSources, Value, Fetched
  <2>3. Codes(h, i) = Compare2(Value(h, i, i.dst), 0) /\ MapsForWrite(i) = {i.dst}
    BY <1>3, <2>1 DEF Codes, MapsForWrite
  <2> QED  BY <2>2, <2>3, ResultIs DEF Emitted
<1>4. CASE i.op = "FMOVECR"
  <2>1. EMIT_FPU(h, i, need) = Result(h, i, Value(h, i, i.dst), need)
    BY <1>4 DEF EMIT_FPU, EMIT_FMOVECR, Value
  <2>2. Codes(h, i) = Compare2(Value(h, i, i.dst), 0) /\ MapsForWrite(i) = {i.dst}
    BY <1>4 DEF Codes, MapsForWrite
  <2> QED  BY <2>1, <2>2, ResultIs DEF Emitted
<1>5. CASE i.op = "FSINCOS"
  <2> DEFINE g == [h EXCEPT !.fp[i.cos] = Value(h, i, i.cos)]
  <2>1. EMIT_FPU(h, i, need) = Result(g, i, Value(h, i, i.dst), need)
    BY <1>1, <1>5 DEF EMIT_FPU, EMIT_FSINCOS, Value, Fetched, Whole
  <2>2. Codes(h, i) = Compare2(Value(h, i, i.dst), 0) /\ MapsForWrite(i) = {i.dst, i.cos}
    BY <1>5, LibmNames DEF Codes, MapsForWrite, Monadic, Dyadic
  <2>3. Whole(g) /\ SameRest(g, h) /\ g.exc = h.exc /\ g.aexc = h.aexc /\ g.cc = h.cc
        /\ \A n \in FpRegs : g.fp[n] = IF n = i.cos THEN Value(h, i, i.cos) ELSE h.fp[n]
    <3> HIDE DEF Plain
    <3>1. i.cos \in FpRegs
      BY DEF Plain, Insns, Words
    <3> DEFINE v == Value(h, i, i.cos)
               f == [h.fp EXCEPT ![i.cos] = v]
    <3>2. f = [n \in FpRegs |-> f[n]] /\ \A n \in FpRegs : f[n] = IF n = i.cos THEN v ELSE h.fp[n]
      BY <3>1 DEF Whole
    <3>3. g = [h EXCEPT !.fp = f]
      BY DEF Whole
    <3> HIDE DEF f, g, v
    <3>4. g = [fp |-> f, d |-> h.d, a |-> h.a, mem |-> h.mem, cc |-> h.cc, exc |-> h.exc, aexc |-> h.aexc,
               single |-> h.single, enabled |-> h.enabled, trap |-> h.trap, ctl |-> h.ctl, pc |-> h.pc]
      BY <3>3 DEF Whole
    <3>5. Whole(g) /\ SameRest(g, h) /\ g.exc = h.exc /\ g.aexc = h.aexc /\ g.cc = h.cc /\ g.fp = f
      BY <3>2, <3>4 DEF Whole, SameRest
    <3> QED  BY <3>2, <3>5 DEF v
  <2> HIDE DEF g
  <2> DEFINE e == Result(g, i, Value(h, i, i.dst), need)
  <2>4. /\ Whole(e) /\ SameRest(e, g) /\ e.exc = g.exc /\ e.aexc = g.aexc
        /\ \A n \in FpRegs : e.fp[n] = IF n = i.dst THEN Value(h, i, i.dst) ELSE g.fp[n]
        /\ e.cc = IF need THEN Compare2(Value(h, i, i.dst), 0) ELSE g.cc
    BY <2>3, ResultIs
  <2> HIDE DEF e
  <2>5. \A n \in FpRegs : e.fp[n] = IF n \in MapsForWrite(i) THEN Value(h, i, n) ELSE h.fp[n]
    BY <2>2, <2>3, <2>4
  <2>6. SameRest(e, h) /\ e.exc = h.exc /\ e.aexc = h.aexc /\ (e.cc = IF need THEN Codes(h, i) ELSE h.cc)
    BY <2>2, <2>3, <2>4 DEF SameRest
  <2> QED  BY <2>1, <2>4, <2>5, <2>6 DEF Emitted, e
<1>6. CASE i.op \in {"FCMP", "FTST"}
  <2>1. MapsForWrite(i) = {}
    BY <1>6, LibmNames DEF MapsForWrite, Monadic, Dyadic
  <2>2. EMIT_FPU(h, i, need) = [h EXCEPT !.cc = IF need THEN Codes(h, i) ELSE @]
    BY <1>1, <1>6 DEF EMIT_FPU, EMIT_FCMP, EMIT_FTST, Codes, Fetched
  <2> DEFINE c == IF need THEN Codes(h, i) ELSE h.cc
             e == EMIT_FPU(h, i, need)
  <2>3. e = [h EXCEPT !.cc = c]
    BY <2>2
  <2> HIDE DEF c, e
  <2>4. e = [fp |-> h.fp, d |-> h.d, a |-> h.a, mem |-> h.mem, cc |-> c, exc |-> h.exc, aexc |-> h.aexc,
             single |-> h.single, enabled |-> h.enabled, trap |-> h.trap, ctl |-> h.ctl, pc |-> h.pc]
    BY <2>3 DEF Whole
  <2>5. Whole(e) /\ SameRest(e, h) /\ e.exc = h.exc /\ e.aexc = h.aexc /\ e.fp = h.fp /\ e.cc = c
    BY <2>4 DEF Whole, SameRest
  <2> QED  BY <2>1, <2>5 DEF Emitted, c, e
<1> QED  BY <1>2, <1>3, <1>4, <1>5, <1>6 DEF Operations

\* The interpreter rounds, always sets the flags, and notes the exceptions.
Rounded(s, v) == IF s.single THEN Single(v) ELSE v
RoundedCodes(s, i) ==
  IF i.op \in {"FCMP", "FTST", "FMOVECR"} THEN Codes(s, i) ELSE Compare2(Rounded(s, Value(s, i, i.dst)), 0)
Executed(e, s, i) ==
  /\ Whole(e) /\ SameRest(e, s) /\ e.exc = Raises(s, i) /\ e.aexc = s.aexc \cup Accrued(Raises(s, i))
  /\ \A n \in FpRegs : e.fp[n] = IF n \in MapsForWrite(i) THEN Rounded(s, Value(s, i, n)) ELSE s.fp[n]
  /\ e.cc = RoundedCodes(s, i)

LEMMA Interprets ==
  ASSUME NEW s, NEW i, Whole(s), Plain(i)
  PROVE  Executed(Interpret(s, i), s, i)
<1> USE DEF Plain
<1>1. FPU_FetchData(s, i).s = s
  BY DEF FPU_FetchData, Stepped
<1>2. i.dst \in FpRegs /\ i.cos \in FpRegs
  BY DEF Insns, Words
<1> DEFINE e == Interpret(s, i)
           x == Raises(s, i)
           y == s.aexc \cup Accrued(x)
           v(n) == Rounded(s, Value(s, i, n))
<1>3. CASE i.op \in Monadic \cup Dyadic
  <2>1. i.op \notin {"FCMP", "FTST", "FMOVECR", "FSINCOS", "TOMEM", "INT"}
    BY <1>3, LibmNames DEF Monadic, Dyadic
  <2> DEFINE f == [s.fp EXCEPT ![i.dst] = v(i.dst)]
             c == Compare2(v(i.dst), 0)
  <2>2. e = [s EXCEPT !.fp = f, !.cc = c, !.exc = x, !.aexc = y]
    <3>1. Value(s, i, i.dst) = Evaluate(i.op, s.fp[i.dst], Fetched(s, i)).v
          /\ x = IF i.op = "FMOVE" THEN {} ELSE Evaluate(i.op, s.fp[i.dst], Fetched(s, i)).e
      BY <1>3, <2>1 DEF Value, Raises
    <3> HIDE DEF x
    <3>2. e = [[s EXCEPT !.fp[i.dst] = v(i.dst), !.cc = c] EXCEPT !.exc = x, !.aexc = @ \cup Accrued(x)]
      BY <1>1, <1>3, <2>1, <3>1 DEF Interpret, Fetched, Rounded
    <3> HIDE DEF e, v, c
    <3> QED  BY <3>2 DEF Whole
  <2>3. f = [n \in FpRegs |-> f[n]] /\ \A n \in FpRegs : f[n] = IF n = i.dst THEN v(i.dst) ELSE s.fp[n]
    BY <1>2 DEF Whole
  <2>4. RoundedCodes(s, i) = c /\ MapsForWrite(i) = {i.dst}
    BY <1>3, <2>1 DEF RoundedCodes, MapsForWrite
  <2> HIDE DEF f, c, x, y, e
  <2>5. e = [fp |-> f, d |-> s.d, a |-> s.a, mem |-> s.mem, cc |-> c, exc |-> x, aexc |-> y,
             single |-> s.single, enabled |-> s.enabled, trap |-> s.trap, ctl |-> s.ctl, pc |-> s.pc]
    BY <2>2 DEF Whole
  <2>6. Whole(e) /\ SameRest(e, s) /\ e.fp = f /\ e.cc = c /\ e.exc = x /\ e.aexc = y
    BY <2>3, <2>5 DEF Whole, SameRest
  <2> QED  BY <2>3, <2>4, <2>6 DEF Executed, x, y, e
<1>4. CASE i.op = "FSINCOS"
  <2> DEFINE f == [s.fp EXCEPT ![i.dst] = v(i.dst), ![i.cos] = v(i.cos)]
             c == Compare2(v(i.dst), 0)
  <2>1. i.op \notin Monadic \cup Dyadic
    BY <1>4, LibmNames DEF Monadic, Dyadic
  <2>2. e = [s EXCEPT !.fp = f, !.cc = c, !.exc = x, !.aexc = y]
    <3>1. Value(s, i, i.dst) = Call("FSIN", Fetched(s, i)) /\ Value(s, i, i.cos) = Call("FCOS", Fetched(s, i))
          /\ x = {}
      BY <1>4, <2>1 DEF Value, Raises
    <3> HIDE DEF x
    <3>2. e = [[s EXCEPT !.fp = [@ EXCEPT ![i.dst] = v(i.dst), ![i.cos] = v(i.cos)], !.cc = c]
                 EXCEPT !.exc = x, !.aexc = @ \cup Accrued(x)]
      BY <1>1, <1>4, <2>1, <3>1 DEF Interpret, Fetched, Rounded
    <3> HIDE DEF e, v, c
    <3> QED  BY <3>2 DEF Whole
  <2>3. f = [n \in FpRegs |-> f[n]]
        /\ \A n \in FpRegs : f[n] = IF n = i.dst \/ n = i.cos THEN v(n) ELSE s.fp[n]
    <3> HIDE DEF v
    <3> QED  BY <1>2, <1>4 DEF Whole
  <2>4. RoundedCodes(s, i) = c /\ MapsForWrite(i) = {i.dst, i.cos}
    BY <1>4, <2>1 DEF RoundedCodes, MapsForWrite
  <2> HIDE DEF f, c, x, y, e
  <2>5. e = [fp |-> f, d |-> s.d, a |-> s.a, mem |-> s.mem, cc |-> c, exc |-> x, aexc |-> y,
             single |-> s.single, enabled |-> s.enabled, trap |-> s.trap, ctl |-> s.ctl, pc |-> s.pc]
    BY <2>2 DEF Whole
  <2>6. Whole(e) /\ SameRest(e, s) /\ e.fp = f /\ e.cc = c /\ e.exc = x /\ e.aexc = y
    BY <2>3, <2>5 DEF Whole, SameRest
  <2> QED  BY <2>3, <2>4, <2>6 DEF Executed, x, y, e
<1>5. CASE i.op = "FMOVECR"
  <2> DEFINE f == [s.fp EXCEPT ![i.dst] = v(i.dst)]
             c == Compare2(1, 0)
  <2>1. i.op \notin Monadic \cup Dyadic
    BY <1>5, LibmNames DEF Monadic, Dyadic
  <2>2. e = [s EXCEPT !.fp = f, !.cc = c, !.exc = x, !.aexc = y]
    <3>1. Value(s, i, i.dst) = 1 /\ x = {}
      BY <1>5, <2>1 DEF Value, Raises
    <3> HIDE DEF x
    <3>2. e = [[s EXCEPT !.fp[i.dst] = v(i.dst), !.cc = c] EXCEPT !.exc = x, !.aexc = @ \cup Accrued(x)]
      BY <1>5, <2>1, <3>1 DEF Interpret, Rounded
    <3> HIDE DEF e, v, c
    <3> QED  BY <3>2 DEF Whole
  <2>3. f = [n \in FpRegs |-> f[n]] /\ \A n \in FpRegs : f[n] = IF n = i.dst THEN v(i.dst) ELSE s.fp[n]
    BY <1>2 DEF Whole
  <2>4. RoundedCodes(s, i) = c /\ MapsForWrite(i) = {i.dst}
    BY <1>5, <2>1 DEF RoundedCodes, MapsForWrite, Codes, Value
  <2> HIDE DEF f, c, x, y, e
  <2>5. e = [fp |-> f, d |-> s.d, a |-> s.a, mem |-> s.mem, cc |-> c, exc |-> x, aexc |-> y,
             single |-> s.single, enabled |-> s.enabled, trap |-> s.trap, ctl |-> s.ctl, pc |-> s.pc]
    BY <2>2 DEF Whole
  <2>6. Whole(e) /\ SameRest(e, s) /\ e.fp = f /\ e.cc = c /\ e.exc = x /\ e.aexc = y
    BY <2>3, <2>5 DEF Whole, SameRest
  <2> QED  BY <2>3, <2>4, <2>6 DEF Executed, x, y, e
<1>6. CASE i.op \in {"FCMP", "FTST"}
  <2> DEFINE c == Codes(s, i)
  <2>1. i.op \notin Monadic \cup Dyadic
    BY <1>6, LibmNames DEF Monadic, Dyadic
  <2>2. e = [s EXCEPT !.fp = s.fp, !.cc = c, !.exc = x, !.aexc = y]
    <3>1. x = {}
      BY <1>6, <2>1 DEF Raises
    <3> HIDE DEF x
    <3>2. e = [[s EXCEPT !.cc = c] EXCEPT !.exc = x, !.aexc = @ \cup Accrued(x)]
      BY <1>1, <1>6, <2>1, <3>1 DEF Interpret, Fetched, Codes
    <3> HIDE DEF e, c
    <3> QED  BY <3>2 DEF Whole
  <2>3. s.fp = [n \in FpRegs |-> s.fp[n]]
    BY DEF Whole
  <2>4. RoundedCodes(s, i) = c /\ MapsForWrite(i) = {}
    BY <1>6, <2>1 DEF RoundedCodes, MapsForWrite
  <2> HIDE DEF c, x, y, e
  <2>5. e = [fp |-> s.fp, d |-> s.d, a |-> s.a, mem |-> s.mem, cc |-> c, exc |-> x, aexc |-> y,
             single |-> s.single, enabled |-> s.enabled, trap |-> s.trap, ctl |-> s.ctl, pc |-> s.pc]
    BY <2>2 DEF Whole
  <2>6. Whole(e) /\ SameRest(e, s) /\ e.fp = s.fp /\ e.cc = c /\ e.exc = x /\ e.aexc = y
    BY <2>3, <2>5 DEF Whole, SameRest
  <2> QED  BY <2>4, <2>6 DEF Executed, x, y, e
<1> QED  BY <1>3, <1>4, <1>5, <1>6 DEF Operations

\* What is no operation, an integer instruction or a store, does the same on
\* both sides.
Side(s, i) == IF i.op = "INT" THEN Integer(s, i) ELSE FPU_StoreData(s, i)
SameFloat(e, s) ==
  /\ e.fp = s.fp /\ e.cc = s.cc /\ e.exc = s.exc /\ e.aexc = s.aexc /\ e.single = s.single
  /\ e.enabled = s.enabled /\ e.trap = s.trap /\ e.ctl = s.ctl /\ e.pc = s.pc

LEMMA Sides ==
  ASSUME NEW s, NEW i, NEW need, i.op \in Others
  PROVE  EMIT_FPU(s, i, need) = Side(s, i) /\ Interpret(s, i) = Side(s, i)
<1>1. i.op \in {"INT", "TOMEM"} /\ i.op \notin Monadic \cup Dyadic
  BY LibmNames DEF Others, Monadic, Dyadic
<1>2. EMIT_FPU(s, i, need) = Side(s, i)
  BY <1>1 DEF EMIT_FPU, Side
<1>3. Interpret(s, i) = Side(s, i)
  BY <1>1 DEF Interpret, Side
<1> QED  BY <1>2, <1>3

\* With equal operands both change the integer registers and memory alike.
LEMMA SideKeeps ==
  ASSUME NEW s, NEW i, Whole(s)
  PROVE  Whole(Side(s, i)) /\ SameFloat(Side(s, i), s)
<1> DEFINE e == Side(s, i)
<1>1. PICK d, a, m : e = [s EXCEPT !.d = d, !.a = a, !.mem = m]
  <2>1. CASE i.op = "INT"
    <3>1. \/ e = [s EXCEPT !.d = 0, !.a = s.a, !.mem = s.mem]
          \/ e = [s EXCEPT !.d = s.d, !.a = s.a + 1, !.mem = s.mem]
          \/ e = [s EXCEPT !.d = s.d, !.a = s.a, !.mem = s.mem]
      <4>1. e = s \/ e = [s EXCEPT !.d = 0] \/ e = [s EXCEPT !.a = @ + 1]
        BY <2>1 DEF Side, Integer
      <4> HIDE DEF e
      <4> QED  BY <4>1 DEF Whole
    <3> QED  BY <3>1
  <2>2. CASE i.op # "INT"
    <3> DEFINE v == s.fp[i.dst]
    <3>1. \/ e = [s EXCEPT !.d = Saturate(v)]
          \/ e = [s EXCEPT !.mem[Cell(s, i)] = v]
          \/ e = [[s EXCEPT !.a = @ + 1] EXCEPT !.mem[Cell(s, i)] = v]
          \/ e = [[s EXCEPT !.a = @ - 1] EXCEPT !.mem[Cell(s, i)] = v]
      BY <2>2 DEF Side, FPU_StoreData, Stepped
    <3> DEFINE m == [s.mem EXCEPT ![Cell(s, i)] = v]
    <3>2. \/ e = [s EXCEPT !.d = Saturate(v), !.a = s.a, !.mem = s.mem]
          \/ e = [s EXCEPT !.d = s.d, !.a = s.a, !.mem = m]
          \/ e = [s EXCEPT !.d = s.d, !.a = s.a + 1, !.mem = m]
          \/ e = [s EXCEPT !.d = s.d, !.a = s.a - 1, !.mem = m]
      <4> HIDE DEF e, v
      <4> QED  BY <3>1 DEF Whole
    <3> QED  BY <3>2
  <2> QED  BY <2>1, <2>2
<1> HIDE DEF e
<1>2. e = [fp |-> s.fp, d |-> d, a |-> a, mem |-> m, cc |-> s.cc, exc |-> s.exc, aexc |-> s.aexc,
           single |-> s.single, enabled |-> s.enabled, trap |-> s.trap, ctl |-> s.ctl, pc |-> s.pc]
  BY <1>1 DEF Whole
<1> QED  BY <1>2 DEF Whole, SameFloat, e

LEMMA SidesAgree ==
  ASSUME NEW h, NEW s, NEW i, Whole(h), Whole(s), h.d = s.d, h.a = s.a, h.mem = s.mem,
         i.op \in Others, i.op = "TOMEM" => h.fp[i.dst] = s.fp[i.dst]
  PROVE  LET e == Side(h, i)
             f == Side(s, i)
         IN  e.d = f.d /\ e.a = f.a /\ e.mem = f.mem
<1>1. CASE i.op = "INT"
  <2>1. Integer(h, i).d = Integer(s, i).d /\ Integer(h, i).a = Integer(s, i).a
        /\ Integer(h, i).mem = Integer(s, i).mem
    <3>1. CASE i.k = "dn"
      BY <3>1 DEF Integer, Whole
    <3>2. CASE i.k = "an"
      BY <3>2 DEF Integer, Whole
    <3>3. CASE i.k \notin {"dn", "an"}
      BY <3>3 DEF Integer
    <3> QED  BY <3>1, <3>2, <3>3
  <2> QED  BY <1>1, <2>1 DEF Side
<1>2. CASE i.op = "TOMEM"
  <2>1. FPU_StoreData(h, i).d = FPU_StoreData(s, i).d /\ FPU_StoreData(h, i).a = FPU_StoreData(s, i).a
        /\ FPU_StoreData(h, i).mem = FPU_StoreData(s, i).mem
    <3>1. CASE i.k = "dn"
      BY <1>2, <3>1 DEF FPU_StoreData, Whole
    <3>2. CASE i.k = "post"
      BY <1>2, <3>2 DEF FPU_StoreData, Whole, Stepped, Cell
    <3>3. CASE i.k = "pre"
      BY <1>2, <3>3 DEF FPU_StoreData, Whole, Stepped, Cell
    <3>4. CASE i.k \notin {"dn", "post", "pre"}
      BY <1>2, <3>4 DEF FPU_StoreData, Whole, Stepped, Cell
    <3> QED  BY <3>1, <3>2, <3>3, <3>4
  <2> QED  BY <1>2, <2>1 DEF Side
<1> QED  BY <1>1, <1>2 DEF Others

\* The registers whose contents an operation depends on.
Reads(i) == MapsForRead(i) \cup (IF i.op \in {"FMOD", "FREM", "FSCALE"} THEN {i.dst} ELSE {})

SameSource(h, s, i) ==
  h.d = s.d /\ h.a = s.a /\ h.mem = s.mem /\ \A n \in Reads(i) : h.fp[n] = s.fp[n]

LEMMA OperandsDecide ==
  ASSUME NEW h, NEW s, NEW i, Plain(i), SameSource(h, s, i)
  PROVE  /\ \A n \in MapsForWrite(i) : Value(h, i, n) = Value(s, i, n)
         /\ Codes(h, i) = Codes(s, i) /\ Raises(h, i) = Raises(s, i)
<1> USE DEF SameSource
<1>1. i.op # "FMOVECR" => Fetched(h, i) = Fetched(s, i)
  <2>1. CASE i.k = "fp" /\ i.op # "FMOVECR"
    <3>1. i.r \in Reads(i)
      BY <2>1, LibmNames DEF Plain, Operations, Monadic, Dyadic, Reads, MapsForRead
    <3> QED  BY <2>1, <3>1 DEF Fetched, FPU_FetchData
  <2>2. CASE i.k # "fp"
    BY <2>2 DEF Fetched, FPU_FetchData, Cell
  <2> QED  BY <2>1, <2>2
<1>2. i.op \in Dyadic \cup {"FCMP"} => h.fp[i.dst] = s.fp[i.dst]
  BY DEF Dyadic, Reads, MapsForRead
<1>3. i.op \in Monadic \cup Dyadic =>
        Evaluate(i.op, h.fp[i.dst], Fetched(h, i)) = Evaluate(i.op, s.fp[i.dst], Fetched(s, i))
  <2>1. i.op # "FMOVECR" \/ i.op \notin Monadic \cup Dyadic
    BY LibmNames DEF Monadic, Dyadic
  <2> QED  BY <1>1, <1>2, <2>1, MonadicIgnores
<1>4. i.op \in Monadic \cup Dyadic \cup {"FCMP", "FTST", "FMOVECR", "FSINCOS"}
  BY DEF Plain, Operations
<1>5. \A n : Value(h, i, n) = Value(s, i, n) \/ i.op \in {"FCMP", "FTST"}
  BY <1>1, <1>3, <1>4 DEF Value
<1>6. Codes(h, i) = Codes(s, i)
  BY <1>1, <1>2, <1>5 DEF Codes
<1>7. Raises(h, i) = Raises(s, i)
  BY <1>3 DEF Raises
<1>8. i.op \in {"FCMP", "FTST"} => MapsForWrite(i) = {}
  BY LibmNames DEF MapsForWrite, Monadic, Dyadic
<1> QED  BY <1>5, <1>6, <1>7, <1>8

-----------------------------------------------------------------------------
(* Rounding keeps the flags *)

\* What single precision and the registers can hold before it.
Small(v) == v \in Int /\ (v = NaN \/ v = Inf \/ v = -Inf \/ (-128 <= v /\ v <= 127))
Tame(v)  == v \in Int /\ (v = NaN \/ v = Inf \/ v = -Inf \/ (-50000 <= v /\ v <= 50000))

LEMMA Numbers == NaN = 1000000 /\ Inf = 100000
BY DEF NaN, Inf

LEMMA SingleIs ==
  ASSUME NEW v \in Int, Tame(v)
  PROVE  \/ (v = NaN \/ v = Inf \/ v = -Inf) /\ Single(v) = v
         \/ v >= 0 /\ v <= 50000 /\ Single(v) \in Int /\ v <= Single(v) /\ Single(v) <= v + 1 /\ (v = 0 => Single(v) = 0)
         \/ v < 0 /\ v >= -50000 /\ Single(v) \in Int /\ v - 1 <= Single(v) /\ Single(v) <= v
<1>1. CASE v = NaN \/ v = Inf \/ v = -Inf
  BY <1>1 DEF Single, Finite
<1>2. CASE v >= 0 /\ v <= 50000
  <2> DEFINE m == (v + 1) \div 2
  <2>1. m \in Int /\ 2 * m >= v /\ 2 * m <= v + 1
    OBVIOUS
  <2>2. Finite(v) /\ Sgn(v) = 1 /\ Abs(v) = v
    BY <1>2, Numbers DEF Finite, Sgn, Abs
  <2>3. Single(v) = 1 * (2 * m)
    BY <2>2 DEF Single
  <2> HIDE DEF m
  <2>4. Single(v) = 2 * m
    BY <2>1, <2>3
  <2>5. v = 0 => m = 0
    BY <2>1
  <2> QED  BY <1>2, <2>1, <2>4, <2>5
<1>3. CASE v < 0 /\ v >= -50000
  <2> DEFINE m == (-v + 1) \div 2
  <2>1. m \in Int /\ 2 * m >= -v /\ 2 * m <= -v + 1
    OBVIOUS
  <2>2. Finite(v) /\ Sgn(v) = -1 /\ Abs(v) = -v
    BY <1>3, Numbers DEF Finite, Sgn, Abs
  <2>3. Single(v) = (-1) * (2 * m)
    BY <2>2 DEF Single
  <2> HIDE DEF m
  <2>4. Single(v) = -(2 * m)
    BY <2>1, <2>3
  <2> QED  BY <1>3, <2>1, <2>4
<1> QED  BY <1>1, <1>2, <1>3 DEF Tame

LEMMA RoundingKeepsSign ==
  ASSUME NEW v \in Int, Tame(v)
  PROVE  Compare2(Single(v), 0) = Compare2(v, 0)
<1> DEFINE x == Single(v)
<1>1. x \in Int /\ (x = NaN <=> v = NaN) /\ (x < 0 <=> v < 0) /\ (x = 0 <=> v = 0)
  BY SingleIs, Numbers
<1> HIDE DEF x
<1>2. (NaN \in {x, 0}) <=> (NaN \in {v, 0})
  BY <1>1, Numbers
<1>3. Compare2(x, 0) = Compare2(v, 0)
  BY <1>1, <1>2 DEF Compare2
<1> QED  BY <1>3 DEF x

LEMMA PowersOfTwo == \A n \in 0 .. 8 : 2^n \in Int /\ 1 <= 2^n /\ 2^n <= 256
<1> SUFFICES ASSUME NEW n \in 0 .. 8 PROVE 2^n \in Int /\ 1 <= 2^n /\ 2^n <= 256
  OBVIOUS
<1>0. n = 0 => 2^n = 1
  <2>1. n = 0 => 2^n = 2^0
    BY Zenon
  <2>2. 2^0 = 1
    BY SMT
  <2> QED  BY <2>1, <2>2
<1>1. n = 1 => 2^n = 2
  <2>1. n = 1 => 2^n = 2^1
    BY Zenon
  <2>2. 2^1 = 2
    BY SMT
  <2> QED  BY <2>1, <2>2
<1>2. n = 2 => 2^n = 4
  <2>1. n = 2 => 2^n = 2^2
    BY Zenon
  <2>2. 2^2 = 4
    BY SMT
  <2> QED  BY <2>1, <2>2
<1>3. n = 3 => 2^n = 8
  <2>1. n = 3 => 2^n = 2^3
    BY Zenon
  <2>2. 2^3 = 8
    BY SMT
  <2> QED  BY <2>1, <2>2
<1>4. n = 4 => 2^n = 16
  <2>1. n = 4 => 2^n = 2^4
    BY Zenon
  <2>2. 2^4 = 16
    BY SMT
  <2> QED  BY <2>1, <2>2
<1>5. n = 5 => 2^n = 32
  <2>1. n = 5 => 2^n = 2^5
    BY Zenon
  <2>2. 2^5 = 32
    BY SMT
  <2> QED  BY <2>1, <2>2
<1>6. n = 6 => 2^n = 64
  <2>1. n = 6 => 2^n = 2^6
    BY Zenon
  <2>2. 2^6 = 64
    BY SMT
  <2> QED  BY <2>1, <2>2
<1>7. n = 7 => 2^n = 128
  <2>1. n = 7 => 2^n = 2^7
    BY Zenon
  <2>2. 2^7 = 128
    BY SMT
  <2> QED  BY <2>1, <2>2
<1>8. n = 8 => 2^n = 256
  <2>1. n = 8 => 2^n = 2^8
    BY Zenon
  <2>2. 2^8 = 256
    BY SMT
  <2> QED  BY <2>1, <2>2
<1> DEFINE x == 2^n
<1>10. \/ x = 1 \/ x = 2 \/ x = 4 \/ x = 8 \/ x = 16 \/ x = 32 \/ x = 64 \/ x = 128 \/ x = 256
  BY <1>0, <1>1, <1>2, <1>3, <1>4, <1>5, <1>6, <1>7, <1>8
<1> HIDE DEF x
<1> QED  BY <1>10 DEF x

\* A square root, case by case.
Root(a) == CHOOSE k \in 0 .. a : k * k <= a /\ (k + 1) * (k + 1) > a

LEMMA SpecialRoot == ASSUME NEW a, a \in {NaN, Inf} PROVE Fsqrt(a).v = a
<1>1. ~(a < 0)
  BY Numbers
<1>2. Fsqrt(a) = Q(a, {})
  BY <1>1 DEF Fsqrt
<1> QED  BY <1>2 DEF Q

LEMMA NegativeRoot == ASSUME NEW a, a \notin {NaN, Inf}, a < 0 PROVE Fsqrt(a).v = NaN
<1>1. Fsqrt(a) = Q(NaN, {"OPERR"})
  BY DEF Fsqrt
<1> QED  BY <1>1 DEF Q

LEMMA WholeRoot == ASSUME NEW a, a \notin {NaN, Inf}, ~(a < 0) PROVE Fsqrt(a).v = Root(a)
<1>1. Fsqrt(a) = Q(Root(a), IF Root(a) * Root(a) = a THEN {} ELSE {"INEX2"})
  BY DEF Fsqrt, Root
<1> QED  BY <1>1 DEF Q

LEMMA RootIs ==
  ASSUME NEW a \in Int, a >= 0, a <= 127
  PROVE  Root(a) \in 0 .. a
<1>1. CASE 0 <= a /\ a <= 0
  <2>1. 0 \in 0 .. a /\ 0 * 0 <= a /\ (0 + 1) * (0 + 1) > a
    BY <1>1
  <2> QED  BY <2>1 DEF Root
<1>2. CASE 1 <= a /\ a <= 3
  <2>1. 1 \in 0 .. a /\ 1 * 1 <= a /\ (1 + 1) * (1 + 1) > a
    BY <1>2
  <2> QED  BY <2>1 DEF Root
<1>3. CASE 4 <= a /\ a <= 8
  <2>1. 2 \in 0 .. a /\ 2 * 2 <= a /\ (2 + 1) * (2 + 1) > a
    BY <1>3
  <2> QED  BY <2>1 DEF Root
<1>4. CASE 9 <= a /\ a <= 15
  <2>1. 3 \in 0 .. a /\ 3 * 3 <= a /\ (3 + 1) * (3 + 1) > a
    BY <1>4
  <2> QED  BY <2>1 DEF Root
<1>5. CASE 16 <= a /\ a <= 24
  <2>1. 4 \in 0 .. a /\ 4 * 4 <= a /\ (4 + 1) * (4 + 1) > a
    BY <1>5
  <2> QED  BY <2>1 DEF Root
<1>6. CASE 25 <= a /\ a <= 35
  <2>1. 5 \in 0 .. a /\ 5 * 5 <= a /\ (5 + 1) * (5 + 1) > a
    BY <1>6
  <2> QED  BY <2>1 DEF Root
<1>7. CASE 36 <= a /\ a <= 48
  <2>1. 6 \in 0 .. a /\ 6 * 6 <= a /\ (6 + 1) * (6 + 1) > a
    BY <1>7
  <2> QED  BY <2>1 DEF Root
<1>8. CASE 49 <= a /\ a <= 63
  <2>1. 7 \in 0 .. a /\ 7 * 7 <= a /\ (7 + 1) * (7 + 1) > a
    BY <1>8
  <2> QED  BY <2>1 DEF Root
<1>9. CASE 64 <= a /\ a <= 80
  <2>1. 8 \in 0 .. a /\ 8 * 8 <= a /\ (8 + 1) * (8 + 1) > a
    BY <1>9
  <2> QED  BY <2>1 DEF Root
<1>10. CASE 81 <= a /\ a <= 99
  <2>1. 9 \in 0 .. a /\ 9 * 9 <= a /\ (9 + 1) * (9 + 1) > a
    BY <1>10
  <2> QED  BY <2>1 DEF Root
<1>11. CASE 100 <= a /\ a <= 120
  <2>1. 10 \in 0 .. a /\ 10 * 10 <= a /\ (10 + 1) * (10 + 1) > a
    BY <1>11
  <2> QED  BY <2>1 DEF Root
<1>12. CASE 121 <= a /\ a <= 127
  <2>1. 11 \in 0 .. a /\ 11 * 11 <= a /\ (11 + 1) * (11 + 1) > a
    BY <1>12
  <2> QED  BY <2>1 DEF Root
<1> QED  BY <1>1, <1>2, <1>3, <1>4, <1>5, <1>6, <1>7, <1>8, <1>9, <1>10, <1>11, <1>12

LEMMA RootIsTame ==
  ASSUME NEW a \in Int, Small(a)
  PROVE  Tame(Fsqrt(a).v)
<1>1. CASE a = NaN \/ a = Inf
  BY <1>1, Numbers, SpecialRoot DEF Tame
<1>2. CASE ~(a = NaN \/ a = Inf) /\ a < 0
  BY <1>2, Numbers, NegativeRoot DEF Tame
<1>3. CASE a >= 0 /\ a <= 127
  <2>1. Fsqrt(a).v = Root(a)
    BY <1>3, Numbers, WholeRoot
  <2>2. Root(a) \in Int /\ 0 <= Root(a) /\ Root(a) <= a
    BY <1>3, RootIs
  <2> QED  BY <1>3, <2>1, <2>2 DEF Tame
<1> QED  BY <1>1, <1>2, <1>3, Numbers DEF Small

\* A quotient, case by case.
LEMMA QuotientNaN == ASSUME NEW a, NEW b, NaN \in {a, b} PROVE Fdiv(a, b).v = NaN
<1>1. Fdiv(a, b) = Q(NaN, {})
  BY DEF Fdiv
<1> QED  BY <1>1 DEF Q
LEMMA QuotientInvalid ==
  ASSUME NEW a, NEW b, NaN \notin {a, b}, (a = 0 /\ b = 0) \/ (~Finite(a) /\ ~Finite(b))
  PROVE  Fdiv(a, b).v = NaN
<1>1. Fdiv(a, b) = Q(NaN, {"OPERR"})
  BY DEF Fdiv
<1> QED  BY <1>1 DEF Q
Divides(a, b) == NaN \notin {a, b} /\ ~((a = 0 /\ b = 0) \/ (~Finite(a) /\ ~Finite(b)))
LEMMA QuotientByZero ==
  ASSUME NEW a, NEW b, Divides(a, b), b = 0
  PROVE  Fdiv(a, b).v = Sgn(a) * Inf
<1>1. Fdiv(a, b) = Q(Sgn(a) * Inf, IF Finite(a) THEN {"DZ"} ELSE {})
  BY DEF Fdiv, Divides
<1> QED  BY <1>1 DEF Q
LEMMA QuotientOfInf ==
  ASSUME NEW a, NEW b, Divides(a, b), b # 0, ~Finite(a)
  PROVE  Fdiv(a, b).v = Sgn(a) * Sgn(b) * Inf
<1>1. Fdiv(a, b) = Q(Sgn(a) * Sgn(b) * Inf, {})
  BY DEF Fdiv, Divides
<1> QED  BY <1>1 DEF Q
LEMMA QuotientByInf ==
  ASSUME NEW a, NEW b, Divides(a, b), b # 0, Finite(a), ~Finite(b)
  PROVE  Fdiv(a, b).v = 0
<1>1. Fdiv(a, b) = Q(0, {})
  BY DEF Fdiv, Divides
<1> QED  BY <1>1 DEF Q
LEMMA QuotientOfNumbers ==
  ASSUME NEW a, NEW b, Divides(a, b), b # 0, Finite(a), Finite(b)
  PROVE  Fdiv(a, b).v = Sgn(a) * Sgn(b) * (Abs(a) \div Abs(b))
<1>1. Fdiv(a, b) = Q(Sgn(a) * Sgn(b) * (Abs(a) \div Abs(b)), IF a % Abs(b) = 0 THEN {} ELSE {"INEX2"})
  BY DEF Fdiv, Divides
<1> QED  BY <1>1 DEF Q

LEMMA FiniteIsSmall ==
  ASSUME NEW a \in Int, Small(a), Finite(a)
  PROVE  -128 <= a /\ a <= 127 /\ a # NaN /\ a # Inf /\ a # -Inf
BY Numbers DEF Small, Finite

LEMMA QuotientOfSmall ==
  ASSUME NEW a \in Int, NEW b \in Int, Small(a), Small(b), Finite(a), Finite(b), b # 0
  PROVE  Fdiv(a, b).v \in Int /\ -128 <= Fdiv(a, b).v /\ Fdiv(a, b).v <= 128
<1> DEFINE x == Abs(a)
           y == Abs(b)
           n == x \div y
<1>1. x \in Int /\ y \in Int /\ x >= 0 /\ x <= 128 /\ y >= 1
  BY FiniteIsSmall DEF Abs
<1>2. Fdiv(a, b).v = Sgn(a) * Sgn(b) * n
  <2>1. Divides(a, b)
    BY DEF Divides, Finite
  <2> QED  BY <2>1, QuotientOfNumbers
<1>3. \A i, j \in Int : i >= 0 /\ j >= 1 => i \div j \in Int /\ i \div j >= 0 /\ i \div j <= i
  OBVIOUS
<1> HIDE DEF x, y
<1>4. n \in Int /\ n >= 0 /\ n <= 128
  BY <1>1, <1>3
<1>5. (Sgn(a) = 1 \/ Sgn(a) = -1) /\ (Sgn(b) = 1 \/ Sgn(b) = -1)
  BY DEF Sgn
<1> HIDE DEF n
<1>6. Fdiv(a, b).v = n \/ Fdiv(a, b).v = -n
  BY <1>2, <1>4, <1>5
<1> QED  BY <1>4, <1>6

LEMMA QuotientIs ==
  ASSUME NEW a \in Int, NEW b \in Int, Small(a), Small(b)
  PROVE  LET q == Fdiv(a, b).v
         IN  q \in Int /\ (q = NaN \/ q = Inf \/ q = -Inf \/ (-128 <= q /\ q <= 128))
<1>1. CASE NaN \in {a, b}
  BY <1>1, Numbers, QuotientNaN
<1>2. CASE NaN \notin {a, b} /\ ((a = 0 /\ b = 0) \/ (~Finite(a) /\ ~Finite(b)))
  BY <1>2, Numbers, QuotientInvalid
<1>3. CASE Divides(a, b) /\ b = 0
  BY <1>3, Numbers, QuotientByZero DEF Sgn
<1>4. CASE Divides(a, b) /\ b # 0 /\ ~Finite(a)
  <2>1. Fdiv(a, b).v = Sgn(a) * Sgn(b) * Inf
    BY <1>4, QuotientOfInf
  <2>2. (Sgn(a) = 1 \/ Sgn(a) = -1) /\ (Sgn(b) = 1 \/ Sgn(b) = -1)
    BY DEF Sgn
  <2>3. Fdiv(a, b).v = Inf \/ Fdiv(a, b).v = -Inf
    BY <2>1, <2>2, Numbers
  <2> QED  BY <2>3, Numbers
<1>5. CASE Divides(a, b) /\ b # 0 /\ Finite(a) /\ ~Finite(b)
  BY <1>5, QuotientByInf
<1>6. CASE Divides(a, b) /\ b # 0 /\ Finite(a) /\ Finite(b)
  BY <1>6, QuotientOfSmall
<1> QED  BY <1>1, <1>2, <1>3, <1>4, <1>5, <1>6 DEF Divides

\* A product and a sum, case by case.
LEMMA ProductNaN == ASSUME NEW a, NEW b, NaN \in {a, b} PROVE Fmul(a, b).v = NaN
<1>1. Fmul(a, b) = Q(NaN, {})
  BY DEF Fmul
<1> QED  BY <1>1 DEF Q
LEMMA ProductOfNumbers ==
  ASSUME NEW a, NEW b, NaN \notin {a, b}, Finite(a), Finite(b)
  PROVE  Fmul(a, b).v = a * b
<1>1. Fmul(a, b) = Q(a * b, {})
  BY DEF Fmul
<1> QED  BY <1>1 DEF Q
LEMMA ProductOfInf ==
  ASSUME NEW a, NEW b, NaN \notin {a, b}, ~(Finite(a) /\ Finite(b))
  PROVE  Fmul(a, b).v \in {NaN, Sgn(a) * Sgn(b) * Inf}
<1>1. Fmul(a, b) \in {Q(NaN, {"OPERR"}), Q(Sgn(a) * Sgn(b) * Inf, {})}
  BY DEF Fmul
<1> QED  BY <1>1 DEF Q
LEMMA SumIs ==
  ASSUME NEW a, NEW b
  PROVE  Fadd(a, b).v \in {NaN, a, b} \/ (Finite(a) /\ Finite(b) /\ Fadd(a, b).v = a + b)
<1>1. \/ Fadd(a, b) \in {Q(NaN, {}), Q(NaN, {"OPERR"}), Q(a, {}), Q(b, {})}
      \/ Finite(a) /\ Finite(b) /\ Fadd(a, b) = Q(a + b, {})
  BY DEF Fadd
<1> QED  BY <1>1 DEF Q

LEMMA SmallProduct ==
  ASSUME NEW a \in Int, NEW b \in Int, -128 <= a, a <= 128, -256 <= b, b <= 256
  PROVE  a * b \in Int /\ -32768 <= a * b /\ a * b <= 32768
         /\ ((-128 <= b /\ b <= 128) => -16384 <= a * b /\ a * b <= 16384)
<1>1. \A x, y, u \in Int : x >= 0 /\ y <= u => x * y <= x * u
  OBVIOUS
<1>2. CASE a >= 0
  <2>1. a * b <= a * 256 /\ a * (-256) <= a * b
    BY <1>1, <1>2
  <2>2. (-128 <= b /\ b <= 128) => a * b <= a * 128 /\ a * (-128) <= a * b
    BY <1>1, <1>2
  <2> DEFINE y == a * b
  <2>3. y \in Int
    OBVIOUS
  <2> HIDE DEF y
  <2> QED  BY <2>1, <2>2, <2>3 DEF y
<1>3. CASE a < 0
  <2> DEFINE x == -a
  <2>1. x \in Int /\ x >= 0 /\ x <= 128
    BY <1>3
  <2> HIDE DEF x
  <2>2. x * b <= x * 256 /\ x * (-256) <= x * b
    BY <1>1, <2>1
  <2>3. (-128 <= b /\ b <= 128) => x * b <= x * 128 /\ x * (-128) <= x * b
    BY <1>1, <2>1
  <2>4. a * b = -(x * b)
    BY DEF x
  <2> QED  BY <2>1, <2>2, <2>3, <2>4
<1> QED  BY <1>2, <1>3

LEMMA ProductIs ==
  ASSUME NEW a \in Int, NEW b \in Int, Small(a), Small(b)
  PROVE  LET q == Fmul(a, b).v
         IN  q \in Int /\ (q = NaN \/ q = Inf \/ q = -Inf \/ (-20000 <= q /\ q <= 20000))
<1>1. CASE NaN \in {a, b}
  BY <1>1, Numbers, ProductNaN
<1>2. CASE NaN \notin {a, b} /\ Finite(a) /\ Finite(b)
  <2>1. -128 <= a /\ a <= 127 /\ -128 <= b /\ b <= 127
    BY <1>2, FiniteIsSmall
  <2>2. a * b \in Int /\ -16384 <= a * b /\ a * b <= 16384
    BY <2>1, SmallProduct
  <2>3. Fmul(a, b).v = a * b
    BY <1>2, ProductOfNumbers
  <2> QED  BY <2>2, <2>3
<1>3. CASE NaN \notin {a, b} /\ ~(Finite(a) /\ Finite(b))
  <2>1. (Sgn(a) = 1 \/ Sgn(a) = -1) /\ (Sgn(b) = 1 \/ Sgn(b) = -1)
    BY DEF Sgn
  <2>2. Fmul(a, b).v = NaN \/ Fmul(a, b).v = Sgn(a) * Sgn(b) * Inf
    BY <1>3, ProductOfInf
  <2>3. Fmul(a, b).v = NaN \/ Fmul(a, b).v = Inf \/ Fmul(a, b).v = -Inf
    BY <2>1, <2>2, Numbers
  <2> QED  BY <2>3, Numbers
<1> QED  BY <1>1, <1>2, <1>3

LEMMA SingleIsTame ==
  ASSUME NEW v \in Int, v = NaN \/ v = Inf \/ v = -Inf \/ (-20000 <= v /\ v <= 20000)
  PROVE  Tame(Single(v))
<1>1. Tame(v)
  BY DEF Tame
<1> QED  BY <1>1, SingleIs, Numbers DEF Tame

LEMMA LibraryIsTame ==
  ASSUME NEW op \in LibmOps, NEW a \in Int, Small(a)
  PROVE  Tame(Call(op, a))
<1> DEFINE k == CHOOSE j \in DOMAIN Libm : Libm[j] = op
<1>1. DOMAIN Libm = 1 .. 20
  BY DEF Libm
<1>2. k \in 1 .. 20
  BY <1>1 DEF LibmOps
<1> HIDE DEF k
<1>3. Call(op, a) = IF a = NaN THEN NaN ELSE IF Finite(a) THEN 3 * a + k ELSE k
  BY DEF Call, k
<1>4. k \in Int /\ 1 <= k /\ k <= 20
  BY <1>2
<1>5. CASE a = NaN
  BY <1>3, <1>5, Numbers DEF Tame
<1>6. CASE a # NaN /\ Finite(a)
  <2>1. -128 <= a /\ a <= 127
    BY <1>6, FiniteIsSmall
  <2>2. Call(op, a) = 3 * a + k
    BY <1>3, <1>6
  <2> QED  BY <1>4, <2>1, <2>2 DEF Tame
<1>7. CASE a # NaN /\ ~Finite(a)
  <2>1. Call(op, a) = k
    BY <1>3, <1>7
  <2> QED  BY <1>4, <2>1 DEF Tame
<1> QED  BY <1>5, <1>6, <1>7

LEMMA SumIsTame ==
  ASSUME NEW a \in Int, NEW b \in Int, Small(a), b = NaN \/ b = Inf \/ b = -Inf \/ (-128 <= b /\ b <= 128)
  PROVE  Tame(Fadd(a, b).v)
<1>1. CASE Fadd(a, b).v = NaN \/ Fadd(a, b).v = a \/ Fadd(a, b).v = b
  BY <1>1, Numbers DEF Tame, Small
<1>2. CASE Finite(a) /\ Finite(b) /\ Fadd(a, b).v = a + b
  <2>1. -128 <= a /\ a <= 127
    BY <1>2, FiniteIsSmall
  <2>2. -128 <= b /\ b <= 128
    BY <1>2 DEF Finite
  <2> QED  BY <1>2, <2>1, <2>2 DEF Tame
<1> QED  BY <1>1, <1>2, SumIs

LEMMA RemainderIsTame ==
  ASSUME NEW a \in Int, NEW b \in Int, Small(a), Small(b)
  PROVE  Tame(Fmod(a, b).v)
<1>1. CASE Finite(a) /\ Finite(b) /\ b # 0
  <2> DEFINE q == Fdiv(a, b).v
             m == b * q
  <2>1. Fmod(a, b).v = a - m
    BY <1>1 DEF Fmod, Q
  <2>2. -128 <= a /\ a <= 127 /\ -128 <= b /\ b <= 127 /\ q \in Int /\ -128 <= q /\ q <= 128
    BY <1>1, QuotientOfSmall, FiniteIsSmall
  <2> HIDE DEF q
  <2>3. m \in Int /\ -16384 <= m /\ m <= 16384
    BY <2>2, SmallProduct
  <2> HIDE DEF m
  <2> QED  BY <2>1, <2>2, <2>3 DEF Tame
<1>2. CASE ~(Finite(a) /\ Finite(b) /\ b # 0)
  <2>1. Fmod(a, b).v = NaN
    BY <1>2 DEF Fmod, Q
  <2> QED  BY <2>1, Numbers DEF Tame
<1> QED  BY <1>1, <1>2

LEMMA ScaledIsTame ==
  ASSUME NEW a \in Int, NEW b \in Int, Small(a)
  PROVE  Tame(Fscale(a, b).v)
<1>1. CASE Finite(a) /\ b \in 0 .. 8
  <2> DEFINE x == 2^b
  <2>1. x \in Int /\ 1 <= x /\ x <= 256
    BY <1>1, PowersOfTwo
  <2>2. Fscale(a, b).v = a * x
    BY <1>1 DEF Fscale, Q
  <2>3. -128 <= a /\ a <= 127
    BY <1>1, FiniteIsSmall
  <2> HIDE DEF x
  <2> DEFINE y == a * x
  <2>4. y \in Int /\ -32768 <= y /\ y <= 32768
    BY <2>1, <2>3, SmallProduct
  <2> HIDE DEF y
  <2>5. Fscale(a, b).v = y
    BY <2>2 DEF y
  <2> QED  BY <2>4, <2>5 DEF Tame
<1>2. CASE ~(Finite(a) /\ b \in 0 .. 8)
  <2>1. Fscale(a, b).v = a
    BY <1>2 DEF Fscale, Q
  <2> QED  BY <2>1, Numbers DEF Tame, Small
<1> QED  BY <1>1, <1>2

LEMMA EvaluateIsTame ==
  ASSUME NEW op \in Monadic \cup Dyadic, NEW a \in Int, NEW b \in Int, Small(a), Small(b)
  PROVE  Tame(Evaluate(op, a, b).v)
<1>1. CASE op \in LibmOps
  <2>1. op \notin {"FABS", "FNEG", "FMOVE", "FINT", "FINTRZ", "FSQRT", "FADD", "FSUB", "FMUL", "FDIV",
                   "FSGLMUL", "FSGLDIV", "FMOD", "FREM", "FSCALE"}
    BY <1>1, LibmNames
  <2>2. Evaluate(op, a, b) = Q(Call(op, b), {})
    BY <1>1, <2>1 DEF Evaluate
  <2>3. Evaluate(op, a, b).v = Call(op, b)
    BY <2>2 DEF Q
  <2> QED  BY <1>1, <2>3, LibraryIsTame
<1> DEFINE m == IF b = NaN THEN NaN ELSE Abs(b)
           n == Fneg(b)
<1>2. /\ n \in Int /\ (n = NaN \/ n = Inf \/ n = -Inf \/ (-128 <= n /\ n <= 128))
      /\ m \in Int /\ (m = NaN \/ m = Inf \/ m = -Inf \/ (-128 <= m /\ m <= 128))
  BY Numbers DEF Fneg, Abs, Small
<1>3. CASE op \in {"FABS", "FNEG", "FMOVE", "FINT", "FINTRZ"}
  <2>1. Evaluate(op, a, b) = Q(b, {}) \/ Evaluate(op, a, b) = Q(n, {}) \/ Evaluate(op, a, b) = Q(m, {})
    BY <1>3, LibmNames DEF Evaluate
  <2> HIDE DEF m, n
  <2>2. Evaluate(op, a, b).v = b \/ Evaluate(op, a, b).v = n \/ Evaluate(op, a, b).v = m
    BY <2>1 DEF Q
  <2>3. Tame(b) /\ Tame(n) /\ Tame(m)
    BY <1>2, Numbers DEF Small, Tame
  <2> QED  BY <2>2, <2>3
<1>4. CASE op = "FSQRT"
  <2>1. Evaluate(op, a, b) = Fsqrt(b)
    BY <1>4, LibmNames DEF Evaluate
  <2> QED  BY <2>1, RootIsTame
<1>5. CASE op \in {"FADD", "FSUB"}
  <2>1. Evaluate(op, a, b) = Fadd(a, b) \/ Evaluate(op, a, b) = Fadd(a, n)
    BY <1>5, LibmNames DEF Evaluate
  <2> HIDE DEF n
  <2>2. b = NaN \/ b = Inf \/ b = -Inf \/ (-128 <= b /\ b <= 128)
    BY DEF Small
  <2>3. Tame(Fadd(a, b).v)
    BY <2>2, SumIsTame
  <2>4. Tame(Fadd(a, n).v)
    BY <1>2, SumIsTame
  <2> QED  BY <2>1, <2>3, <2>4
<1>6. CASE op = "FMUL" \/ op = "FSGLMUL"
  <2> DEFINE q == Fmul(a, b).v
  <2>1. q \in Int /\ (q = NaN \/ q = Inf \/ q = -Inf \/ (-20000 <= q /\ q <= 20000))
    BY ProductIs
  <2>2. Evaluate(op, a, b).v = q \/ Evaluate(op, a, b).v = Single(q)
    <3>1. Evaluate(op, a, b) = Fmul(a, b) \/ Evaluate(op, a, b) = [Fmul(a, b) EXCEPT !.v = Single(@)]
      BY <1>6, LibmNames DEF Evaluate
    <3>2. \E e, v : Fmul(a, b) = Q(v, e)
      BY DEF Fmul
    <3> QED  BY <3>1, <3>2 DEF Q
  <2> HIDE DEF q
  <2>3. Tame(q) /\ Tame(Single(q))
    BY <2>1, SingleIsTame, Numbers DEF Tame
  <2> QED  BY <2>2, <2>3
<1>7. CASE op = "FDIV" \/ op = "FSGLDIV"
  <2> DEFINE q == Fdiv(a, b).v
  <2>1. q \in Int /\ (q = NaN \/ q = Inf \/ q = -Inf \/ (-128 <= q /\ q <= 128))
    BY QuotientIs
  <2>2. Evaluate(op, a, b).v = q \/ Evaluate(op, a, b).v = Single(q)
    <3>1. Evaluate(op, a, b) = Fdiv(a, b) \/ Evaluate(op, a, b) = [Fdiv(a, b) EXCEPT !.v = Single(@)]
      BY <1>7, LibmNames DEF Evaluate
    <3>2. \E e, v : Fdiv(a, b) = Q(v, e)
      BY DEF Fdiv
    <3> QED  BY <3>1, <3>2 DEF Q
  <2> HIDE DEF q
  <2>3. Tame(q) /\ Tame(Single(q))
    BY <2>1, SingleIsTame, Numbers DEF Tame
  <2> QED  BY <2>2, <2>3
<1>8. CASE op \in {"FMOD", "FREM"}
  <2>1. Evaluate(op, a, b) = Fmod(a, b)
    BY <1>8, LibmNames DEF Evaluate
  <2> QED  BY <2>1, RemainderIsTame
<1>9. CASE op = "FSCALE"
  <2>1. Evaluate(op, a, b) = Fscale(a, b)
    BY <1>9, LibmNames DEF Evaluate
  <2> QED  BY <2>1, ScaledIsTame
<1> QED  BY <1>1, <1>3, <1>4, <1>5, <1>6, <1>7, <1>8, <1>9 DEF Monadic, Dyadic

\* So the flags of the unrounded result are the flags of the rounded one.
LEMMA RoundingKeepsCodes ==
  ASSUME NEW s, NEW i, Plain(i), s.single => Small(Fetched(s, i)) /\ Small(s.fp[i.dst])
  PROVE  RoundedCodes(s, i) = Codes(s, i)
<1>1. CASE ~s.single
  BY <1>1 DEF RoundedCodes, Codes, Rounded
<1>2. CASE s.single /\ i.op \in {"FCMP", "FTST", "FMOVECR"}
  BY <1>2 DEF RoundedCodes
<1>3. CASE s.single /\ i.op \notin {"FCMP", "FTST", "FMOVECR"}
  <2>0. s.fp[i.dst] \in Int /\ Fetched(s, i) \in Int
    BY <1>3 DEF Small
  <2>1. Tame(Value(s, i, i.dst))
    <3>1. CASE i.op = "FSINCOS"
      <4>1. Value(s, i, i.dst) = Call("FSIN", Fetched(s, i))
        BY <3>1 DEF Value
      <4>2. "FSIN" \in LibmOps
        BY LibmNames
      <4> QED  BY <1>3, <2>0, <4>1, <4>2, LibraryIsTame
    <3>2. CASE i.op # "FSINCOS"
      <4>1. i.op \in Monadic \cup Dyadic
        BY <1>3, <3>2 DEF Plain, Operations
      <4>2. Value(s, i, i.dst) = Evaluate(i.op, s.fp[i.dst], Fetched(s, i)).v
        BY <1>3, <3>2 DEF Value
      <4> QED  BY <1>3, <2>0, <4>1, <4>2, EvaluateIsTame
    <3> QED  BY <3>1, <3>2
  <2>2. Value(s, i, i.dst) \in Int
    BY <2>1 DEF Tame
  <2> QED  BY <1>3, <2>1, <2>2, RoundingKeepsSign DEF RoundedCodes, Codes, Rounded
<1> QED  BY <1>1, <1>2, <1>3

-----------------------------------------------------------------------------
(* Who looks at the flags *)

\* Induction on the numbers, over the set where a fact fails.
LEMMA Induction ==
  ASSUME NEW B, B \subseteq Nat, 0 \notin B, \A m \in Nat : m \notin B => m + 1 \notin B
  PROVE  B = {}
<1> DEFINE R == OpToRel(<, Nat)
<1>1. IsWellFoundedOn(R, Nat)
  BY NatLessThanWellFounded
<1>2. \A x, y \in Nat : y < x => <<y, x>> \in R
  BY DEF OpToRel
<1> HIDE DEF R
<1> SUFFICES ASSUME B # {} PROVE FALSE
  OBVIOUS
<1>3. PICK x \in B : \A y \in B : ~ (<<y, x>> \in R)
  BY <1>1, WFMin
<1>4. x \in Nat /\ x # 0
  BY <1>3
<1>5. x - 1 \in Nat /\ x - 1 < x /\ (x - 1) + 1 = x
  BY <1>4
<1>6. x - 1 \notin B
  BY <1>2, <1>3, <1>4, <1>5
<1> QED  BY <1>3, <1>5, <1>6

\* The first word that decides, if there is one, says yes.
Decisive == Consumers \cup {"Bcc"}
LooksFrom(q) ==
  [k \in 1 .. Len(q) + 1 |->
     \A m \in k .. Len(q) : ((\A j \in k .. m - 1 : Skipped(q[j])) /\ ~Skipped(q[m])) => q[m].op \in Decisive]

LEMMA LooksEquation ==
  ASSUME NEW q \in Seq(Words)
  PROVE  LooksFrom(q) =
         [k \in 1 .. Len(q) + 1 |->
            IF k > Len(q) THEN TRUE ELSE IF Skipped(q[k]) THEN LooksFrom(q)[k + 1] ELSE q[k].op \in Decisive]
<1> DEFINE f == LooksFrom(q)
           All(k) == \A m \in k .. Len(q) :
                       ((\A j \in k .. m - 1 : Skipped(q[j])) /\ ~Skipped(q[m])) => q[m].op \in Decisive
           g(k) == IF k > Len(q) THEN TRUE ELSE IF Skipped(q[k]) THEN f[k + 1] ELSE q[k].op \in Decisive
<1>1. f = [k \in 1 .. Len(q) + 1 |-> All(k)]
  BY DEF LooksFrom
<1>2. Len(q) \in Nat
  OBVIOUS
<1> HIDE DEF f
<1>0. \A k \in 1 .. Len(q) + 1 : f[k] = All(k)
  BY <1>1
<1> SUFFICES ASSUME NEW k \in 1 .. Len(q) + 1
             PROVE  All(k) = g(k)
  <2>1. [k \in 1 .. Len(q) + 1 |-> All(k)] = [k \in 1 .. Len(q) + 1 |-> g(k)]
    BY Zenon
  <2> QED  BY <1>1, <2>1 DEF f
<1>4. CASE k > Len(q)
  <2>1. All(k)
    BY <1>2, <1>4
  <2>2. g(k) = TRUE
    BY <1>4
  <2>3. All(k) = TRUE
    BY <2>1
  <2> HIDE DEF All, g
  <2> QED  BY <2>2, <2>3
<1>5. CASE k <= Len(q) /\ Skipped(q[k])
  <2>1. f[k + 1] = All(k + 1)
    <3>1. k + 1 \in 1 .. Len(q) + 1
      BY <1>2, <1>5
    <3> QED  BY <1>0, <3>1
  <2>2. ASSUME All(k) PROVE All(k + 1)
    <3> SUFFICES ASSUME NEW m \in k + 1 .. Len(q), \A j \in k + 1 .. m - 1 : Skipped(q[j]), ~Skipped(q[m])
                 PROVE  q[m].op \in Decisive
      OBVIOUS
    <3>1. m \in k .. Len(q) /\ \A j \in k .. m - 1 : j = k \/ j \in k + 1 .. m - 1
      BY <1>2
    <3>2. \A j \in k .. m - 1 : Skipped(q[j])
      BY <1>5, <3>1
    <3> QED  BY <2>2, <3>1, <3>2
  <2>3. ASSUME All(k + 1) PROVE All(k)
    <3> SUFFICES ASSUME NEW m \in k .. Len(q), \A j \in k .. m - 1 : Skipped(q[j]), ~Skipped(q[m])
                 PROVE  q[m].op \in Decisive
      OBVIOUS
    <3>1. m \in k + 1 .. Len(q)
      BY <1>2, <1>5
    <3>2. \A j \in k + 1 .. m - 1 : j \in k .. m - 1
      BY <1>2
    <3> QED  BY <2>3, <3>1, <3>2
  <2>4. g(k) = f[k + 1]
    <3>1. ~(k > Len(q))
      BY <1>2, <1>5
    <3> HIDE DEF All
    <3> QED  BY <1>5, <3>1
  <2>5. All(k) = All(k + 1)
    BY <2>2, <2>3
  <2> HIDE DEF All, g
  <2> QED  BY <2>1, <2>4, <2>5
<1>6. CASE k <= Len(q) /\ ~Skipped(q[k])
  <2> DEFINE d == q[k].op \in Decisive
  <2>1. All(k) = d
    <3>1. ASSUME All(k) PROVE d
      <4>1. k \in k .. Len(q) /\ k .. k - 1 = {}
        BY <1>2, <1>6
      <4> QED  BY <1>6, <3>1, <4>1
    <3>2. ASSUME d PROVE All(k)
      <4> SUFFICES ASSUME NEW m \in k .. Len(q), \A j \in k .. m - 1 : Skipped(q[j]) PROVE q[m].op \in Decisive
        OBVIOUS
      <4>1. m = k \/ k \in k .. m - 1
        BY <1>2
      <4>2. m = k
        BY <1>6, <4>1
      <4> QED  BY <3>2, <4>2
    <3>3. All(k) \in BOOLEAN /\ d \in BOOLEAN
      OBVIOUS
    <3> HIDE DEF All, d
    <3> QED  BY <3>1, <3>2, <3>3
  <2>2. g(k) = d
    <3>1. ~(k > Len(q))
      BY <1>2, <1>6
    <3> HIDE DEF All
    <3> QED  BY <1>6, <3>1
  <2> HIDE DEF All, g, d
  <2> QED  BY <2>1, <2>2
<1>7. k > Len(q) \/ k <= Len(q)
  BY <1>2
<1> HIDE DEF All, g
<1> QED  BY <1>4, <1>5, <1>6, <1>7

\* The search goes on past an integer instruction and FNOP, a branch or a store
\* ends it with yes, another operation with no.
LEMMA NeededIs ==
  ASSUME NEW q \in Seq(Words), NEW k \in 1 .. Len(q)
  PROVE  /\ Skipped(q[k]) => FPSR_Update_Needed(q, k - 1) = FPSR_Update_Needed(q, k)
         /\ q[k].op \in Decisive => FPSR_Update_Needed(q, k - 1) = TRUE
         /\ q[k].op \in Operations => FPSR_Update_Needed(q, k - 1) = FALSE
<1> DEFINE f == CHOOSE from : from =
                  [n \in 1 .. Len(q) + 1 |->
                     IF n > Len(q) THEN TRUE ELSE IF Skipped(q[n]) THEN from[n + 1] ELSE q[n].op \in Decisive]
<1>1. f = [n \in 1 .. Len(q) + 1 |->
             IF n > Len(q) THEN TRUE ELSE IF Skipped(q[n]) THEN f[n + 1] ELSE q[n].op \in Decisive]
  BY LooksEquation
<1>2. \A at : FPSR_Update_Needed(q, at) = f[at + 1]
  BY DEF FPSR_Update_Needed, Decisive
<1> HIDE DEF f
<1>3. k \in 1 .. Len(q) + 1 /\ ~(k > Len(q)) /\ k - 1 + 1 = k
  OBVIOUS
<1>4. FPSR_Update_Needed(q, k - 1) = f[k] /\ FPSR_Update_Needed(q, k) = f[k + 1]
  BY <1>2, <1>3
<1>5. f[k] = IF Skipped(q[k]) THEN f[k + 1] ELSE q[k].op \in Decisive
  BY <1>1, <1>3
<1>6. q[k].op \in Decisive \cup Operations => ~Skipped(q[k])
  BY LibmNames DEF Skipped, Operations, Decisive, Consumers, Monadic, Dyadic
<1>7. q[k].op \in Operations => q[k].op \notin Decisive
  BY LibmNames DEF Operations, Decisive, Consumers, Monadic, Dyadic
<1>8. Skipped(q[k]) => f[k] = f[k + 1]
  BY <1>5
<1>9. q[k].op \in Decisive => f[k] = TRUE
  BY <1>5, <1>6
<1>10. q[k].op \in Operations => f[k] = FALSE
  <2> SUFFICES ASSUME q[k].op \in Operations PROVE f[k] = FALSE
    OBVIOUS
  <2>1. (q[k].op \in Decisive) = FALSE
    BY <1>7
  <2>2. f[k] = (q[k].op \in Decisive)
    BY <1>5, <1>6
  <2> QED  BY <2>1, <2>2
<1> QED  BY <1>4, <1>8, <1>9, <1>10

-----------------------------------------------------------------------------
(* A block, one instruction after the other *)

\* The states of the translated block, of the interpreter and of the second walk.
NativeSteps(steps, s, p, after, n) == steps = [k \in 0 .. n |-> IF k = 0 THEN FpLoaded(s, p)
        ELSE EMIT_FPU(steps[k - 1], p[k], FPSR_Update_Needed(p \o after, k))]
LEMMA NativeExists ==
  ASSUME NEW s, NEW p, NEW after, NEW n \in Nat
  PROVE  \E steps : NativeSteps(steps, s, p, after, n)
<1> DEFINE Runs(m, steps) == steps = [k \in 0 .. m |-> IF k = 0 THEN FpLoaded(s, p)
        ELSE EMIT_FPU(steps[k - 1], p[k], FPSR_Update_Needed(p \o after, k))]
           B == {m \in Nat : ~ \E steps : Runs(m, steps)}
<1>1. \E steps : Runs(0, steps)
  <2> DEFINE steps == [k \in 0 .. 0 |-> FpLoaded(s, p)]
  <2>1. [k \in 0 .. 0 |-> FpLoaded(s, p)] = [k \in 0 .. 0 |-> IF k = 0 THEN FpLoaded(s, p)
          ELSE EMIT_FPU(steps[k - 1], p[k], FPSR_Update_Needed(p \o after, k))]
    <3> SUFFICES ASSUME NEW k \in 0 .. 0 PROVE (FpLoaded(s, p)) = (IF k = 0 THEN FpLoaded(s, p)
            ELSE EMIT_FPU(steps[k - 1], p[k], FPSR_Update_Needed(p \o after, k)))
      BY Zenon
    <3> HIDE DEF steps
    <3> QED  OBVIOUS
  <2> QED  BY <2>1
<1>2. ASSUME NEW m \in Nat, NEW f, Runs(m, f)
      PROVE  \E steps : Runs(m + 1, steps)
  <2> DEFINE S(x, k) == EMIT_FPU(x, p[k], FPSR_Update_Needed(p \o after, k))
             steps == [k \in 0 .. m + 1 |-> IF k = m + 1 THEN S(f[m], m + 1) ELSE f[k]]
  <2>1. \A k \in 0 .. m : f[k] = IF k = 0 THEN FpLoaded(s, p) ELSE S(f[k - 1], k)
    BY <1>2, Zenon
  <2> HIDE DEF S
  <2>2. steps[m + 1] = S(f[m], m + 1) /\ \A k \in 0 .. m : steps[k] = f[k]
    OBVIOUS
  <2> SUFFICES ASSUME NEW k \in 0 .. m + 1
               PROVE  steps[k] = IF k = 0 THEN FpLoaded(s, p) ELSE S(steps[k - 1], k)
    <3>1. steps = [k \in 0 .. m + 1 |-> steps[k]]
      OBVIOUS
    <3> HIDE DEF steps
    <3>2. [k \in 0 .. m + 1 |-> steps[k]] = [k \in 0 .. m + 1 |-> IF k = 0 THEN FpLoaded(s, p) ELSE S(steps[k - 1], k)]
      BY Zenon
    <3>3. steps = [k \in 0 .. m + 1 |-> IF k = 0 THEN FpLoaded(s, p) ELSE S(steps[k - 1], k)]
      BY <3>1, <3>2
    <3> QED  BY <3>3, Zenon DEF S
  <2> HIDE DEF steps
  <2>3. CASE k = m + 1
    <3>1. k # 0 /\ k - 1 = m /\ m \in 0 .. m
      BY <2>3
    <3> QED  BY <2>2, <2>3, <3>1
  <2>4. CASE k \in 1 .. m
    <3>1. k # 0 /\ k - 1 \in 0 .. m /\ k \in 0 .. m
      BY <2>4
    <3> QED  BY <2>1, <2>2, <3>1
  <2>5. CASE k = 0
    <3>1. 0 \in 0 .. m
      OBVIOUS
    <3>2. f[0] = FpLoaded(s, p) /\ steps[0] = f[0]
      BY <2>1, <2>2, <3>1
    <3> QED  BY <2>5, <3>2
  <2> QED  BY <2>3, <2>4, <2>5
<1> HIDE DEF Runs
<1>3. 0 \notin B
  BY <1>1
<1>4. \A m \in Nat : m \notin B => m + 1 \notin B
  BY <1>2
<1>5. B \subseteq Nat
  OBVIOUS
<1> HIDE DEF B
<1>6. B = {}
  BY <1>3, <1>4, <1>5, Induction
<1>7. \E steps : Runs(n, steps)
  BY <1>6 DEF B
<1> QED  BY <1>7 DEF Runs, NativeSteps

InterpreterSteps(steps, s, p, n) == steps = [k \in 0 .. n |-> IF k = 0 THEN s
        ELSE IF steps[k - 1].trap # 0 THEN steps[k - 1] ELSE Trapping(Interpret(steps[k - 1], p[k]), p[k], k)]
LEMMA InterpreterExists ==
  ASSUME NEW s, NEW p, NEW n \in Nat
  PROVE  \E steps : InterpreterSteps(steps, s, p, n)
<1> DEFINE Runs(m, steps) == steps = [k \in 0 .. m |-> IF k = 0 THEN s
        ELSE IF steps[k - 1].trap # 0 THEN steps[k - 1] ELSE Trapping(Interpret(steps[k - 1], p[k]), p[k], k)]
           B == {m \in Nat : ~ \E steps : Runs(m, steps)}
<1>1. \E steps : Runs(0, steps)
  <2> DEFINE steps == [k \in 0 .. 0 |-> s]
  <2>1. [k \in 0 .. 0 |-> s] = [k \in 0 .. 0 |-> IF k = 0 THEN s ELSE IF steps[k - 1].trap # 0 THEN steps[k - 1]
          ELSE Trapping(Interpret(steps[k - 1], p[k]), p[k], k)]
    <3> SUFFICES ASSUME NEW k \in 0 .. 0 PROVE (s) = (IF k = 0 THEN s
            ELSE IF steps[k - 1].trap # 0 THEN steps[k - 1] ELSE Trapping(Interpret(steps[k - 1], p[k]), p[k], k))
      BY Zenon
    <3> HIDE DEF steps
    <3> QED  OBVIOUS
  <2> QED  BY <2>1
<1>2. ASSUME NEW m \in Nat, NEW f, Runs(m, f)
      PROVE  \E steps : Runs(m + 1, steps)
  <2> DEFINE S(x, k) == IF x.trap # 0 THEN x ELSE Trapping(Interpret(x, p[k]), p[k], k)
             steps == [k \in 0 .. m + 1 |-> IF k = m + 1 THEN S(f[m], m + 1) ELSE f[k]]
  <2>1. \A k \in 0 .. m : f[k] = IF k = 0 THEN s ELSE S(f[k - 1], k)
    BY <1>2, Zenon
  <2> HIDE DEF S
  <2>2. steps[m + 1] = S(f[m], m + 1) /\ \A k \in 0 .. m : steps[k] = f[k]
    OBVIOUS
  <2> SUFFICES ASSUME NEW k \in 0 .. m + 1
               PROVE  steps[k] = IF k = 0 THEN s ELSE S(steps[k - 1], k)
    <3>1. steps = [k \in 0 .. m + 1 |-> steps[k]]
      OBVIOUS
    <3> HIDE DEF steps
    <3>2. [k \in 0 .. m + 1 |-> steps[k]] = [k \in 0 .. m + 1 |-> IF k = 0 THEN s ELSE S(steps[k - 1], k)]
      BY Zenon
    <3>3. steps = [k \in 0 .. m + 1 |-> IF k = 0 THEN s ELSE S(steps[k - 1], k)]
      BY <3>1, <3>2
    <3> QED  BY <3>3, Zenon DEF S
  <2> HIDE DEF steps
  <2>3. CASE k = m + 1
    <3>1. k # 0 /\ k - 1 = m /\ m \in 0 .. m
      BY <2>3
    <3> QED  BY <2>2, <2>3, <3>1
  <2>4. CASE k \in 1 .. m
    <3>1. k # 0 /\ k - 1 \in 0 .. m /\ k \in 0 .. m
      BY <2>4
    <3> QED  BY <2>1, <2>2, <3>1
  <2>5. CASE k = 0
    <3>1. 0 \in 0 .. m
      OBVIOUS
    <3>2. f[0] = s /\ steps[0] = f[0]
      BY <2>1, <2>2, <3>1
    <3> QED  BY <2>5, <3>2
  <2> QED  BY <2>3, <2>4, <2>5
<1> HIDE DEF Runs
<1>3. 0 \notin B
  BY <1>1
<1>4. \A m \in Nat : m \notin B => m + 1 \notin B
  BY <1>2
<1>5. B \subseteq Nat
  OBVIOUS
<1> HIDE DEF B
<1>6. B = {}
  BY <1>3, <1>4, <1>5, Induction
<1>7. \E steps : Runs(n, steps)
  BY <1>6 DEF B
<1> QED  BY <1>7 DEF Runs, InterpreterSteps

\* What the second walk notes of one instruction.
WalkSource(fp, i, end) ==
  CASE i.k = "fp" -> fp[i.r] [] i.k = "dn" -> end.d
    [] i.k = "pre" -> (IF end.a - 1 \in Cells THEN end.mem[end.a - 1] ELSE 0)
    [] OTHER -> (IF end.a \in Cells THEN end.mem[end.a] ELSE 0)
Walked(w, i, end) ==
  IF i.op \in {"INT", "TOMEM", "FNOP"} THEN w
  ELSE LET o == j5s_one_op_exc(w.fp, i, WalkSource(w.fp, i, end), end.single)
       IN  [fp |-> o.fp, exc |-> o.e, aexc |-> w.aexc \cup Accrued(o.e)]
WalkSteps(steps, s, end, p, n) == steps = [k \in 0 .. n |-> IF k = 0 THEN [fp |-> s.fp, exc |-> {}, aexc |-> {}]
        ELSE Walked(steps[k - 1], p[k], end)]
LEMMA WalkExists ==
  ASSUME NEW s, NEW end, NEW p, NEW n \in Nat
  PROVE  \E steps : WalkSteps(steps, s, end, p, n)
<1> DEFINE Runs(m, steps) == steps = [k \in 0 .. m |-> IF k = 0 THEN [fp |-> s.fp, exc |-> {}, aexc |-> {}]
        ELSE Walked(steps[k - 1], p[k], end)]
           B == {m \in Nat : ~ \E steps : Runs(m, steps)}
<1>1. \E steps : Runs(0, steps)
  <2> DEFINE steps == [k \in 0 .. 0 |-> [fp |-> s.fp, exc |-> {}, aexc |-> {}]]
  <2>1. [k \in 0 .. 0 |-> [fp |-> s.fp, exc |-> {}, aexc |-> {}]] = [k \in 0 .. 0 |->
          IF k = 0 THEN [fp |-> s.fp, exc |-> {}, aexc |-> {}] ELSE Walked(steps[k - 1], p[k], end)]
    <3> SUFFICES ASSUME NEW k \in 0 .. 0 PROVE ([fp |-> s.fp, exc |-> {}, aexc |-> {}])
            = (IF k = 0 THEN [fp |-> s.fp, exc |-> {}, aexc |-> {}] ELSE Walked(steps[k - 1], p[k], end))
      BY Zenon
    <3> HIDE DEF steps
    <3> QED  OBVIOUS
  <2> QED  BY <2>1
<1>2. ASSUME NEW m \in Nat, NEW f, Runs(m, f)
      PROVE  \E steps : Runs(m + 1, steps)
  <2> DEFINE S(x, k) == Walked(x, p[k], end)
             steps == [k \in 0 .. m + 1 |-> IF k = m + 1 THEN S(f[m], m + 1) ELSE f[k]]
  <2>1. \A k \in 0 .. m : f[k] = IF k = 0 THEN [fp |-> s.fp, exc |-> {}, aexc |-> {}] ELSE S(f[k - 1], k)
    BY <1>2, Zenon
  <2> HIDE DEF S
  <2>2. steps[m + 1] = S(f[m], m + 1) /\ \A k \in 0 .. m : steps[k] = f[k]
    OBVIOUS
  <2> SUFFICES ASSUME NEW k \in 0 .. m + 1
               PROVE  steps[k] = IF k = 0 THEN [fp |-> s.fp, exc |-> {}, aexc |-> {}] ELSE S(steps[k - 1], k)
    <3>1. steps = [k \in 0 .. m + 1 |-> steps[k]]
      OBVIOUS
    <3> HIDE DEF steps
    <3>2. [k \in 0 .. m + 1 |-> steps[k]] = [k \in 0 .. m + 1 |->
            IF k = 0 THEN [fp |-> s.fp, exc |-> {}, aexc |-> {}] ELSE S(steps[k - 1], k)]
      BY Zenon
    <3>3. steps = [k \in 0 .. m + 1 |-> IF k = 0 THEN [fp |-> s.fp, exc |-> {}, aexc |-> {}] ELSE S(steps[k - 1], k)]
      BY <3>1, <3>2
    <3> QED  BY <3>3, Zenon DEF S
  <2> HIDE DEF steps
  <2>3. CASE k = m + 1
    <3>1. k # 0 /\ k - 1 = m /\ m \in 0 .. m
      BY <2>3
    <3> QED  BY <2>2, <2>3, <3>1
  <2>4. CASE k \in 1 .. m
    <3>1. k # 0 /\ k - 1 \in 0 .. m /\ k \in 0 .. m
      BY <2>4
    <3> QED  BY <2>1, <2>2, <3>1
  <2>5. CASE k = 0
    <3>1. 0 \in 0 .. m
      OBVIOUS
    <3>2. f[0] = [fp |-> s.fp, exc |-> {}, aexc |-> {}] /\ steps[0] = f[0]
      BY <2>1, <2>2, <3>1
    <3> QED  BY <2>5, <3>2
  <2> QED  BY <2>3, <2>4, <2>5
<1> HIDE DEF Runs
<1>3. 0 \notin B
  BY <1>1
<1>4. \A m \in Nat : m \notin B => m + 1 \notin B
  BY <1>2
<1>5. B \subseteq Nat
  OBVIOUS
<1> HIDE DEF B
<1>6. B = {}
  BY <1>3, <1>4, <1>5, Induction
<1>7. \E steps : Runs(n, steps)
  BY <1>6 DEF B
<1> QED  BY <1>7 DEF Runs, WalkSteps

NativeTakes(steps, s, p, after) ==
  /\ steps[0] = FpLoaded(s, p)
  /\ \A k \in 1 .. Len(p) : steps[k] = EMIT_FPU(steps[k - 1], p[k], FPSR_Update_Needed(p \o after, k))
  /\ Native(s, p, after) = FpStored(s, steps[Len(p)], p)
LEMMA NativeRuns ==
  ASSUME NEW s, NEW p \in Seq(Insns), NEW after
  PROVE  \E steps : NativeTakes(steps, s, p, after)
<1> DEFINE Rule(steps) == [k \in 0 .. Len(p) |->
                           IF k = 0 THEN FpLoaded(s, p)
                           ELSE EMIT_FPU(steps[k - 1], p[k], FPSR_Update_Needed(p \o after, k))]
           f == CHOOSE steps : steps = Rule(steps)
<1>1. Len(p) \in Nat
  OBVIOUS
<1>0. \E steps : steps = Rule(steps)
  <2>1. \E steps : NativeSteps(steps, s, p, after, Len(p))
    BY <1>1, NativeExists
  <2> QED  BY <2>1, Zenon DEF NativeSteps
<1>2. f = Rule(f)
  BY <1>0, Zenon
<1>3. Native(s, p, after) = FpStored(s, f[Len(p)], p)
  BY DEF Native
<1> HIDE DEF f
<1>4. f[0] = FpLoaded(s, p)
  BY <1>1, <1>2
<1>5. \A k \in 1 .. Len(p) : f[k] = EMIT_FPU(f[k - 1], p[k], FPSR_Update_Needed(p \o after, k))
  BY <1>1, <1>2
<1>6. NativeTakes(f, s, p, after)
  BY <1>3, <1>4, <1>5 DEF NativeTakes
<1> QED  BY <1>6

InterpreterTakes(steps, s, p, after) ==
  /\ steps[0] = s
  /\ \A k \in 1 .. Len(p) :
       steps[k] = IF steps[k - 1].trap # 0 THEN steps[k - 1]
                  ELSE Trapping(Interpret(steps[k - 1], p[k]), p[k], k)
  /\ Interpreter(s, p, after) = Immediate(steps[Len(p)], after[1])
LEMMA InterpreterRuns ==
  ASSUME NEW s, NEW p \in Seq(Insns), NEW after
  PROVE  \E steps : InterpreterTakes(steps, s, p, after)
<1> DEFINE Rule(steps) == [k \in 0 .. Len(p) |->
                           IF k = 0 THEN s
                           ELSE IF steps[k - 1].trap # 0 THEN steps[k - 1]
                           ELSE Trapping(Interpret(steps[k - 1], p[k]), p[k], k)]
           f == CHOOSE steps : steps = Rule(steps)
<1>1. Len(p) \in Nat
  OBVIOUS
<1>0. \E steps : steps = Rule(steps)
  <2>1. \E steps : InterpreterSteps(steps, s, p, Len(p))
    BY <1>1, InterpreterExists
  <2> QED  BY <2>1, Zenon DEF InterpreterSteps
<1>2. f = Rule(f)
  BY <1>0, Zenon
<1>3. Interpreter(s, p, after) = Immediate(f[Len(p)], after[1])
  BY DEF Interpreter
<1> HIDE DEF f
<1>4. f[0] = s
  BY <1>1, <1>2
<1>5. \A k \in 1 .. Len(p) :
        f[k] = IF f[k - 1].trap # 0 THEN f[k - 1] ELSE Trapping(Interpret(f[k - 1], p[k]), p[k], k)
  BY <1>1, <1>2
<1>6. InterpreterTakes(f, s, p, after)
  BY <1>3, <1>4, <1>5 DEF InterpreterTakes
<1> QED  BY <1>6

WalkTakes(steps, s, end, p) ==
  /\ steps[0] = [fp |-> s.fp, exc |-> {}, aexc |-> {}]
  /\ \A k \in 1 .. Len(p) : steps[k] = Walked(steps[k - 1], p[k], end)
  /\ j5s_fp_exc_walk(s.fp, end, p) = steps[Len(p)]
LEMMA WalkRuns ==
  ASSUME NEW s, NEW end, NEW p \in Seq(Insns)
  PROVE  \E steps : WalkTakes(steps, s, end, p)
<1> DEFINE Rule(steps) == [k \in 0 .. Len(p) |->
                           IF k = 0 THEN [fp |-> s.fp, exc |-> {}, aexc |-> {}] ELSE Walked(steps[k - 1], p[k], end)]
           f == CHOOSE steps : steps = Rule(steps)
<1>1. Len(p) \in Nat
  OBVIOUS
<1>0. \E steps : steps = Rule(steps)
  <2>1. \E steps : WalkSteps(steps, s, end, p, Len(p))
    BY <1>1, WalkExists
  <2> QED  BY <2>1, Zenon DEF WalkSteps
<1>2. f = Rule(f)
  BY <1>0, Zenon
<1>3. j5s_fp_exc_walk(s.fp, end, p) = f[Len(p)]
  BY DEF j5s_fp_exc_walk, Walked, WalkSource
<1> HIDE DEF f
<1>4. f[0] = [fp |-> s.fp, exc |-> {}, aexc |-> {}]
  BY <1>1, <1>2
<1>5. \A k \in 1 .. Len(p) : f[k] = Walked(f[k - 1], p[k], end)
  <2> SUFFICES ASSUME NEW k \in 1 .. Len(p) PROVE f[k] = Walked(f[k - 1], p[k], end)
    OBVIOUS
  <2>1. k \in 0 .. Len(p) /\ k # 0
    BY <1>1
  <2> QED  BY <1>2, <2>1, Zenon
<1>6. WalkTakes(f, s, end, p)
  BY <1>3, <1>4, <1>5 DEF WalkTakes
<1> QED  BY <1>6

-----------------------------------------------------------------------------
(* The translated block computes what the interpreter computes *)

\* The blocks and states the theorem is about: any number of instructions, any
\* numbers (in single precision, numbers whose results the model can round).
Ready(s, p, after) ==
  /\ Whole(s) /\ s.a \in Cells /\ s.exc = {} /\ s.trap = 0
  /\ s.single => /\ \A n \in FpRegs : Small(s.fp[n])
                 /\ Small(s.d) /\ \A c \in Cells : Small(s.mem[c])
  /\ p \in Seq(Insns) /\ after \in FpAfter /\ Followed(s, p, after)

\* The registers the first k instructions write.
Written(p, k) == UNION {MapsForWrite(p[j]) : j \in 1 .. k}

LEMMA WrittenGrows ==
  ASSUME NEW p, NEW k \in Nat \ {0}
  PROVE  Written(p, k) = Written(p, k - 1) \cup MapsForWrite(p[k]) /\ Written(p, 0) = {}
<1>1. 1 .. k = (1 .. k - 1) \cup {k} /\ 1 .. 0 = {}
  OBVIOUS
<1>2. \A n : n \in Written(p, k) <=> n \in Written(p, k - 1) \/ n \in MapsForWrite(p[k])
  BY <1>1 DEF Written
<1> QED  BY <1>1, <1>2 DEF Written

LEMMA OthersWriteNothing ==
  ASSUME NEW i, i.op \in Others
  PROVE  MapsForWrite(i) = {} /\ i.op \notin Operations
BY LibmNames DEF Others, MapsForWrite, Monadic, Dyadic, Operations

LEMMA InstructionIs ==
  ASSUME NEW s, NEW p, NEW after, Ready(s, p, after), NEW k \in 1 .. Len(p)
  PROVE  LET i == p[k]
         IN  /\ i \in Insns /\ ~i.look /\ k \in DOMAIN p
             /\ i.op \in Operations \/ i.op \in Others
             /\ i.op \in Operations => Plain(i) /\ Reads(i) \subseteq Live(p) \cup Written(p, k - 1)
             /\ i.op = "TOMEM" => i.dst \in Live(p) \cup Written(p, k - 1)
             /\ (s.single \/ s.enabled # {}) => (\A j \in 1 .. k - 1 : p[j].op \in Others)
             /\ (i.op \in Operations /\ \E j \in 1 .. Len(p) : p[j].op \in Others) => i.k = "fp"
             /\ i.op \in Unknown => \A j \in 1 .. Len(p) : j # k => p[j].op \in Others
<1> DEFINE i == p[k]
<1>1. p \in Seq(Insns) /\ DOMAIN p = 1 .. Len(p) /\ Len(p) \in Nat /\ i \in Insns
  BY DEF Ready
<1>2. i.op \in Operations \/ i.op \in Others
  BY <1>1 DEF Insns
<1>3. /\ i.k \notin {"post", "pre"} \/ i.op = "TOMEM"
      /\ ~i.look
      /\ i.op \in {"FMOD", "FREM", "FSCALE"} => i.dst \in Live(p) \cup Written(p, k - 1)
      /\ i.op = "FSCALE" => ~(i.k = "fp" /\ i.r = 0)
      /\ i.op = "FSINCOS" => i.cos # i.dst
      /\ i.op \in Unknown =>
           \A n \in DOMAIN p : p[n].op \in {"INT", "TOMEM"} \/ \A j \in DOMAIN p : j # n => p[j].op \in {"INT", "TOMEM"}
  BY <1>1 DEF Ready, Followed, Written
<1>4. i.op \in Operations => i.op \notin Others
  BY OthersWriteNothing
<1>5. i.op \in Operations => Plain(i)
  BY <1>1, <1>3, <1>4 DEF Plain, Others
<1>6. MapsForRead(i) \subseteq Live(p) \cup Written(p, k - 1)
  <2> SUFFICES ASSUME NEW n \in MapsForRead(i), n \notin Written(p, k - 1) PROVE n \in Live(p)
    OBVIOUS
  <2>1. n \in FpRegs
    BY <1>1 DEF MapsForRead, Insns, Words
  <2>2. \A j \in 1 .. k - 1 : n \notin MapsForWrite(p[j])
    BY DEF Written
  <2> QED  BY <1>1, <2>1, <2>2 DEF Live
<1>7. i.op \in Operations => Reads(i) \subseteq Live(p) \cup Written(p, k - 1)
  BY <1>3, <1>6 DEF Reads
<1>8. i.op = "TOMEM" => i.dst \in Live(p) \cup Written(p, k - 1)
  BY <1>6 DEF MapsForRead
<1>9. (s.single \/ s.enabled # {}) => \A j \in 1 .. Len(p) - 1 : p[j].op \in {"INT", "TOMEM"}
  BY DEF Ready, Followed
<1>10. (s.single \/ s.enabled # {}) => \A j \in 1 .. k - 1 : p[j].op \in Others
  <2>1. \A j \in 1 .. k - 1 : j \in 1 .. Len(p) - 1
    BY <1>1
  <2> QED  BY <1>9, <2>1 DEF Others
<1>11. (i.op \in Operations /\ \E j \in 1 .. Len(p) : p[j].op \in Others) => i.k = "fp"
  <2> SUFFICES ASSUME i.op \in Operations, NEW j \in 1 .. Len(p), p[j].op \in Others PROVE i.k = "fp"
    OBVIOUS
  <2>1. {p[n].op : n \in DOMAIN p} \cap {"INT", "TOMEM"} # {}
    BY <1>1 DEF Others
  <2>2. \A n \in DOMAIN p : p[n].op \in {"INT", "TOMEM"} \/ p[n].k = "fp"
    BY <2>1 DEF Ready, Followed
  <2> QED  BY <1>1, <1>4, <2>2 DEF Others
<1>12. i.op \in Unknown => \A j \in 1 .. Len(p) : j # k => p[j].op \in Others
  <2>1. i.op \in Unknown => i.op \notin {"INT", "TOMEM"}
    BY DEF Unknown
  <2> QED  BY <1>1, <1>3, <2>1 DEF Others
<1> QED  BY <1>1, <1>2, <1>3, <1>5, <1>7, <1>8, <1>10, <1>11, <1>12

\* What the translated state h and the interpreter's state t have in common
\* after k instructions: the registers loaded or written so far, everything
\* else but the exceptions, and the flags if anybody still looks.
Fixed(e, s) == e.single = s.single /\ e.enabled = s.enabled /\ e.ctl = s.ctl /\ e.pc = s.pc
Simulates(h, t, s, p, k, need) ==
  /\ Whole(h) /\ Whole(t) /\ Fixed(h, s) /\ Fixed(t, s)
  /\ h.d = t.d /\ h.a = t.a /\ h.mem = t.mem
  /\ h.exc = s.exc /\ h.aexc = s.aexc /\ h.trap = s.trap
  /\ \A n \in Live(p) \cup Written(p, k) :
       t.fp[n] = IF s.single /\ n \in Written(p, k) THEN Single(h.fp[n]) ELSE h.fp[n]
  /\ \A n \in FpRegs : n \notin Written(p, k) => t.fp[n] = s.fp[n]
  /\ need => h.cc = t.cc
  /\ (\A j \in 1 .. Len(p) : p[j].op \notin Others) => t.d = s.d /\ t.a = s.a /\ t.mem = s.mem
  /\ t.trap = IF t.exc \cap s.enabled # {} THEN k ELSE 0
  /\ k < Len(p) => t.exc \cap s.enabled = {}

\* A trap changes nothing else.
LEMMA TrappingIs ==
  ASSUME NEW x, NEW i, NEW k, Whole(x)
  PROVE  LET t == Trapping(x, i, k)
         IN  /\ Whole(t)
             /\ t.fp = x.fp /\ t.d = x.d /\ t.a = x.a /\ t.mem = x.mem /\ t.cc = x.cc /\ t.exc = x.exc /\ t.aexc = x.aexc
             /\ Fixed(t, x)
             /\ t.trap = IF i.op \notin Others /\ x.exc \cap x.enabled # {} THEN k ELSE x.trap
<1> DEFINE t == Trapping(x, i, k)
           r == IF i.op \notin Others /\ x.exc \cap x.enabled # {} THEN k ELSE x.trap
<1>1. t = IF i.op \notin Others /\ x.exc \cap x.enabled # {} THEN [x EXCEPT !.trap = k] ELSE x
  BY DEF Trapping, Others
<1>2. t = [x EXCEPT !.trap = r]
  <2> HIDE DEF t
  <2>1. x = [x EXCEPT !.trap = x.trap]
    BY DEF Whole
  <2> QED  BY <1>1, <2>1
<1> HIDE DEF t, r
<1>3. t = [fp |-> x.fp, d |-> x.d, a |-> x.a, mem |-> x.mem, cc |-> x.cc, exc |-> x.exc, aexc |-> x.aexc,
           single |-> x.single, enabled |-> x.enabled, trap |-> r, ctl |-> x.ctl, pc |-> x.pc]
  BY <1>2 DEF Whole
<1> QED  BY <1>3 DEF Whole, Fixed, t, r

\* With single precision or a trap enabled nothing is written before the end.
LEMMA WrittenLast ==
  ASSUME NEW s, NEW p, NEW after, Ready(s, p, after), NEW k \in 1 .. Len(p), s.single \/ s.enabled # {}
  PROVE  Written(p, k - 1) = {}
<1>1. \A j \in 1 .. k - 1 : MapsForWrite(p[j]) = {}
  BY InstructionIs, OthersWriteNothing
<1> QED  BY <1>1 DEF Written

\* Both sides start an instruction from the same operands.
LEMMA SameOperands ==
  ASSUME NEW s, NEW p, NEW after, Ready(s, p, after), NEW k \in 1 .. Len(p),
         NEW h, NEW t, NEW need, Simulates(h, t, s, p, k - 1, need), NEW n \in Live(p) \cup Written(p, k - 1)
  PROVE  h.fp[n] = t.fp[n]
<1>1. t.fp[n] = IF s.single /\ n \in Written(p, k - 1) THEN Single(h.fp[n]) ELSE h.fp[n]
  BY DEF Simulates
<1>2. ~(s.single /\ n \in Written(p, k - 1))
  BY WrittenLast
<1> QED  BY <1>1, <1>2

LEMMA SmallOperands ==
  ASSUME NEW s, NEW p, NEW after, Ready(s, p, after), NEW k \in 1 .. Len(p),
         NEW h, NEW t, NEW need, Simulates(h, t, s, p, k - 1, need), s.single, p[k].op \in Operations
  PROVE  Small(Fetched(t, p[k])) /\ Small(t.fp[p[k].dst])
<1> DEFINE i == p[k]
<1>1. Plain(i) /\ i \in Insns
  BY InstructionIs
<1>2. i.dst \in FpRegs /\ (i.k = "fp" => i.r \in FpRegs) /\ i.k \notin {"post", "pre"}
  BY <1>1 DEF Plain, Insns, Words
<1>3. \A n \in FpRegs : t.fp[n] = s.fp[n] /\ Small(t.fp[n])
  BY WrittenLast DEF Simulates, Ready
<1>4. CASE i.k = "fp"
  BY <1>2, <1>3, <1>4 DEF Fetched, FPU_FetchData
<1>5. CASE i.k # "fp"
  <2>1. \A j \in 1 .. Len(p) : p[j].op \notin Others
    BY <1>5, InstructionIs
  <2>2. t.d = s.d /\ t.a = s.a /\ t.mem = s.mem
    BY <2>1 DEF Simulates
  <2>3. Fetched(t, i) = IF i.k = "dn" THEN t.d ELSE t.mem[t.a]
    BY <1>2, <1>5 DEF Fetched, FPU_FetchData, Cell
  <2>4. Small(s.d) /\ Small(s.mem[s.a])
    BY DEF Ready
  <2> QED  BY <1>2, <1>3, <2>2, <2>3, <2>4
<1> QED  BY <1>4, <1>5

\* An operation.
LEMMA OperationSimulates ==
  ASSUME NEW s, NEW p, NEW after, Ready(s, p, after), NEW k \in 1 .. Len(p),
         NEW h, NEW t, NEW needed, Simulates(h, t, s, p, k - 1, needed), NEW need, p[k].op \in Operations
  PROVE  Simulates(EMIT_FPU(h, p[k], need), Trapping(Interpret(t, p[k]), p[k], k), s, p, k, need)
<1> DEFINE i == p[k]
           g == EMIT_FPU(h, i, need)
           x == Interpret(t, i)
           y == Trapping(x, i, k)
<1>1. Plain(i) /\ Reads(i) \subseteq Live(p) \cup Written(p, k - 1) /\ i.op \notin Others
  BY InstructionIs, OthersWriteNothing
<1>2. Whole(h) /\ Whole(t)
  BY DEF Simulates
<1>3. Emitted(g, h, i, need) /\ Executed(x, t, i)
  BY <1>1, <1>2, Emits, Interprets
<1>4. /\ Whole(y) /\ y.fp = x.fp /\ y.d = x.d /\ y.a = x.a /\ y.mem = x.mem /\ y.cc = x.cc
      /\ y.exc = x.exc /\ y.aexc = x.aexc /\ Fixed(y, x)
      /\ y.trap = IF x.exc \cap x.enabled # {} THEN k ELSE x.trap
  BY <1>1, <1>3, TrappingIs DEF Executed
<1> HIDE DEF g, x, y
<1>5. \A n \in Reads(i) : h.fp[n] = t.fp[n]
  BY <1>1, SameOperands
<1>6. h.d = t.d /\ h.a = t.a /\ h.mem = t.mem
  BY DEF Simulates
<1>7. /\ \A n \in MapsForWrite(i) : Value(h, i, n) = Value(t, i, n)
      /\ Codes(h, i) = Codes(t, i)
  <2> HIDE DEF i
  <2>1. Plain(i) /\ SameSource(h, t, i)
    BY <1>1, <1>5, <1>6 DEF SameSource
  <2> QED  BY <2>1, OperandsDecide
<1>8. t.single = s.single /\ t.enabled = s.enabled
  BY DEF Simulates, Fixed
<1>9. Written(p, k) = Written(p, k - 1) \cup MapsForWrite(i)
  BY WrittenGrows
<1>10. RoundedCodes(t, i) = Codes(t, i)
  BY <1>1, <1>8, SmallOperands, RoundingKeepsCodes
<1>11. Whole(g) /\ Fixed(g, s) /\ Fixed(y, s)
  BY <1>3, <1>4 DEF Emitted, Executed, SameRest, Fixed, Simulates
<1>12. g.d = y.d /\ g.a = y.a /\ g.mem = y.mem /\ y.d = t.d /\ y.a = t.a /\ y.mem = t.mem
  BY <1>3, <1>4, <1>6 DEF Emitted, Executed, SameRest
<1>13. g.exc = s.exc /\ g.aexc = s.aexc /\ g.trap = s.trap
  BY <1>3 DEF Emitted, SameRest, Simulates
<1>14. ASSUME NEW n \in Live(p) \cup Written(p, k)
       PROVE  y.fp[n] = IF s.single /\ n \in Written(p, k) THEN Single(g.fp[n]) ELSE g.fp[n]
  <2>1. n \in FpRegs
    BY <1>1, <1>9, InstructionIs DEF Live, Written, MapsForWrite, Insns, Words, Plain
  <2>2. CASE n \in MapsForWrite(i)
    BY <1>3, <1>4, <1>7, <1>8, <1>9, <2>1, <2>2 DEF Emitted, Executed, Rounded
  <2>3. CASE n \notin MapsForWrite(i)
    <3>1. g.fp[n] = h.fp[n] /\ y.fp[n] = t.fp[n]
      BY <1>3, <1>4, <2>1, <2>3 DEF Emitted, Executed
    <3>2. t.fp[n] = IF s.single /\ n \in Written(p, k - 1) THEN Single(h.fp[n]) ELSE h.fp[n]
      BY <1>9, <2>3 DEF Simulates
    <3> QED  BY <1>9, <2>3, <3>1, <3>2
  <2> QED  BY <2>2, <2>3
<1>15. ASSUME NEW n \in FpRegs, n \notin Written(p, k)
       PROVE  y.fp[n] = s.fp[n]
  BY <1>3, <1>4, <1>9, <1>15 DEF Executed, Simulates
<1>16. need => g.cc = y.cc
  BY <1>3, <1>4, <1>7, <1>10 DEF Emitted, Executed
<1>17. t.trap = 0 /\ t.exc \cap s.enabled = {}
  BY DEF Simulates
<1>18. x.trap = t.trap /\ x.enabled = t.enabled
  BY <1>3 DEF Executed, SameRest
<1>19. y.trap = IF y.exc \cap s.enabled # {} THEN k ELSE 0
  BY <1>4, <1>8, <1>17, <1>18
<1>20. k < Len(p) => y.exc \cap s.enabled = {}
  <2>1. k < Len(p) => s.enabled = {}
    <3> SUFFICES ASSUME k < Len(p), s.enabled # {} PROVE FALSE
      OBVIOUS
    <3>1. k + 1 \in 1 .. Len(p) /\ k \in 1 .. k + 1 - 1
      BY DEF Ready
    <3> QED  BY <1>1, <3>1, InstructionIs
  <2> QED  BY <2>1
<1>21. (\A j \in 1 .. Len(p) : p[j].op \notin Others) => y.d = s.d /\ y.a = s.a /\ y.mem = s.mem
  BY <1>12 DEF Simulates
<1> QED  BY <1>4, <1>11, <1>12, <1>13, <1>14, <1>15, <1>16, <1>19, <1>20, <1>21 DEF Simulates, g, x, y

\* An integer instruction or a store.
LEMMA OtherSimulates ==
  ASSUME NEW s, NEW p, NEW after, Ready(s, p, after), NEW k \in 1 .. Len(p),
         NEW h, NEW t, NEW needed, Simulates(h, t, s, p, k - 1, needed), NEW need, p[k].op \in Others,
         need => needed
  PROVE  Simulates(EMIT_FPU(h, p[k], need), Trapping(Interpret(t, p[k]), p[k], k), s, p, k, need)
<1> DEFINE i == p[k]
           g == EMIT_FPU(h, i, need)
           x == Interpret(t, i)
           y == Trapping(x, i, k)
<1>1. g = Side(h, i) /\ x = Side(t, i)
  BY Sides
<1>2. Whole(h) /\ Whole(t)
  BY DEF Simulates
<1>3. Whole(g) /\ Whole(x) /\ SameFloat(g, h) /\ SameFloat(x, t)
  BY <1>1, <1>2, SideKeeps
<1>4. /\ Whole(y) /\ y.fp = x.fp /\ y.d = x.d /\ y.a = x.a /\ y.mem = x.mem /\ y.cc = x.cc
      /\ y.exc = x.exc /\ y.aexc = x.aexc /\ Fixed(y, x) /\ y.trap = x.trap
  BY <1>3, TrappingIs
<1> HIDE DEF g, x, y
<1>5. h.d = t.d /\ h.a = t.a /\ h.mem = t.mem
  BY DEF Simulates
<1>6. i.op = "TOMEM" => h.fp[i.dst] = t.fp[i.dst]
  BY InstructionIs, SameOperands
<1>7. g.d = x.d /\ g.a = x.a /\ g.mem = x.mem
  BY <1>1, <1>2, <1>5, <1>6, SidesAgree
<1>8. Written(p, k) = Written(p, k - 1)
  <2>1. MapsForWrite(i) = {}
    BY OthersWriteNothing
  <2>2. Written(p, k) = Written(p, k - 1) \cup MapsForWrite(i)
    BY WrittenGrows
  <2> QED  BY <2>1, <2>2
<1>9. Fixed(g, s) /\ Fixed(y, s)
  BY <1>3, <1>4 DEF SameFloat, Fixed, Simulates
<1>10. g.fp = h.fp /\ y.fp = t.fp /\ g.cc = h.cc /\ y.cc = t.cc /\ y.exc = t.exc /\ y.trap = t.trap
  BY <1>3, <1>4 DEF SameFloat
<1>11. g.exc = s.exc /\ g.aexc = s.aexc /\ g.trap = s.trap
  BY <1>3 DEF SameFloat, Simulates
<1>12. t.trap = 0 /\ t.exc \cap s.enabled = {}
  BY DEF Simulates
<1>13. need => g.cc = y.cc
  BY <1>10 DEF Simulates
<1>14. \A n \in Live(p) \cup Written(p, k) :
         y.fp[n] = IF s.single /\ n \in Written(p, k) THEN Single(g.fp[n]) ELSE g.fp[n]
  BY <1>8, <1>10 DEF Simulates
<1>15. \A n \in FpRegs : n \notin Written(p, k) => y.fp[n] = s.fp[n]
  BY <1>8, <1>10 DEF Simulates
<1>16. ~ \A j \in 1 .. Len(p) : p[j].op \notin Others
  OBVIOUS
<1> QED  BY <1>3, <1>4, <1>7, <1>9, <1>10, <1>11, <1>12, <1>13, <1>14, <1>15, <1>16 DEF Simulates, g, x, y

-----------------------------------------------------------------------------
(* The second walk notes what the interpreter raises *)

\* Of what the walk does not know, Followed only says that the block raises
\* nothing.
Met(p, k) == \E j \in 1 .. k : p[j].op \in Unknown
WalkFollows(w, t, s, p, k) ==
  /\ ~Met(p, k) => w.fp = t.fp /\ w.exc = t.exc /\ t.aexc = s.aexc \cup w.aexc
  /\ Met(p, k) => w.exc = {} /\ w.aexc = {} /\ (t.aexc = {} => t.exc = {} /\ s.aexc = {})
  /\ (\A j \in 1 .. k : p[j].op \in Others) => w.exc = {} /\ w.aexc = {} /\ t.exc = {} /\ t.aexc = s.aexc

LEMMA Accruing ==
  /\ Accrued({}) = {}
  /\ \A e : e \subseteq {"OPERR", "DZ", "INEX2"} /\ Accrued(e) = {} => e = {}
<1>1. Accrued({}) = {}
  BY DEF Accrued
<1>2. ASSUME NEW e, e \subseteq {"OPERR", "DZ", "INEX2"}, Accrued(e) = {}
      PROVE  e = {}
  <2>1. "OPERR" \in e => "AIOP" \in Accrued(e)
    BY DEF Accrued
  <2>2. "DZ" \in e => "ADZ" \in Accrued(e)
    BY DEF Accrued
  <2>3. "INEX2" \in e => "AINEX" \in Accrued(e)
    BY DEF Accrued
  <2> QED  BY <1>2, <2>1, <2>2, <2>3
<1> QED  BY <1>1, <1>2

LEMMA UnknownRaises ==
  ASSUME NEW t, NEW i, i.op \in Unknown
  PROVE  Raises(t, i) \subseteq {"OPERR", "DZ", "INEX2"}
<1> DEFINE a == t.fp[i.dst]
           b == Fetched(t, i)
<1>1. CASE i.op \in {"FSINCOS", "FMOVECR"}
  BY <1>1, LibmNames DEF Raises, Monadic, Dyadic
<1>2. CASE i.op \in {"FSGLDIV", "FSGLMUL"}
  <2> HIDE DEF a, b
  <2>1. \E v, e : Fdiv(a, b) = Q(v, e) /\ e \subseteq {"OPERR", "DZ", "INEX2"}
    <3>1. \/ \E v : Fdiv(a, b) \in {Q(v, {}), Q(v, {"OPERR"}), Q(v, {"DZ"}), Q(v, {"INEX2"})}
      BY DEF Fdiv
    <3> QED  BY <3>1
  <2>2. \E v, e : Fmul(a, b) = Q(v, e) /\ e \subseteq {"OPERR", "DZ", "INEX2"}
    <3>1. \E v : Fmul(a, b) \in {Q(v, {}), Q(v, {"OPERR"})}
      BY DEF Fmul
    <3> QED  BY <3>1
  <2>3. \/ i.op = "FSGLDIV" /\ Evaluate(i.op, a, b) = [Fdiv(a, b) EXCEPT !.v = Single(@)]
        \/ i.op = "FSGLMUL" /\ Evaluate(i.op, a, b) = [Fmul(a, b) EXCEPT !.v = Single(@)]
    BY <1>2, LibmNames DEF Evaluate
  <2>4. \A v, e : [Q(v, e) EXCEPT !.v = Single(@)].e = e
    BY DEF Q
  <2>5. Evaluate(i.op, a, b).e \subseteq {"OPERR", "DZ", "INEX2"}
    <3>1. CASE i.op = "FSGLDIV"
      <4>1. PICK v, e : Fdiv(a, b) = Q(v, e) /\ e \subseteq {"OPERR", "DZ", "INEX2"}
        BY <2>1
      <4>2. Evaluate(i.op, a, b) = [Q(v, e) EXCEPT !.v = Single(@)]
        BY <2>3, <3>1, <4>1
      <4>3. Evaluate(i.op, a, b).e = e
        BY <2>4, <4>2
      <4> QED  BY <4>1, <4>3
    <3>2. CASE i.op = "FSGLMUL"
      <4>1. PICK v, e : Fmul(a, b) = Q(v, e) /\ e \subseteq {"OPERR", "DZ", "INEX2"}
        BY <2>2
      <4>2. Evaluate(i.op, a, b) = [Q(v, e) EXCEPT !.v = Single(@)]
        BY <2>3, <3>2, <4>1
      <4>3. Evaluate(i.op, a, b).e = e
        BY <2>4, <4>2
      <4> QED  BY <4>1, <4>3
    <3> QED  BY <1>2, <3>1, <3>2
  <2> QED  BY <2>5 DEF Raises, a, b
<1> QED  BY <1>1, <1>2 DEF Unknown

\* The walk, with the state after the block, reads the operand the interpreter
\* read.
Keeps(end, s, p) ==
  /\ end.single = s.single
  /\ (\A j \in 1 .. Len(p) : p[j].op \notin Others) => end.d = s.d /\ end.a = s.a /\ end.mem = s.mem

LEMMA WalkReads ==
  ASSUME NEW s, NEW p, NEW after, Ready(s, p, after), NEW k \in 1 .. Len(p),
         NEW h, NEW t, NEW needed, Simulates(h, t, s, p, k - 1, needed), NEW end, Keeps(end, s, p),
         p[k].op \in Operations
  PROVE  WalkSource(t.fp, p[k], end) = Fetched(t, p[k])
<1> DEFINE i == p[k]
<1>1. Plain(i)
  BY InstructionIs
<1>2. i.k \notin {"post", "pre"}
  BY <1>1 DEF Plain
<1>3. CASE i.k = "fp"
  BY <1>3 DEF WalkSource, Fetched, FPU_FetchData
<1>4. CASE i.k # "fp"
  <2>1. \A j \in 1 .. Len(p) : p[j].op \notin Others
    BY <1>4, InstructionIs
  <2>2. t.d = s.d /\ t.a = s.a /\ t.mem = s.mem /\ end.d = s.d /\ end.a = s.a /\ end.mem = s.mem /\ s.a \in Cells
    BY <2>1 DEF Simulates, Keeps, Ready
  <2>3. Fetched(t, i) = IF i.k = "dn" THEN t.d ELSE t.mem[t.a]
    BY <1>2, <1>4 DEF Fetched, FPU_FetchData, Cell
  <2>4. WalkSource(t.fp, i, end) = IF i.k = "dn" THEN end.d ELSE end.mem[end.a]
    BY <1>2, <1>4, <2>2 DEF WalkSource
  <2> QED  BY <2>2, <2>3, <2>4
<1> QED  BY <1>3, <1>4

\* What the interpreter's state has after an operation and after another
\* instruction.
LEMMA StepOfOperation ==
  ASSUME NEW t, NEW i, NEW k, Whole(t), Plain(i)
  PROVE  LET y == Trapping(Interpret(t, i), i, k)
         IN  /\ y.fp = [n \in FpRegs |-> IF n \in MapsForWrite(i) THEN Rounded(t, Value(t, i, n)) ELSE t.fp[n]]
             /\ y.exc = Raises(t, i) /\ y.aexc = t.aexc \cup Accrued(Raises(t, i))
<1> DEFINE x == Interpret(t, i)
           y == Trapping(x, i, k)
<1>1. Executed(x, t, i)
  BY Interprets
<1> HIDE DEF x
<1>2. y.fp = x.fp /\ y.exc = x.exc /\ y.aexc = x.aexc
  BY <1>1, TrappingIs DEF Executed
<1>3. x.fp = [n \in FpRegs |-> x.fp[n]]
  BY <1>1 DEF Executed, Whole
<1>4. \A n \in FpRegs : x.fp[n] = IF n \in MapsForWrite(i) THEN Rounded(t, Value(t, i, n)) ELSE t.fp[n]
  BY <1>1 DEF Executed
<1>5. x.exc = Raises(t, i) /\ x.aexc = t.aexc \cup Accrued(Raises(t, i))
  BY <1>1 DEF Executed
<1> HIDE DEF y
<1> QED  BY <1>2, <1>3, <1>4, <1>5 DEF x, y

LEMMA StepOfOther ==
  ASSUME NEW t, NEW i, NEW k, Whole(t), i.op \in Others
  PROVE  LET y == Trapping(Interpret(t, i), i, k) IN y.fp = t.fp /\ y.exc = t.exc /\ y.aexc = t.aexc
<1> DEFINE x == Interpret(t, i)
           y == Trapping(x, i, k)
<1>1. x = Side(t, i)
  BY Sides
<1>2. Whole(x) /\ SameFloat(x, t)
  BY <1>1, SideKeeps
<1> HIDE DEF x
<1>3. y.fp = x.fp /\ y.exc = x.exc /\ y.aexc = x.aexc
  BY <1>2, TrappingIs
<1> HIDE DEF y
<1> QED  BY <1>2, <1>3 DEF SameFloat, x, y

\* An operation the walk knows, given the interpreter's operand.
LEMMA WalkedIs ==
  ASSUME NEW w, NEW t, NEW i, NEW end, Whole(t), Plain(i), w.fp = t.fp, end.single = t.single,
         WalkSource(t.fp, i, end) = Fetched(t, i), i.op \notin Unknown
  PROVE  LET v == Walked(w, i, end)
         IN  /\ v.fp = [n \in FpRegs |-> IF n \in MapsForWrite(i) THEN Rounded(t, Value(t, i, n)) ELSE t.fp[n]]
             /\ v.exc = Raises(t, i) /\ v.aexc = w.aexc \cup Accrued(Raises(t, i))
<1> DEFINE v == Walked(w, i, end)
           o == j5s_one_op_exc(t.fp, i, Fetched(t, i), end.single)
<1>1. i.op \in Operations /\ i.op \notin {"INT", "TOMEM", "FNOP"} /\ i.dst \in FpRegs
  BY LibmNames DEF Plain, Operations, Monadic, Dyadic, Insns, Words
<1>2. v = [fp |-> o.fp, exc |-> o.e, aexc |-> w.aexc \cup Accrued(o.e)]
  BY <1>1 DEF Walked
<1>3. t.fp = [n \in FpRegs |-> t.fp[n]]
  BY DEF Whole
<1>4. CASE i.op \in {"FCMP", "FTST"}
  <2>1. MapsForWrite(i) = {} /\ Raises(t, i) = {}
    BY <1>4, LibmNames DEF MapsForWrite, Raises, Monadic, Dyadic
  <2>2. o = [fp |-> t.fp, e |-> {}]
    BY <1>4 DEF j5s_one_op_exc
  <2> HIDE DEF o, v
  <2>3. v.fp = t.fp /\ v.exc = {} /\ v.aexc = w.aexc \cup Accrued({})
    BY <1>2, <2>2
  <2> QED  BY <1>3, <2>1, <2>3 DEF v
<1>5. CASE i.op \notin {"FCMP", "FTST"}
  <2>1. i.op \in Monadic \cup Dyadic /\ i.op \notin {"FSINCOS", "FMOVECR"}
    BY <1>1, <1>5 DEF Operations, Unknown
  <2>2. MapsForWrite(i) = {i.dst}
    BY <2>1 DEF MapsForWrite
  <2> DEFINE c == Evaluate(i.op, t.fp[i.dst], Fetched(t, i))
  <2>3. Value(t, i, i.dst) = c.v /\ Raises(t, i) = IF i.op = "FMOVE" THEN {} ELSE c.e
    BY <2>1 DEF Value, Raises
  <2>4. o = [fp |-> [t.fp EXCEPT ![i.dst] = IF end.single THEN Single(c.v) ELSE c.v],
             e |-> IF i.op = "FMOVE" THEN {} ELSE c.e]
    BY <1>5 DEF j5s_one_op_exc
  <2> HIDE DEF c, o, v
  <2> DEFINE r == Rounded(t, Value(t, i, i.dst))
  <2>5. r = IF end.single THEN Single(c.v) ELSE c.v
    BY <2>3 DEF Rounded
  <2> HIDE DEF r
  <2>6. o.fp = [t.fp EXCEPT ![i.dst] = r] /\ o.e = Raises(t, i)
    BY <2>3, <2>4, <2>5
  <2>7. o.fp = [n \in FpRegs |-> IF n = i.dst THEN r ELSE t.fp[n]]
    BY <1>1, <1>3, <2>6
  <2>8. v.fp = o.fp /\ v.exc = o.e /\ v.aexc = w.aexc \cup Accrued(o.e)
    BY <1>2
  <2>9. v.fp = [n \in FpRegs |-> IF n \in MapsForWrite(i) THEN Rounded(t, Value(t, i, n)) ELSE t.fp[n]]
    BY <2>2, <2>7, <2>8 DEF r
  <2> QED  BY <2>6, <2>8, <2>9 DEF v
<1> QED  BY <1>4, <1>5

LEMMA WalkStep ==
  ASSUME NEW s, NEW p, NEW after, Ready(s, p, after), NEW k \in 1 .. Len(p),
         NEW h, NEW t, NEW needed, Simulates(h, t, s, p, k - 1, needed), NEW end, Keeps(end, s, p),
         NEW w, WalkFollows(w, t, s, p, k - 1)
  PROVE  WalkFollows(Walked(w, p[k], end), Trapping(Interpret(t, p[k]), p[k], k), s, p, k)
<1> DEFINE i == p[k]
           v == Walked(w, i, end)
           y == Trapping(Interpret(t, i), i, k)
<1>1. Whole(t) /\ t.single = s.single
  BY DEF Simulates, Fixed
<1>2. k \in 1 .. k /\ \A j \in 1 .. k : j = k \/ j \in 1 .. k - 1
  OBVIOUS
<1>3. \A j \in 1 .. k - 1 : j \in 1 .. k /\ j # k /\ j \in 1 .. Len(p)
  BY DEF Ready
<1>4. Met(p, k) <=> Met(p, k - 1) \/ i.op \in Unknown
  BY <1>2, <1>3 DEF Met
<1>5. (\A j \in 1 .. k : p[j].op \in Others) <=> (i.op \in Others /\ \A j \in 1 .. k - 1 : p[j].op \in Others)
  BY <1>2, <1>3
<1>6. CASE i.op \in Others
  <2>1. i.op \notin Unknown /\ i.op \in {"INT", "TOMEM", "FNOP"}
    BY <1>6 DEF Others, Unknown
  <2>2. v = w
    BY <2>1 DEF Walked
  <2>3. y.fp = t.fp /\ y.exc = t.exc /\ y.aexc = t.aexc
    BY <1>1, <1>6, StepOfOther
  <2> HIDE DEF v, y
  <2> QED  BY <1>4, <1>5, <1>6, <2>1, <2>2, <2>3 DEF WalkFollows, v, y
<1>7. CASE i.op \in Operations
  <2>1. Plain(i) /\ i.op \notin Others
    BY <1>7, InstructionIs, OthersWriteNothing
  <2>2. ~Met(p, k - 1)
    <3> SUFFICES ASSUME NEW j \in 1 .. k - 1, p[j].op \in Unknown PROVE FALSE
      BY DEF Met
    <3>1. j \in 1 .. Len(p) /\ j # k
      BY <1>3
    <3>2. p[k].op \in Others
      BY <3>1, InstructionIs
    <3> QED  BY <2>1, <3>2
  <2>3. w.fp = t.fp /\ w.exc = t.exc /\ t.aexc = s.aexc \cup w.aexc
    BY <2>2 DEF WalkFollows
  <2>0. /\ y.fp = [n \in FpRegs |-> IF n \in MapsForWrite(i) THEN Rounded(t, Value(t, i, n)) ELSE t.fp[n]]
        /\ y.exc = Raises(t, i) /\ y.aexc = t.aexc \cup Accrued(Raises(t, i))
    <3> HIDE DEF i
    <3>1. Plain(i)
      BY <2>1
    <3> QED  BY <1>1, <3>1, StepOfOperation
  <2>4. y.exc = Raises(t, i) /\ y.aexc = t.aexc \cup Accrued(Raises(t, i))
    BY <2>0
  <2>5. CASE i.op \in Unknown
    <3>1. \A j \in 1 .. k - 1 : p[j].op \in Others
      BY <1>3, <2>5, InstructionIs
    <3>2. w.exc = {} /\ w.aexc = {} /\ t.aexc = s.aexc
      BY <3>1 DEF WalkFollows
    <3>3. v.exc = {} /\ v.aexc = {}
      <4>1. i.op \notin {"INT", "TOMEM", "FNOP"}
        BY <2>5 DEF Unknown
      <4>2. v = [fp |-> w.fp, exc |-> {}, aexc |-> w.aexc \cup Accrued({})]
        BY <2>5, <4>1 DEF Walked, j5s_one_op_exc
      <4> HIDE DEF v
      <4> QED  BY <3>2, <4>2, Accruing
    <3> HIDE DEF v, y
    <3>4. y.aexc = {} => y.exc = {} /\ s.aexc = {}
      BY <2>4, <2>5, <3>2, UnknownRaises, Accruing
    <3> QED  BY <1>4, <1>5, <2>1, <2>5, <3>3, <3>4 DEF WalkFollows, v, y
  <2>6. CASE i.op \notin Unknown
    <3>1. WalkSource(t.fp, i, end) = Fetched(t, i)
      BY <1>7, WalkReads
    <3>2. end.single = t.single
      BY <1>1 DEF Keeps
    <3>3. /\ v.fp = [n \in FpRegs |-> IF n \in MapsForWrite(i) THEN Rounded(t, Value(t, i, n)) ELSE t.fp[n]]
          /\ v.exc = Raises(t, i) /\ v.aexc = w.aexc \cup Accrued(Raises(t, i))
      BY <1>1, <2>1, <2>3, <2>6, <3>1, <3>2, WalkedIs
    <3>5. v.fp = y.fp
      BY <2>0, <3>3
    <3> HIDE DEF v, y
    <3>6. y.aexc = s.aexc \cup v.aexc
      BY <2>3, <2>4, <3>3
    <3> QED  BY <1>4, <1>5, <2>1, <2>2, <2>4, <2>6, <3>3, <3>5, <3>6 DEF WalkFollows, v, y
  <2> QED  BY <2>5, <2>6
<1> QED  BY <1>6, <1>7, InstructionIs

-----------------------------------------------------------------------------
(* The whole block *)

\* The instructions of the model are words.
Places == {"fp", "dn", "an", "ind", "post", "pre", "none", "imm"}
LEMMA FiIs ==
  ASSUME NEW op \in Names, NEW dst \in FpRegs, NEW k \in Places, NEW r \in Nat
  PROVE  /\ Fi(op, dst, k, r) \in Words /\ Fi(op, dst, k, r).op = op /\ Fi(op, dst, k, r).k = k
         /\ Fi(op, dst, k, r).r = r /\ Fi(op, dst, k, r).look = FALSE
<1>1. {} \in SUBSET Nat /\ 0 \in Nat /\ FALSE \in BOOLEAN
  OBVIOUS
<1>2. Fi(op, dst, k, r) \in Words
  BY <1>1 DEF Fi, Words, Places
<1> QED  BY <1>2 DEF Fi

LEMMA BlockWords ==
  ASSUME NEW p \in Seq(Insns)
  PROVE  p \in Seq(Words)
<1>1. \A k \in 1 .. Len(p) : p[k] \in Words
  BY DEF Insns
<1>2. p = [k \in 1 .. Len(p) |-> p[k]] /\ Len(p) \in Nat
  OBVIOUS
<1> QED  BY <1>1, <1>2

\* What follows a block: a branch that looks at the flags, or an immediate
\* addition that computes them anew.
LEMMA AfterIs ==
  ASSUME NEW after \in FpAfter
  PROVE  /\ after \in Seq(Words) /\ Len(after) \in Nat \ {0} /\ after[1] \in Words
         /\ after[1].op \in Decisive \/ after[1].op = "FADD"
         /\ after[1].op = "FADD" => FPSR_Update_Needed(after, 1) = TRUE
<1> DEFINE b == Fi("FBcc", 0, "none", 0)
           c == Fi("Bcc", 0, "none", 0)
           d == Fi("FADD", 1, "imm", 0)
           e == Fi("FNOP", 0, "none", 0)
<1>1. b \in Words /\ c \in Words /\ d \in Words /\ e \in Words
  <2>1. 0 \in FpRegs /\ 1 \in FpRegs /\ 0 \in Nat /\ "none" \in Places /\ "imm" \in Places
    BY DEF FpRegs, Places
  <2>2. "FBcc" \in Names /\ "Bcc" \in Names /\ "FADD" \in Names /\ "FNOP" \in Names
    BY DEF Names, Consumers, Operations, Dyadic
  <2>3. b \in Words
    BY <2>1, <2>2, FiIs
  <2>4. c \in Words
    BY <2>1, <2>2, FiIs
  <2>5. d \in Words
    BY <2>1, <2>2, FiIs
  <2>6. e \in Words
    BY <2>1, <2>2, FiIs
  <2> QED  BY <2>3, <2>4, <2>5, <2>6
<1>2. b.op = "FBcc" /\ c.op = "Bcc" /\ d.op = "FADD" /\ e.op = "FNOP" /\ e.look = FALSE
  BY DEF Fi
<1>3. after = <<b>> \/ after = <<c>> \/ after = <<d, e, b>>
  BY DEF FpAfter
<1> HIDE DEF b, c, d, e
<1>4. CASE after = <<b>>
  BY <1>1, <1>2, <1>4 DEF Decisive, Consumers
<1>5. CASE after = <<c>>
  BY <1>1, <1>2, <1>5 DEF Decisive, Consumers
<1>6. CASE after = <<d, e, b>>
  <2>1. after \in Seq(Words) /\ Len(after) = 3 /\ after[1] = d /\ after[2] = e /\ after[3] = b
    BY <1>1, <1>6
  <2>2. Skipped(after[2]) /\ after[3].op \in Decisive
    BY <1>2, <2>1 DEF Skipped, Decisive, Consumers
  <2>3. FPSR_Update_Needed(after, 2 - 1) = FPSR_Update_Needed(after, 2)
    <3>1. 2 \in 1 .. Len(after)
      BY <2>1
    <3> QED  BY <2>1, <2>2, <3>1, NeededIs
  <2>4. FPSR_Update_Needed(after, 3 - 1) = TRUE
    <3>1. 3 \in 1 .. Len(after)
      BY <2>1
    <3> QED  BY <2>1, <2>2, <3>1, NeededIs
  <2>5. 2 - 1 = 1 /\ 3 - 1 = 2
    OBVIOUS
  <2>6. FPSR_Update_Needed(after, 1) = TRUE
    BY <2>3, <2>4, <2>5
  <2> QED  BY <1>1, <1>2, <2>1, <2>6
<1> QED  BY <1>3, <1>4, <1>5, <1>6

\* Who looks between the instructions of a block, and at its end.
LEMMA NeededInBlock ==
  ASSUME NEW s, NEW p, NEW after, Ready(s, p, after), NEW k \in 1 .. Len(p), p[k].op \in Others,
         FPSR_Update_Needed(p \o after, k)
  PROVE  FPSR_Update_Needed(p \o after, k - 1)
<1> DEFINE q == p \o after
<1>1. p \in Seq(Words) /\ after \in Seq(Words)
  BY AfterIs, BlockWords DEF Ready
<1>2. q \in Seq(Words) /\ k \in 1 .. Len(q) /\ q[k] = p[k]
  BY <1>1
<1>3. Skipped(p[k]) \/ p[k].op \in Decisive
  BY InstructionIs DEF Others, Skipped, Decisive, Consumers
<1>4. FPSR_Update_Needed(q, k)
  OBVIOUS
<1> HIDE DEF q
<1>5. CASE Skipped(p[k])
  <2>1. FPSR_Update_Needed(q, k - 1) = FPSR_Update_Needed(q, k)
    BY <1>2, <1>5, NeededIs
  <2>2. FPSR_Update_Needed(q, k - 1)
    BY <1>4, <2>1
  <2> QED  BY <2>2 DEF q
<1>6. CASE p[k].op \in Decisive
  <2>1. FPSR_Update_Needed(q, k - 1) = TRUE
    BY <1>2, <1>6, NeededIs
  <2> QED  BY <2>1 DEF q
<1> QED  BY <1>3, <1>5, <1>6

LEMMA NeededAtEnd ==
  ASSUME NEW s, NEW p, NEW after, Ready(s, p, after), after[1].op # "FADD"
  PROVE  FPSR_Update_Needed(p \o after, Len(p))
<1> DEFINE q == p \o after
           k == Len(p) + 1
<1>1. p \in Seq(Words) /\ after \in Seq(Words) /\ Len(after) \in Nat \ {0} /\ after[1].op \in Decisive
  BY AfterIs, BlockWords DEF Ready
<1>2. q \in Seq(Words) /\ k \in 1 .. Len(q) /\ q[k] = after[1] /\ k - 1 = Len(p)
  BY <1>1
<1> HIDE DEF q, k
<1>3. FPSR_Update_Needed(q, k - 1) = TRUE
  BY <1>1, <1>2, NeededIs
<1> QED  BY <1>2, <1>3 DEF q

\* The prologue.
LEMMA LoadedSimulates ==
  ASSUME NEW s, NEW p, NEW after, Ready(s, p, after), NEW need
  PROVE  Simulates(FpLoaded(s, p), s, s, p, 0, need)
<1> DEFINE f == [n \in FpRegs |-> IF n \in Live(p) THEN s.fp[n] ELSE Junk]
           h == FpLoaded(s, p)
<1>1. h = [s EXCEPT !.fp = f]
  BY DEF FpLoaded
<1>2. f = [n \in FpRegs |-> f[n]] /\ \A n \in Live(p) : f[n] = s.fp[n]
  BY DEF Live
<1> HIDE DEF f, h
<1>3. Whole(s) /\ s.exc = {} /\ s.trap = 0
  BY DEF Ready
<1>4. h = [fp |-> f, d |-> s.d, a |-> s.a, mem |-> s.mem, cc |-> s.cc, exc |-> s.exc, aexc |-> s.aexc,
           single |-> s.single, enabled |-> s.enabled, trap |-> s.trap, ctl |-> s.ctl, pc |-> s.pc]
  BY <1>1, <1>3 DEF Whole
<1>5. Whole(h) /\ SameRest(h, s) /\ h.fp = f /\ h.cc = s.cc /\ h.exc = s.exc /\ h.aexc = s.aexc
  BY <1>2, <1>4 DEF Whole, SameRest
<1>6. Written(p, 0) = {}
  BY DEF Written
<1>7. Fixed(h, s) /\ Fixed(s, s)
  BY <1>5 DEF SameRest, Fixed
<1> QED  BY <1>2, <1>3, <1>5, <1>6, <1>7 DEF Simulates, SameRest, h

\* Prologue and body, the interpreter, and the walk from the stored state.
BlockIs(h, t, w, s, p, after) ==
  /\ Simulates(h, t, s, p, Len(p), FPSR_Update_Needed(p \o after, Len(p)))
  /\ WalkFollows(w, t, s, p, Len(p))
  /\ Native(s, p, after) = FpStored(s, h, p)
  /\ Interpreter(s, p, after) = Immediate(t, after[1])
  /\ j5s_fp_exc_walk(s.fp, FpStored(s, h, p), p) = w

LEMMA StoredKeeps ==
  ASSUME NEW h, NEW t, NEW s, NEW p, NEW k, NEW need, Simulates(h, t, s, p, k, need)
  PROVE  LET n == FpStored(s, h, p)
         IN  /\ Keeps(n, s, p) /\ Whole(n) /\ SameRest(n, h) /\ n.cc = h.cc /\ n.exc = h.exc /\ n.aexc = h.aexc
             /\ \A r \in FpRegs : n.fp[r] = IF r \notin DirtyRegs(p) THEN s.fp[r]
                                            ELSE IF s.single THEN Single(h.fp[r]) ELSE h.fp[r]
<1> DEFINE f == [r \in FpRegs |-> CASE r \notin DirtyRegs(p) -> s.fp[r]
                                    [] r \in DirtyRegs(p) /\ s.single -> Single(h.fp[r])
                                    [] OTHER -> h.fp[r]]
           n == FpStored(s, h, p)
<1>1. n = [h EXCEPT !.fp = f]
  BY DEF FpStored, Simulates, Whole
<1>2. f = [r \in FpRegs |-> f[r]]
  OBVIOUS
<1>3. \A r \in FpRegs : f[r] = IF r \notin DirtyRegs(p) THEN s.fp[r]
                               ELSE IF s.single THEN Single(h.fp[r]) ELSE h.fp[r]
  <2> SUFFICES ASSUME NEW r \in FpRegs
               PROVE  f[r] = IF r \notin DirtyRegs(p) THEN s.fp[r]
                             ELSE IF s.single THEN Single(h.fp[r]) ELSE h.fp[r]
    OBVIOUS
  <2>1. CASE r \notin DirtyRegs(p)
    BY <2>1
  <2>2. CASE r \in DirtyRegs(p) /\ s.single
    BY <2>2
  <2>3. CASE r \in DirtyRegs(p) /\ ~s.single
    BY <2>3
  <2> QED  BY <2>1, <2>2, <2>3
<1> HIDE DEF f, n
<1>4. Whole(h)
  BY DEF Simulates
<1>5. n = [fp |-> f, d |-> h.d, a |-> h.a, mem |-> h.mem, cc |-> h.cc, exc |-> h.exc, aexc |-> h.aexc,
           single |-> h.single, enabled |-> h.enabled, trap |-> h.trap, ctl |-> h.ctl, pc |-> h.pc]
  BY <1>1, <1>4 DEF Whole
<1>6. Whole(n) /\ SameRest(n, h) /\ n.fp = f /\ n.cc = h.cc /\ n.exc = h.exc /\ n.aexc = h.aexc
  BY <1>2, <1>5 DEF Whole, SameRest
<1>7. Keeps(n, s, p)
  BY <1>6 DEF Keeps, SameRest, Simulates, Fixed
<1> QED  BY <1>3, <1>6, <1>7 DEF n

LEMMA BlockRuns ==
  ASSUME NEW s, NEW p, NEW after, Ready(s, p, after)
  PROVE  \E h, t, w : BlockIs(h, t, w, s, p, after)
<1> DEFINE L == Len(p)
           N(k) == FPSR_Update_Needed(p \o after, k)
<1>1. p \in Seq(Insns) /\ L \in Nat
  BY DEF Ready
<1>2. PICK hs : /\ hs[0] = FpLoaded(s, p)
                /\ \A k \in 1 .. L : hs[k] = EMIT_FPU(hs[k - 1], p[k], N(k))
                /\ Native(s, p, after) = FpStored(s, hs[L], p)
  <2>1. \E steps : NativeTakes(steps, s, p, after)
    BY <1>1, NativeRuns
  <2> QED  BY <2>1 DEF NativeTakes
<1>3. PICK ts : /\ ts[0] = s
                /\ \A k \in 1 .. L : ts[k] = IF ts[k - 1].trap # 0 THEN ts[k - 1]
                                             ELSE Trapping(Interpret(ts[k - 1], p[k]), p[k], k)
                /\ Interpreter(s, p, after) = Immediate(ts[L], after[1])
  <2>1. \E steps : InterpreterTakes(steps, s, p, after)
    BY <1>1, InterpreterRuns
  <2> QED  BY <2>1 DEF InterpreterTakes
<1> HIDE DEF L, N
<1>4. ASSUME NEW k \in 1 .. L, Simulates(hs[k - 1], ts[k - 1], s, p, k - 1, N(k - 1))
      PROVE  /\ ts[k] = Trapping(Interpret(ts[k - 1], p[k]), p[k], k)
             /\ Simulates(hs[k], ts[k], s, p, k, N(k))
  <2>1. ts[k - 1].trap = 0
    BY <1>1, <1>4 DEF Simulates, L
  <2>2. ts[k] = Trapping(Interpret(ts[k - 1], p[k]), p[k], k)
    BY <1>3, <2>1
  <2>3. hs[k] = EMIT_FPU(hs[k - 1], p[k], N(k))
    BY <1>2
  <2>4. k \in 1 .. Len(p)
    BY DEF L
  <2>5. CASE p[k].op \in Operations
    BY <1>4, <2>2, <2>3, <2>4, <2>5, OperationSimulates
  <2>6. CASE p[k].op \in Others
    <3>1. N(k) => N(k - 1)
      BY <2>4, <2>6, NeededInBlock DEF N
    <3> QED  BY <1>4, <2>2, <2>3, <2>4, <2>6, <3>1, OtherSimulates
  <2>7. p[k].op \in Operations \/ p[k].op \in Others
    BY <2>4, InstructionIs
  <2> QED  BY <2>2, <2>5, <2>6, <2>7
<1> DEFINE B == {m \in Nat : m <= L /\ ~Simulates(hs[m], ts[m], s, p, m, N(m))}
<1>5. B = {}
  <2>1. 0 \notin B
    BY <1>2, <1>3, LoadedSimulates
  <2>2. ASSUME NEW m \in Nat, m \notin B PROVE m + 1 \notin B
    <3> SUFFICES ASSUME m + 1 <= L PROVE Simulates(hs[m + 1], ts[m + 1], s, p, m + 1, N(m + 1))
      OBVIOUS
    <3>1. m + 1 \in 1 .. L /\ (m + 1) - 1 = m /\ m <= L
      BY <1>1
    <3>2. Simulates(hs[m], ts[m], s, p, m, N(m))
      BY <2>2, <3>1
    <3> DEFINE k == m + 1
    <3>3. k \in 1 .. L /\ k - 1 = m
      BY <3>1
    <3> HIDE DEF k
    <3>4. Simulates(hs[k], ts[k], s, p, k, N(k))
      BY <1>4, <3>2, <3>3
    <3> QED  BY <3>4 DEF k
  <2>3. B \subseteq Nat
    OBVIOUS
  <2> HIDE DEF B
  <2> QED  BY <2>1, <2>2, <2>3, Induction
<1>6. \A m \in 0 .. L : Simulates(hs[m], ts[m], s, p, m, N(m))
  BY <1>1, <1>5
<1> HIDE DEF B
<1> DEFINE end == FpStored(s, hs[L], p)
<1>7. Simulates(hs[L], ts[L], s, p, L, N(L))
  BY <1>1, <1>6
<1>8. Keeps(end, s, p)
  BY <1>7, StoredKeeps
<1> HIDE DEF end
<1>9. PICK ws : /\ ws[0] = [fp |-> s.fp, exc |-> {}, aexc |-> {}]
                /\ \A k \in 1 .. L : ws[k] = Walked(ws[k - 1], p[k], end)
                /\ j5s_fp_exc_walk(s.fp, end, p) = ws[L]
  <2>1. \E steps : WalkTakes(steps, s, end, p)
    BY <1>1, WalkRuns
  <2> QED  BY <2>1 DEF WalkTakes, L
<1> DEFINE C == {m \in Nat : m <= L /\ ~WalkFollows(ws[m], ts[m], s, p, m)}
<1>10. C = {}
  <2>1. WalkFollows(ws[0], ts[0], s, p, 0)
    <3>1. 1 .. 0 = {}
      OBVIOUS
    <3>2. ~Met(p, 0)
      BY <3>1 DEF Met
    <3>3. s.exc = {}
      BY DEF Ready
    <3> QED  BY <1>3, <1>9, <3>2, <3>3 DEF WalkFollows
  <2>2. ASSUME NEW m \in Nat, m \notin C PROVE m + 1 \notin C
    <3> SUFFICES ASSUME m + 1 <= L PROVE WalkFollows(ws[m + 1], ts[m + 1], s, p, m + 1)
      OBVIOUS
    <3> DEFINE k == m + 1
    <3>1. k \in 1 .. L /\ k - 1 = m /\ m \in 0 .. L /\ m <= L
      BY <1>1
    <3>2. WalkFollows(ws[m], ts[m], s, p, m) /\ Simulates(hs[m], ts[m], s, p, m, N(m))
      BY <1>6, <2>2, <3>1
    <3> HIDE DEF k
    <3>3. WalkFollows(ws[k - 1], ts[k - 1], s, p, k - 1) /\ Simulates(hs[k - 1], ts[k - 1], s, p, k - 1, N(k - 1))
      BY <3>1, <3>2
    <3>4. ts[k] = Trapping(Interpret(ts[k - 1], p[k]), p[k], k) /\ ws[k] = Walked(ws[k - 1], p[k], end)
      BY <1>4, <1>9, <3>1, <3>3
    <3>5. k \in 1 .. Len(p)
      BY <3>1 DEF L
    <3>6. WalkFollows(ws[k], ts[k], s, p, k)
      BY <1>8, <3>3, <3>4, <3>5, WalkStep
    <3> QED  BY <3>6 DEF k
  <2>3. C \subseteq Nat /\ 0 \notin C
    BY <2>1
  <2> HIDE DEF C
  <2> QED  BY <2>2, <2>3, Induction
<1>11. WalkFollows(ws[L], ts[L], s, p, L)
  BY <1>1, <1>10
<1>12. BlockIs(hs[L], ts[L], ws[L], s, p, after)
  BY <1>2, <1>3, <1>7, <1>9, <1>11 DEF BlockIs, L, N, end
<1> QED  BY <1>12

-----------------------------------------------------------------------------
(* The end of the block *)

\* What two states share when the flags do not count.
Agree(m, t) ==
  /\ m.fp = t.fp /\ m.d = t.d /\ m.a = t.a /\ m.mem = t.mem /\ m.ctl = t.ctl /\ m.pc = t.pc
  /\ m.exc = t.exc /\ m.aexc = t.aexc /\ m.trap = t.trap

LEMMA ApplyIs ==
  ASSUME NEW n, NEW w, NEW end, Whole(n)
  PROVE  LET m == j5s_fp_exc_apply(n, w, end)
         IN  /\ Whole(m) /\ m.fp = n.fp /\ m.d = n.d /\ m.a = n.a /\ m.mem = n.mem /\ m.cc = n.cc /\ Fixed(m, n)
             /\ m.exc = w.exc /\ m.aexc = n.aexc \cup w.aexc
             /\ m.trap = IF w.exc \cap n.enabled # {} THEN end ELSE 0
<1> DEFINE m == j5s_fp_exc_apply(n, w, end)
           x == w.exc
           y == n.aexc \cup w.aexc
           r == IF w.exc \cap n.enabled # {} THEN end ELSE 0
<1>1. m = [n EXCEPT !.exc = x, !.aexc = y, !.trap = r]
  BY DEF j5s_fp_exc_apply, Whole
<1> HIDE DEF m, x, y, r
<1>2. m = [fp |-> n.fp, d |-> n.d, a |-> n.a, mem |-> n.mem, cc |-> n.cc, exc |-> x, aexc |-> y,
           single |-> n.single, enabled |-> n.enabled, trap |-> r, ctl |-> n.ctl, pc |-> n.pc]
  BY <1>1 DEF Whole
<1>3. /\ Whole(m) /\ m.fp = n.fp /\ m.d = n.d /\ m.a = n.a /\ m.mem = n.mem /\ m.cc = n.cc /\ Fixed(m, n)
      /\ m.exc = x /\ m.aexc = y /\ m.trap = r
  BY <1>2 DEF Whole, Fixed
<1> QED  BY <1>3 DEF m, x, y, r

\* An immediate addition only adds to the accrued exceptions.
LEMMA ImmediateAccrues ==
  ASSUME NEW t, NEW i, Whole(t), Immediate(t, i).aexc = {}
  PROVE  t.aexc = {}
<1> DEFINE o == Evaluate("FADD", t.fp[i.dst], 2)
           v == IF t.single THEN Single(o.v) ELSE o.v
           f == [t.fp EXCEPT ![i.dst] = v]
           c == Compare2(v, 0)
           e == Immediate(t, i)
<1>1. e = t \/ e = [t EXCEPT !.fp = f, !.cc = c, !.exc = o.e, !.aexc = t.aexc \cup Accrued(o.e)]
  BY DEF Immediate, Whole
<1> HIDE DEF o, v, f, c, e
<1>2. CASE e = t
  BY <1>2 DEF e
<1>3. CASE e = [t EXCEPT !.fp = f, !.cc = c, !.exc = o.e, !.aexc = t.aexc \cup Accrued(o.e)]
  <2>1. e.aexc = t.aexc \cup Accrued(o.e)
    BY <1>3 DEF Whole
  <2>2. t.aexc \cup Accrued(o.e) = {}
    BY <2>1 DEF e
  <2> QED  BY <2>2
<1> QED  BY <1>1, <1>2, <1>3

\* After the epilogue and the second walk.
LEMMA BlockEnds ==
  ASSUME NEW s, NEW p, NEW after, Ready(s, p, after), NEW h, NEW t, NEW w, BlockIs(h, t, w, s, p, after)
  PROVE  LET m == SecondWalk(s, Native(s, p, after), p)
         IN  /\ Whole(m) /\ Whole(t) /\ Agree(m, t) /\ m.single = t.single
             /\ after[1].op # "FADD" => m.cc = t.cc
<1> DEFINE L == Len(p)
           need == FPSR_Update_Needed(p \o after, L)
           n == FpStored(s, h, p)
           m == SecondWalk(s, Native(s, p, after), p)
<1>1. Simulates(h, t, s, p, L, need) /\ WalkFollows(w, t, s, p, L)
  BY DEF BlockIs
<1>2. m = j5s_fp_exc_apply(n, w, L)
  BY DEF BlockIs, SecondWalk
<1>3. /\ Whole(n) /\ SameRest(n, h) /\ n.cc = h.cc /\ n.exc = h.exc /\ n.aexc = h.aexc
      /\ \A r \in FpRegs : n.fp[r] = IF r \notin DirtyRegs(p) THEN s.fp[r]
                                     ELSE IF s.single THEN Single(h.fp[r]) ELSE h.fp[r]
  <2> HIDE DEF L, need
  <2> QED  BY <1>1, StoredKeeps
<1> HIDE DEF n, m, need
<1>4. /\ Whole(m) /\ m.fp = n.fp /\ m.d = n.d /\ m.a = n.a /\ m.mem = n.mem /\ m.cc = n.cc /\ Fixed(m, n)
      /\ m.exc = w.exc /\ m.aexc = n.aexc \cup w.aexc
      /\ m.trap = IF w.exc \cap n.enabled # {} THEN L ELSE 0
  BY <1>2, <1>3, ApplyIs
<1>5. DirtyRegs(p) = Written(p, L)
  <2>1. DOMAIN p = 1 .. Len(p)
    BY DEF Ready
  <2> QED  BY <2>1 DEF DirtyRegs, Written
<1>6. m.fp = t.fp
  <2>1. \A r \in FpRegs : m.fp[r] = t.fp[r]
    BY <1>1, <1>3, <1>4, <1>5 DEF Simulates
  <2>2. m.fp = [r \in FpRegs |-> m.fp[r]] /\ t.fp = [r \in FpRegs |-> t.fp[r]]
    BY <1>1, <1>4 DEF Simulates, Whole
  <2> QED  BY <2>1, <2>2
<1>7. m.d = t.d /\ m.a = t.a /\ m.mem = t.mem /\ m.ctl = t.ctl /\ m.pc = t.pc /\ m.single = t.single
      /\ n.enabled = s.enabled /\ n.aexc = s.aexc
  BY <1>1, <1>3, <1>4 DEF Simulates, SameRest, Fixed
<1>8. w.exc = t.exc /\ s.aexc \cup w.aexc = t.aexc
  <2>1. CASE ~Met(p, L)
    BY <1>1, <2>1 DEF WalkFollows
  <2>2. CASE Met(p, L)
    <3>1. {p[k].op : k \in DOMAIN p} \cap Unknown # {}
      BY <2>2 DEF Met, Ready
    <3>2. Interpreter(s, p, after).aexc = {}
      BY <3>1 DEF Ready, Followed
    <3>3. t.aexc = {}
      <4>1. Interpreter(s, p, after) = Immediate(t, after[1]) /\ Whole(t)
        BY <1>1 DEF BlockIs, Simulates
      <4> QED  BY <3>2, <4>1, ImmediateAccrues
    <3> QED  BY <1>1, <2>2, <3>3 DEF WalkFollows
  <2> QED  BY <2>1, <2>2
<1>9. m.exc = t.exc /\ m.aexc = t.aexc
  BY <1>4, <1>7, <1>8
<1>10. m.trap = t.trap
  <2>1. t.trap = IF t.exc \cap s.enabled # {} THEN L ELSE 0
    BY <1>1 DEF Simulates
  <2> QED  BY <1>4, <1>7, <1>8, <2>1
<1>11. after[1].op # "FADD" => m.cc = t.cc
  <2> SUFFICES ASSUME after[1].op # "FADD" PROVE m.cc = t.cc
    OBVIOUS
  <2>1. need
    BY NeededAtEnd DEF need
  <2> QED  BY <1>1, <1>3, <1>4, <2>1 DEF Simulates
<1> QED  BY <1>1, <1>4, <1>6, <1>7, <1>9, <1>10, <1>11 DEF Agree, Simulates, m

\* The immediate addition starts from the same registers and sets the flags.
LEMMA ImmediatesAgree ==
  ASSUME NEW m, NEW t, NEW i, Whole(m), Whole(t), Agree(m, t), m.single = t.single, t.trap = 0,
         i.op = "FADD", i.dst \in FpRegs
  PROVE  LET o == j5d_fp_imm_arith(m, i, TRUE)
             r == Immediate(t, i)
         IN  Agree(o, r) /\ o.cc = r.cc
<1> DEFINE c == Evaluate("FADD", t.fp[i.dst], 2)
           v == IF t.single THEN Single(c.v) ELSE c.v
           f == [t.fp EXCEPT ![i.dst] = v]
           k == Compare2(v, 0)
           o == j5d_fp_imm_arith(m, i, TRUE)
           r == Immediate(t, i)
<1>1. r = [t EXCEPT !.fp = f, !.cc = k, !.exc = c.e, !.aexc = t.aexc \cup Accrued(c.e)]
  BY DEF Immediate, Whole
<1>2. j5s_one_op_exc(m.fp, i, 2, m.single) = [fp |-> f, e |-> c.e]
  BY DEF j5s_one_op_exc, Unknown, Agree
<1>3. f[i.dst] = v
  BY DEF Whole
<1>4. o = [m EXCEPT !.fp = f, !.cc = k, !.exc = c.e, !.aexc = m.aexc \cup Accrued(c.e)]
  <2> HIDE DEF f, v, k
  <2>1. [fp |-> f, e |-> c.e].fp = f /\ [fp |-> f, e |-> c.e].e = c.e
    OBVIOUS
  <2>2. o = [m EXCEPT !.fp = f, !.exc = c.e, !.aexc = @ \cup Accrued(c.e), !.cc = Compare2(f[i.dst], 0)]
    BY <1>2, <2>1 DEF j5d_fp_imm_arith
  <2>3. Compare2(f[i.dst], 0) = k
    BY <1>3 DEF k
  <2> HIDE DEF o, c
  <2> QED  BY <2>2, <2>3 DEF Whole
<1> DEFINE x == c.e
<1> HIDE DEF f, k, o, r, v, c
<1>5. r = [fp |-> f, d |-> t.d, a |-> t.a, mem |-> t.mem, cc |-> k, exc |-> x, aexc |-> t.aexc \cup Accrued(x),
           single |-> t.single, enabled |-> t.enabled, trap |-> t.trap, ctl |-> t.ctl, pc |-> t.pc]
  BY <1>1 DEF Whole
<1>6. o = [fp |-> f, d |-> m.d, a |-> m.a, mem |-> m.mem, cc |-> k, exc |-> x, aexc |-> m.aexc \cup Accrued(x),
           single |-> m.single, enabled |-> m.enabled, trap |-> m.trap, ctl |-> m.ctl, pc |-> m.pc]
  BY <1>4 DEF Whole
<1>7. Agree(o, r) /\ o.cc = r.cc
  BY <1>5, <1>6 DEF Agree
<1> QED  BY <1>7 DEF o, r

\* Blocks of any length (M68k_LINEF.c's emitters, the FP registers of j5c_ra.c
\* and the second walk of j5d_engine.c): where the second walk follows, the
\* translated block leaves the registers, memory, control registers, flags,
\* exception bytes and trap of the interpreter.
THEOREM FpBlocksMatch ==
  ASSUME NEW s, NEW p, NEW after, Ready(s, p, after)
  PROVE  LET o == Translated(s, p, after)
             r == Interpreter(s, p, after)
         IN  Agree(o, r) /\ (r.trap # 0 \/ o.cc = r.cc)
<1> DEFINE i == after[1]
           m == SecondWalk(s, Native(s, p, after), p)
           o == Translated(s, p, after)
           r == Interpreter(s, p, after)
<1>1. PICK h, t, w : BlockIs(h, t, w, s, p, after)
  BY BlockRuns
<1>2. Whole(m) /\ Whole(t) /\ Agree(m, t) /\ m.single = t.single /\ (i.op # "FADD" => m.cc = t.cc)
  BY <1>1, BlockEnds
<1>3. r = Immediate(t, i)
  BY <1>1 DEF BlockIs
<1>4. i \in Words /\ (i.op = "FADD" => FPSR_Update_Needed(after, 1) = TRUE)
  BY AfterIs DEF Ready
<1>5. i.dst \in FpRegs
  BY <1>4 DEF Words
<1>6. o = IF m.trap = 0 /\ i.op = "FADD" THEN j5d_fp_imm_arith(m, i, FPSR_Update_Needed(after, 1)) ELSE m
  BY DEF Translated, ThenImmediate
<1> HIDE DEF m, o, r, i
<1>7. m.trap = t.trap
  BY <1>2 DEF Agree
<1>8. CASE t.trap # 0 \/ i.op # "FADD"
  <2>1. r = t /\ o = m
    BY <1>3, <1>6, <1>7, <1>8 DEF Immediate
  <2> QED  BY <1>2, <1>8, <2>1 DEF o, r
<1>9. CASE t.trap = 0 /\ i.op = "FADD"
  <2>1. o = j5d_fp_imm_arith(m, i, TRUE)
    BY <1>4, <1>6, <1>7, <1>9
  <2>2. Agree(o, r) /\ o.cc = r.cc
    BY <1>2, <1>3, <1>5, <1>9, <2>1, ImmediatesAgree
  <2> QED  BY <2>2 DEF o, r
<1> QED  BY <1>8, <1>9

-----------------------------------------------------------------------------
(* The dispatcher's own instructions: conditionals *)

Found == {{}, {"Z"}, {"N"}, {"NAN"}}

\* The sixteen predicates of j5q_fp_cond_taken are the bits of the manual.
LEMMA PredicatesAgree ==
  ASSUME NEW cc \in Found, NEW pred \in 0 .. 31
  PROVE  j5q_fp_cond_taken(pred, cc) <=> PredicateHolds(pred, cc)
<1> DEFINE p == pred % 16
           r == Relation(cc)
           un == "NAN" \in cc
           z == "Z" \in cc
           n == "N" \in cc
<1>1. p \in 0 .. 15
  OBVIOUS
<1>2. \/ cc = {} /\ r = 2 /\ ~un /\ ~z /\ ~n
      \/ cc = {"Z"} /\ r = 1 /\ ~un /\ z /\ ~n
      \/ cc = {"N"} /\ r = 4 /\ ~un /\ ~z /\ n
      \/ cc = {"NAN"} /\ r = 8 /\ un /\ ~z /\ ~n
  BY DEF Found, Relation
<1>3. PredicateHolds(pred, cc) <=> (p \div r) % 2 = 1
  BY DEF PredicateHolds
<1>4. /\ p = 0 => (j5q_fp_cond_taken(pred, cc) <=> FALSE)
      /\ p = 1 => (j5q_fp_cond_taken(pred, cc) <=> z)
      /\ p = 2 => (j5q_fp_cond_taken(pred, cc) <=> ~un /\ ~z /\ ~n)
      /\ p = 3 => (j5q_fp_cond_taken(pred, cc) <=> z \/ (~n /\ ~un))
      /\ p = 4 => (j5q_fp_cond_taken(pred, cc) <=> n /\ ~un /\ ~z)
      /\ p = 5 => (j5q_fp_cond_taken(pred, cc) <=> z \/ (n /\ ~un))
      /\ p = 6 => (j5q_fp_cond_taken(pred, cc) <=> ~un /\ ~z)
      /\ p = 7 => (j5q_fp_cond_taken(pred, cc) <=> ~un)
      /\ p = 8 => (j5q_fp_cond_taken(pred, cc) <=> un)
      /\ p = 9 => (j5q_fp_cond_taken(pred, cc) <=> z \/ un)
      /\ p = 10 => (j5q_fp_cond_taken(pred, cc) <=> un \/ (~n /\ ~z))
      /\ p = 11 => (j5q_fp_cond_taken(pred, cc) <=> un \/ z \/ ~n)
      /\ p = 12 => (j5q_fp_cond_taken(pred, cc) <=> un \/ (n /\ ~z))
      /\ p = 13 => (j5q_fp_cond_taken(pred, cc) <=> un \/ z \/ n)
      /\ p = 14 => (j5q_fp_cond_taken(pred, cc) <=> ~z)
      /\ p = 15 => (j5q_fp_cond_taken(pred, cc) <=> TRUE)
  BY DEF j5q_fp_cond_taken
<1> HIDE DEF p, r, un, z, n
<1>5. \/ p = 0 \/ p = 1 \/ p = 2 \/ p = 3 \/ p = 4 \/ p = 5 \/ p = 6 \/ p = 7
      \/ p = 8 \/ p = 9 \/ p = 10 \/ p = 11 \/ p = 12 \/ p = 13 \/ p = 14 \/ p = 15
  BY <1>1
<1>6. CASE p = 0 \/ p = 1 \/ p = 2 \/ p = 3
  BY <1>2, <1>3, <1>4, <1>6
<1>7. CASE p = 4 \/ p = 5 \/ p = 6 \/ p = 7
  BY <1>2, <1>3, <1>4, <1>7
<1>8. CASE p = 8 \/ p = 9 \/ p = 10 \/ p = 11
  BY <1>2, <1>3, <1>4, <1>8
<1>9. CASE p = 12 \/ p = 13 \/ p = 14 \/ p = 15
  BY <1>2, <1>3, <1>4, <1>9
<1> QED  BY <1>5, <1>6, <1>7, <1>8, <1>9

\* BSUN: the bytes, and the trap when it is enabled.
LEMMA BsunIs ==
  ASSUME NEW s, NEW pred \in 0 .. 31, Whole(s), s.trap = 0
  PROVE  LET signals == pred \in 16 .. 31 /\ "NAN" \in s.cc
             t == IF signals THEN [s EXCEPT !.exc = @ \cup {"BSUN"}, !.aexc = @ \cup {"AIOP"}] ELSE s
         IN  /\ signals /\ "BSUN" \in s.enabled => j5s_engine_bsun(s, pred) = [t EXCEPT !.trap = 48]
             /\ ~(signals /\ "BSUN" \in s.enabled) => j5s_engine_bsun(s, pred) = t
             /\ Whole(t) /\ t.trap = 0 /\ t.cc = s.cc
<1> DEFINE signals == pred \in 16 .. 31 /\ "NAN" \in s.cc
           x == s.exc \cup {"BSUN"}
           y == s.aexc \cup {"AIOP"}
           t == IF signals THEN [s EXCEPT !.exc = @ \cup {"BSUN"}, !.aexc = @ \cup {"AIOP"}] ELSE s
           b == j5s_engine_bsun(s, pred)
           u == [s EXCEPT !.exc = x, !.aexc = y]
<1>1. (pred \div 16) % 2 = 0 <=> ~(pred \in 16 .. 31)
  OBVIOUS
<1>2. t = IF signals THEN u ELSE s
  BY DEF Whole
<1>3. b = IF ~signals THEN s
          ELSE [s EXCEPT !.exc = x, !.aexc = y, !.trap = IF "BSUN" \in s.enabled THEN 48 ELSE 0]
  BY <1>1 DEF j5s_engine_bsun, Whole
<1>0. u = [s EXCEPT !.exc = x, !.aexc = y]
  OBVIOUS
<1> HIDE DEF t, b, u, x, y
<1>4. u = [fp |-> s.fp, d |-> s.d, a |-> s.a, mem |-> s.mem, cc |-> s.cc, exc |-> x, aexc |-> y,
           single |-> s.single, enabled |-> s.enabled, trap |-> s.trap, ctl |-> s.ctl, pc |-> s.pc]
  BY <1>0 DEF Whole
<1>5. Whole(u) /\ u.trap = 0 /\ u.cc = s.cc
  BY <1>4 DEF Whole
<1>6. signals /\ "BSUN" \in s.enabled => b = [t EXCEPT !.trap = 48]
  <2> SUFFICES ASSUME signals, "BSUN" \in s.enabled PROVE b = [t EXCEPT !.trap = 48]
    OBVIOUS
  <2>1. b = [s EXCEPT !.exc = x, !.aexc = y, !.trap = 48]
    BY <1>3
  <2>2. t = u
    BY <1>2
  <2>3. b = [fp |-> s.fp, d |-> s.d, a |-> s.a, mem |-> s.mem, cc |-> s.cc, exc |-> x, aexc |-> y,
               single |-> s.single, enabled |-> s.enabled, trap |-> 48, ctl |-> s.ctl, pc |-> s.pc]
    BY <2>1 DEF Whole
  <2> QED  BY <1>4, <2>2, <2>3
<1>7. ~(signals /\ "BSUN" \in s.enabled) => b = t
  <2>1. CASE ~signals
    BY <1>2, <1>3, <2>1
  <2>2. CASE signals /\ "BSUN" \notin s.enabled
    <3>1. b = [s EXCEPT !.exc = x, !.aexc = y, !.trap = 0]
      BY <1>3, <2>2
    <3>2. t = u
      BY <1>2, <2>2
    <3>3. b = [fp |-> s.fp, d |-> s.d, a |-> s.a, mem |-> s.mem, cc |-> s.cc, exc |-> x, aexc |-> y,
                 single |-> s.single, enabled |-> s.enabled, trap |-> 0, ctl |-> s.ctl, pc |-> s.pc]
      BY <3>1 DEF Whole
    <3> QED  BY <1>4, <3>2, <3>3
  <2> QED  BY <2>1, <2>2
<1>8. Whole(t) /\ t.trap = 0 /\ t.cc = s.cc
  BY <1>2, <1>5
<1> QED  BY <1>6, <1>7, <1>8 DEF t, b

\* FDBcc, FTRAPcc, FScc and FBcc in any state that holds what a comparison
\* finds: the dispatcher does what the manual says.
LEMMA ConditionalsAgree ==
  ASSUME NEW s, NEW i, Whole(s), s.trap = 0, s.cc \in Found, i.pred \in 0 .. 31, i.op \in Conditional
  PROVE  FpDispatched(s, i) = Conditionally(s, i)
<1> DEFINE signals == i.pred \in 16 .. 31 /\ "NAN" \in s.cc
           traps == signals /\ "BSUN" \in s.enabled
           t == IF signals THEN [s EXCEPT !.exc = @ \cup {"BSUN"}, !.aexc = @ \cup {"AIOP"}] ELSE s
           b == j5s_engine_bsun(s, i.pred)
<1>1. (traps => b = [t EXCEPT !.trap = 48]) /\ (~traps => b = t) /\ Whole(t) /\ t.trap = 0 /\ t.cc = s.cc
  BY BsunIs
<1>2. j5q_fp_cond_taken(i.pred, s.cc) <=> PredicateHolds(i.pred, s.cc)
  BY PredicatesAgree
<1>3. CASE traps
  <2> HIDE DEF t, b
  <2>1. b.trap # 0
    BY <1>1, <1>3 DEF Whole
  <2>2. FpDispatched(s, i) = b
    BY <2>1 DEF FpDispatched, b, Conditional
  <2>3. Conditionally(s, i) = [t EXCEPT !.trap = 48]
    BY <1>3 DEF Conditionally, t
  <2> QED  BY <1>1, <1>3, <2>2, <2>3
<1>4. CASE ~traps
  <2>1. b.trap = 0 /\ b = t
    BY <1>1, <1>4
  <2> DEFINE true == PredicateHolds(i.pred, s.cc)
  <2>2. j5q_fp_cond_taken(i.pred, b.cc) <=> true
    BY <1>1, <1>2, <2>1
  <2> HIDE DEF true
  <2>3. CASE i.op = "FDBcc"
    <3>1. FpDispatched(s, i) = FDBcc(b, i)
      BY <2>1, <2>3 DEF FpDispatched, Conditional
    <3>2. Conditionally(s, i) = IF true THEN t ELSE Counts(t)
      BY <1>4, <2>3 DEF Conditionally, true
    <3> QED  BY <2>1, <2>2, <3>1, <3>2 DEF FDBcc
  <2>4. CASE i.op = "FTRAPcc"
    <3>1. FpDispatched(s, i) = FTRAPcc(b, i)
      BY <2>1, <2>4 DEF FpDispatched, Conditional
    <3>2. Conditionally(s, i) = IF true THEN [t EXCEPT !.trap = 7] ELSE t
      BY <1>4, <2>4 DEF Conditionally, true
    <3>3. t = [t EXCEPT !.trap = 0]
      <4> HIDE DEF t
      <4> QED  BY <1>1 DEF Whole
    <3> HIDE DEF t, b
    <3>4. FTRAPcc(b, i) = [t EXCEPT !.trap = IF true THEN 7 ELSE 0]
      BY <2>1, <2>2 DEF FTRAPcc
    <3> QED  BY <3>1, <3>2, <3>3, <3>4
  <2>5. CASE i.op = "FScc"
    <3>1. FpDispatched(s, i) = FScc(b, i)
      BY <2>1, <2>5 DEF FpDispatched, Conditional
    <3>2. Conditionally(s, i) = SetByte(t, i, IF true THEN 255 ELSE 0)
      BY <1>4, <2>5 DEF Conditionally, true
    <3> QED  BY <2>1, <2>2, <3>1, <3>2 DEF FScc
  <2>6. CASE i.op = "FBcc"
    <3>1. FpDispatched(s, i) = FBcc(b, i)
      BY <2>1, <2>6 DEF FpDispatched, Conditional
    <3>2. Conditionally(s, i) = [t EXCEPT !.pc = IF true THEN "to" ELSE "next"]
      BY <1>4, <2>6 DEF Conditionally, true
    <3> QED  BY <2>1, <2>2, <3>1, <3>2 DEF FBcc
  <2> QED  BY <2>3, <2>4, <2>5, <2>6 DEF Conditional
<1> QED  BY <1>3, <1>4

-----------------------------------------------------------------------------
(* The dispatcher's own instructions: register lists *)

\* How many registers of a list come before the j-th.
Rank(sel, j) == Cardinality({m \in sel : m < j})

LEMMA RankGrows ==
  ASSUME NEW sel, IsFiniteSet(sel), sel \subseteq Nat, NEW j \in Nat
  PROVE  Rank(sel, j) \in Nat /\ Rank(sel, j + 1) = IF j \in sel THEN Rank(sel, j) + 1 ELSE Rank(sel, j)
<1> DEFINE A == {m \in sel : m < j}
           B == {m \in sel : m < j + 1}
<1>1. IsFiniteSet(A) /\ Cardinality(A) \in Nat
  BY FS_Subset, FS_CardinalityType
<1>0. \A m \in sel : m \in Nat /\ (m < j + 1 <=> m < j \/ m = j)
  OBVIOUS
<1>2. CASE j \in sel
  <2>1. B = A \cup {j} /\ j \notin A
    <3>1. ~(j < j)
      OBVIOUS
    <3>2. j \notin A /\ \A m : m \in B <=> m \in A \/ m = j
      BY <1>0, <1>2, <3>1
    <3> HIDE DEF A, B
    <3> QED  BY <3>2
  <2> HIDE DEF A, B
  <2>2. Cardinality(B) = Cardinality(A) + 1
    BY <1>1, <2>1, FS_AddElement
  <2> QED  BY <1>1, <1>2, <2>2 DEF Rank, A, B
<1>3. CASE j \notin sel
  <2>1. B = A
    BY <1>0, <1>3
  <2> QED  BY <1>1, <1>3, <2>1 DEF Rank
<1> QED  BY <1>2, <1>3

LEMMA RankOrders ==
  ASSUME NEW sel, IsFiniteSet(sel), sel \subseteq Nat, NEW m \in sel, NEW n \in sel, m < n
  PROVE  Rank(sel, m) < Rank(sel, n)
<1> DEFINE A == {k \in sel : k < m + 1}
           B == {k \in sel : k < n}
<1>0. \A k \in sel : k \in Nat /\ (k < m + 1 => k < n)
  OBVIOUS
<1>1. A \subseteq B /\ B \subseteq sel /\ IsFiniteSet(B)
  <2>1. A \subseteq B /\ B \subseteq sel
    BY <1>0
  <2> HIDE DEF A, B
  <2> QED  BY <2>1, FS_Subset
<1>2. Cardinality(A) <= Cardinality(B) /\ Cardinality(B) \in Nat
  BY <1>1, FS_Subset, FS_CardinalityType
<1>3. Rank(sel, m + 1) = Rank(sel, m) + 1 /\ Rank(sel, m) \in Nat
  BY RankGrows
<1> QED  BY <1>2, <1>3 DEF Rank

LEMMA RankEnds ==
  ASSUME NEW sel, IsFiniteSet(sel), NEW first \in Nat, NEW count \in Nat, sel \subseteq first .. first + count - 1
  PROVE  Rank(sel, first) = 0 /\ Rank(sel, first + count) = Cardinality(sel)
<1>0. \A m \in sel : ~(m < first) /\ m < first + count
  OBVIOUS
<1>1. {m \in sel : m < first} = {} /\ {m \in sel : m < first + count} = sel
  BY <1>0
<1> QED  BY <1>1, FS_EmptySet DEF Rank

\* Register by register: what was moved after the registers D of the list.
Outwards(i) == i.op \in {"FMOVEM_out", "FCTRL_out"}
Placed(v, D, at, mem, file, i) ==
  /\ v = [at |-> v.at, mem |-> v.mem, file |-> v.file, ok |-> v.ok] /\ v.ok \in BOOLEAN
  /\ v.ok <=> \A n \in D : at[n] \in Cells
  /\ v.ok => /\ v.mem = [c \in Cells |-> v.mem[c]] /\ v.file = [n \in DOMAIN file |-> v.file[n]]
             /\ Outwards(i) => /\ v.file = file /\ \A n \in D : v.mem[at[n]] = file[n]
                       /\ \A c \in Cells : (\A n \in D : at[n] # c) => v.mem[c] = mem[c]
             /\ ~Outwards(i) => /\ v.mem = mem /\ \A n \in D : v.file[n] = mem[at[n]]
                        /\ \A n \in DOMAIN file \ D : v.file[n] = file[n]

\* No two registers of the list at the same place.
Apart(at, sel) == \A x, y \in sel : at[x] = at[y] => x = y

\* The walk stands where the register goes.
Stands(v, at, n, i) == v.ok => at[n] = IF i.k = "pre" THEN v.at - 1 ELSE v.at

LEMMA MoveOne ==
  ASSUME NEW i, NEW sel, NEW file, NEW v, NEW D, NEW n \in sel, NEW at, NEW mem,
         sel \subseteq DOMAIN file, D \subseteq sel, n \notin D,
         Apart(at, sel),
         Placed(v, D, at, mem, file, i),
         Stands(v, at, n, i)
  PROVE  LET u == MovedOne(v, n, i, sel, file)
         IN  /\ Placed(u, D \cup {n}, at, mem, file, i)
             /\ u.ok => v.ok /\ u.at = IF i.k = "pre" THEN at[n] ELSE at[n] + 1
<1> DEFINE u == MovedOne(v, n, i, sel, file)
           out == Outwards(i)
           c == IF i.k = "pre" THEN v.at - 1 ELSE v.at
           E == D \cup {n}
           z == IF i.k = "pre" THEN c ELSE c + 1
           mm == IF out THEN [v.mem EXCEPT ![c] = file[n]] ELSE v.mem
           ff == IF out THEN v.file ELSE [v.file EXCEPT ![n] = v.mem[c]]
<1>1. u = IF c \notin Cells THEN [v EXCEPT !.ok = FALSE] ELSE [at |-> z, ok |-> v.ok, mem |-> mm, file |-> ff]
  BY DEF MovedOne, Outwards
<1>0. v.ok => at[n] = c
  BY DEF Stands
<1> HIDE DEF u, z, mm, ff
<1>2. CASE ~v.ok
  <2>1. u = [at |-> u.at, mem |-> u.mem, file |-> u.file, ok |-> u.ok] /\ u.ok = FALSE
    <3>1. CASE c \notin Cells
      <4>1. u = [v EXCEPT !.ok = FALSE]
        BY <1>1, <3>1
      <4>2. u = [at |-> v.at, mem |-> v.mem, file |-> v.file, ok |-> FALSE]
        BY <4>1 DEF Placed
      <4> QED  BY <4>2
    <3>2. CASE c \in Cells
      <4>1. v.ok = FALSE
        BY <1>2 DEF Placed
      <4>2. u = [at |-> z, ok |-> FALSE, mem |-> mm, file |-> ff]
        BY <1>1, <3>2, <4>1
      <4> QED  BY <4>2
    <3> QED  BY <3>1, <3>2
  <2>2. ~ \A x \in E : at[x] \in Cells
    BY <1>2 DEF Placed
  <2> QED  BY <2>1, <2>2 DEF Placed, u
<1>3. CASE v.ok /\ c \notin Cells
  <2>1. u = [v EXCEPT !.ok = FALSE]
    BY <1>1, <1>3
  <2>2. u = [at |-> v.at, mem |-> v.mem, file |-> v.file, ok |-> FALSE]
    BY <2>1 DEF Placed
  <2>3. at[n] \notin Cells /\ n \in E
    BY <1>0, <1>3
  <2>4. u.ok = FALSE /\ u = [at |-> u.at, mem |-> u.mem, file |-> u.file, ok |-> u.ok]
    BY <2>2
  <2> QED  BY <2>3, <2>4 DEF Placed, u
<1>4. CASE v.ok /\ c \in Cells
  <2>1. u = [at |-> z, ok |-> v.ok, mem |-> mm, file |-> ff] /\ v.ok = TRUE /\ c = at[n]
    BY <1>0, <1>1, <1>4 DEF Placed
  <2>2. u.at = z /\ u.ok = TRUE /\ u.mem = mm /\ u.file = ff
        /\ u = [at |-> u.at, mem |-> u.mem, file |-> u.file, ok |-> u.ok]
    BY <2>1
  <2>3. \A x \in E : at[x] \in Cells
    BY <1>4, <2>1 DEF Placed
  <2>4. v.mem = [x \in Cells |-> v.mem[x]] /\ v.file = [x \in DOMAIN file |-> v.file[x]]
    BY <1>4 DEF Placed
  <2>5. CASE out
    <3>1. mm = [v.mem EXCEPT ![c] = file[n]] /\ ff = v.file
      BY <2>5 DEF mm, ff
    <3>2. mm = [x \in Cells |-> mm[x]] /\ mm[c] = file[n] /\ \A x \in Cells : x # c => mm[x] = v.mem[x]
      BY <1>4, <2>4, <3>1
    <3>3. /\ v.file = file /\ \A x \in D : v.mem[at[x]] = file[x]
          /\ \A y \in Cells : (\A x \in D : at[x] # y) => v.mem[y] = mem[y]
          /\ \A x \in D : at[x] \in Cells
      BY <1>4, <2>5 DEF Placed
    <3>4. \A x \in E : mm[at[x]] = file[x]
      BY <2>1, <3>2, <3>3 DEF Apart
    <3>5. \A y \in Cells : (\A x \in E : at[x] # y) => mm[y] = mem[y]
      BY <2>1, <3>2, <3>3
    <3> HIDE DEF out, E
    <3> QED  BY <2>1, <2>2, <2>3, <2>4, <2>5, <3>1, <3>2, <3>3, <3>4, <3>5 DEF Placed, u, z, out, E
  <2>6. CASE ~out
    <3>1. ff = [v.file EXCEPT ![n] = v.mem[c]] /\ mm = v.mem
      BY <2>6 DEF mm, ff
    <3>2. ff = [x \in DOMAIN file |-> ff[x]] /\ ff[n] = v.mem[c] /\ \A x \in DOMAIN file : x # n => ff[x] = v.file[x]
      BY <2>4, <3>1
    <3>3. /\ v.mem = mem /\ \A x \in D : v.file[x] = mem[at[x]]
          /\ \A x \in DOMAIN file \ D : v.file[x] = file[x]
      BY <1>4, <2>6 DEF Placed
    <3>4. \A x \in E : ff[x] = mem[at[x]]
      BY <2>1, <3>2, <3>3
    <3>5. \A x \in DOMAIN file \ E : ff[x] = file[x]
      BY <3>2, <3>3
    <3> HIDE DEF out, E
    <3> QED  BY <2>1, <2>2, <2>3, <2>4, <2>6, <3>1, <3>2, <3>3, <3>4, <3>5 DEF Placed, u, z, out, E
  <2> QED  BY <2>5, <2>6
<1> QED  BY <1>2, <1>3, <1>4

MoveSteps(steps, s, i, sel, file, first, count, n) == steps = [k \in 0 .. n |->
        IF k = 0 THEN [at |-> s.a, mem |-> s.mem, file |-> file, ok |-> TRUE]
        ELSE MovedOne(steps[k - 1], first + (IF i.k = "pre" THEN count - k ELSE k - 1), i, sel, file)]
LEMMA MovesExist ==
  ASSUME NEW s, NEW i, NEW sel, NEW file, NEW first, NEW count, NEW n \in Nat
  PROVE  \E steps : MoveSteps(steps, s, i, sel, file, first, count, n)
<1> DEFINE Runs(m, steps) == steps = [k \in 0 .. m |->
        IF k = 0 THEN [at |-> s.a, mem |-> s.mem, file |-> file, ok |-> TRUE]
        ELSE MovedOne(steps[k - 1], first + (IF i.k = "pre" THEN count - k ELSE k - 1), i, sel, file)]
           B == {m \in Nat : ~ \E steps : Runs(m, steps)}
<1>1. \E steps : Runs(0, steps)
  <2> DEFINE steps == [k \in 0 .. 0 |-> [at |-> s.a, mem |-> s.mem, file |-> file, ok |-> TRUE]]
  <2>1. [k \in 0 .. 0 |-> [at |-> s.a, mem |-> s.mem, file |-> file, ok |-> TRUE]] = [k \in 0 .. 0 |->
          IF k = 0 THEN [at |-> s.a, mem |-> s.mem, file |-> file, ok |-> TRUE]
          ELSE MovedOne(steps[k - 1], first + (IF i.k = "pre" THEN count - k ELSE k - 1), i, sel, file)]
    <3> SUFFICES ASSUME NEW k \in 0 .. 0 PROVE ([at |-> s.a, mem |-> s.mem, file |-> file, ok |-> TRUE])
            = (IF k = 0 THEN [at |-> s.a, mem |-> s.mem, file |-> file, ok |-> TRUE]
            ELSE MovedOne(steps[k - 1], first + (IF i.k = "pre" THEN count - k ELSE k - 1), i, sel, file))
      BY Zenon
    <3> HIDE DEF steps
    <3> QED  OBVIOUS
  <2> QED  BY <2>1
<1>2. ASSUME NEW m \in Nat, NEW f, Runs(m, f)
      PROVE  \E steps : Runs(m + 1, steps)
  <2> DEFINE S(x, k) == MovedOne(x, first + (IF i.k = "pre" THEN count - k ELSE k - 1), i, sel, file)
             steps == [k \in 0 .. m + 1 |-> IF k = m + 1 THEN S(f[m], m + 1) ELSE f[k]]
  <2>1. \A k \in 0 .. m : f[k] = IF k = 0 THEN [at |-> s.a, mem |-> s.mem, file |-> file, ok |-> TRUE]
          ELSE S(f[k - 1], k)
    BY <1>2, Zenon
  <2> HIDE DEF S
  <2>2. steps[m + 1] = S(f[m], m + 1) /\ \A k \in 0 .. m : steps[k] = f[k]
    OBVIOUS
  <2> SUFFICES ASSUME NEW k \in 0 .. m + 1
               PROVE  steps[k] = IF k = 0 THEN [at |-> s.a, mem |-> s.mem, file |-> file, ok |-> TRUE]
                       ELSE S(steps[k - 1], k)
    <3>1. steps = [k \in 0 .. m + 1 |-> steps[k]]
      OBVIOUS
    <3> HIDE DEF steps
    <3>2. [k \in 0 .. m + 1 |-> steps[k]] = [k \in 0 .. m + 1 |->
            IF k = 0 THEN [at |-> s.a, mem |-> s.mem, file |-> file, ok |-> TRUE] ELSE S(steps[k - 1], k)]
      BY Zenon
    <3>3. steps = [k \in 0 .. m + 1 |-> IF k = 0 THEN [at |-> s.a, mem |-> s.mem, file |-> file, ok |-> TRUE]
            ELSE S(steps[k - 1], k)]
      BY <3>1, <3>2
    <3> QED  BY <3>3, Zenon DEF S
  <2> HIDE DEF steps
  <2>3. CASE k = m + 1
    <3>1. k # 0 /\ k - 1 = m /\ m \in 0 .. m
      BY <2>3
    <3> QED  BY <2>2, <2>3, <3>1
  <2>4. CASE k \in 1 .. m
    <3>1. k # 0 /\ k - 1 \in 0 .. m /\ k \in 0 .. m
      BY <2>4
    <3> QED  BY <2>1, <2>2, <3>1
  <2>5. CASE k = 0
    <3>1. 0 \in 0 .. m
      OBVIOUS
    <3>2. f[0] = [at |-> s.a, mem |-> s.mem, file |-> file, ok |-> TRUE] /\ steps[0] = f[0]
      BY <2>1, <2>2, <3>1
    <3> QED  BY <2>5, <3>2
  <2> QED  BY <2>3, <2>4, <2>5
<1> HIDE DEF Runs
<1>3. 0 \notin B
  BY <1>1
<1>4. \A m \in Nat : m \notin B => m + 1 \notin B
  BY <1>2
<1>5. B \subseteq Nat
  OBVIOUS
<1> HIDE DEF B
<1>6. B = {}
  BY <1>3, <1>4, <1>5, Induction
<1>7. \E steps : Runs(n, steps)
  BY <1>6 DEF B
<1> QED  BY <1>7 DEF Runs, MoveSteps


\* The registers of a list are numbered without gaps.
Numbered(file, first, count) ==
  /\ file = [n \in DOMAIN file |-> file[n]] /\ DOMAIN file = first .. first + count - 1
  /\ first \in Nat /\ count \in Nat \ {0}

ListTakes(w, s, i, sel, file, first, count) ==
  /\ w[0] = [at |-> s.a, mem |-> s.mem, file |-> file, ok |-> TRUE]
  /\ \A k \in 1 .. count :
       w[k] = MovedOne(w[k - 1], first + (IF i.k = "pre" THEN count - k ELSE k - 1), i, sel, file)
  /\ OneByOne(s, i, sel, file) = w[count]

LEMMA ListRuns ==
  ASSUME NEW s, NEW i, NEW sel, NEW file, NEW first, NEW count, Numbered(file, first, count)
  PROVE  \E w : ListTakes(w, s, i, sel, file, first, count)
<1> DEFINE low == CHOOSE n \in DOMAIN file : \A m \in DOMAIN file : n <= m
           many == Cardinality(DOMAIN file)
           Rule(w) == [k \in 0 .. many |->
                         IF k = 0 THEN [at |-> s.a, mem |-> s.mem, file |-> file, ok |-> TRUE]
                         ELSE MovedOne(w[k - 1], low + (IF i.k = "pre" THEN many - k ELSE k - 1), i, sel, file)]
           f == CHOOSE w : w = Rule(w)
<1>1. first \in Nat /\ count \in Nat /\ count # 0 /\ DOMAIN file = first .. first + count - 1
  BY DEF Numbered
<1>2. many = count
  <2>1. Cardinality(first .. first + count - 1) = IF first > first + count - 1 THEN 0 ELSE first + count - 1 - first + 1
    BY <1>1, FS_Interval
  <2> QED  BY <1>1, <2>1
<1>3. low = first
  <2>1. first \in DOMAIN file /\ \A m \in DOMAIN file : first <= m
    BY <1>1
  <2>2. low \in DOMAIN file /\ \A m \in DOMAIN file : low <= m
    BY <2>1
  <2>3. low <= first /\ first <= low /\ low \in Nat
    BY <1>1, <2>1, <2>2
  <2> QED  BY <1>1, <2>3
<1>4. OneByOne(s, i, sel, file) = f[many]
  BY DEF OneByOne
<1> HIDE DEF low, many
<1>5. \E w : w = Rule(w)
  <2>1. \E w : MoveSteps(w, s, i, sel, file, low, many, many)
    BY <1>1, <1>2, MovesExist
  <2> QED  BY <2>1, Zenon DEF MoveSteps
<1>6. f = Rule(f)
  BY <1>5, Zenon
<1> HIDE DEF f
<1>7. f[0] = [at |-> s.a, mem |-> s.mem, file |-> file, ok |-> TRUE]
  BY <1>1, <1>2, <1>6
<1>8. ASSUME NEW k \in 1 .. many
      PROVE  f[k] = MovedOne(f[k - 1], low + (IF i.k = "pre" THEN many - k ELSE k - 1), i, sel, file)
  <2>1. k \in 0 .. many /\ k # 0
    BY <1>1, <1>2
  <2> QED  BY <1>6, <2>1, Zenon
<1>9. ListTakes(f, s, i, sel, file, first, count)
  BY <1>2, <1>3, <1>4, <1>7, <1>8 DEF ListTakes
<1> QED  BY <1>9

\* Where each register of the list goes.
LEMMA SlotsAre ==
  ASSUME NEW s, NEW i, NEW sel, IsFiniteSet(sel), sel \subseteq Nat, s.a \in Int
  PROVE  LET base == fmovem_resolve_ea(s, i, Cardinality(sel))
             at == Slots(s, i, sel)
         IN  /\ base \in Int /\ DOMAIN at = sel /\ \A n \in sel : at[n] = base + Rank(sel, n)
             /\ Apart(at, sel)
<1> DEFINE base == fmovem_resolve_ea(s, i, Cardinality(sel))
           at == Slots(s, i, sel)
<1>1. Cardinality(sel) \in Nat
  BY FS_CardinalityType
<1>2. base \in Int
  BY <1>1 DEF fmovem_resolve_ea
<1>3. at = [n \in sel |-> base + Rank(sel, n)]
  BY DEF Slots, Rank
<1> HIDE DEF base, at
<1>4. DOMAIN at = sel /\ \A n \in sel : at[n] = base + Rank(sel, n)
  BY <1>3
<1>5. ASSUME NEW x \in sel, NEW y \in sel, at[x] = at[y]
      PROVE  x = y
  <2>1. x \in Nat /\ y \in Nat
    OBVIOUS
  <2>2. Rank(sel, x) \in Nat /\ Rank(sel, y) \in Nat
    BY <2>1, RankGrows
  <2>3. Rank(sel, x) = Rank(sel, y)
    BY <1>2, <1>4, <1>5, <2>2
  <2>4. ~(x < y)
    <3> SUFFICES ASSUME x < y PROVE FALSE
      OBVIOUS
    <3>1. Rank(sel, x) < Rank(sel, y)
      BY RankOrders
    <3> QED  BY <2>2, <2>3, <3>1
  <2>5. ~(y < x)
    <3> SUFFICES ASSUME y < x PROVE FALSE
      OBVIOUS
    <3>1. Rank(sel, y) < Rank(sel, x)
      BY RankOrders
    <3> QED  BY <2>2, <2>3, <3>1
  <2> QED  BY <2>1, <2>4, <2>5
<1> QED  BY <1>2, <1>4, <1>5 DEF Apart, base, at

LEMMA ListPlaced ==
  ASSUME NEW s, NEW i, NEW sel, NEW file, NEW first, NEW count, Numbered(file, first, count),
         sel \subseteq DOMAIN file, s.a \in Int, s.mem = [c \in Cells |-> s.mem[c]]
  PROVE  LET w == OneByOne(s, i, sel, file)
         IN  /\ Placed(w, sel, Slots(s, i, sel), s.mem, file, i)
             /\ w.ok => w.at = IF i.k = "pre" THEN s.a - Cardinality(sel) ELSE s.a + Cardinality(sel)
<1> DEFINE pre == i.k = "pre"
           at == Slots(s, i, sel)
           base == fmovem_resolve_ea(s, i, Cardinality(sel))
           J(k) == IF pre THEN first + count - k ELSE first + k
           Done(k) == IF pre THEN {m \in sel : m >= J(k)} ELSE {m \in sel : m < J(k)}
<1>1. first \in Nat /\ count \in Nat \ {0} /\ DOMAIN file = first .. first + count - 1
  BY DEF Numbered
<1>2. sel \subseteq Nat /\ sel \subseteq first .. first + count - 1 /\ IsFiniteSet(sel)
  <2>1. sel \subseteq first .. first + count - 1 /\ sel \subseteq Nat
    BY <1>1
  <2>2. IsFiniteSet(first .. first + count - 1)
    BY <1>1, FS_Interval
  <2> QED  BY <2>1, <2>2, FS_Subset
<1>3. Cardinality(sel) \in Nat
  BY <1>2, FS_CardinalityType
<1>4. /\ base \in Int /\ DOMAIN at = sel /\ \A n \in sel : at[n] = base + Rank(sel, n)
      /\ Apart(at, sel)
  BY <1>2, SlotsAre
<1>5. base = IF pre THEN s.a - Cardinality(sel) ELSE s.a
  BY DEF fmovem_resolve_ea
<1>6. Rank(sel, first) = 0 /\ Rank(sel, first + count) = Cardinality(sel)
  BY <1>1, <1>2, RankEnds
<1>7. PICK w : /\ w[0] = [at |-> s.a, mem |-> s.mem, file |-> file, ok |-> TRUE]
               /\ \A k \in 1 .. count :
                    w[k] = MovedOne(w[k - 1], first + (IF i.k = "pre" THEN count - k ELSE k - 1), i, sel, file)
               /\ OneByOne(s, i, sel, file) = w[count]
  <2>1. \E w : ListTakes(w, s, i, sel, file, first, count)
    BY ListRuns
  <2> QED  BY <2>1 DEF ListTakes
<1> HIDE DEF at, base
<1> DEFINE I(k) == Placed(w[k], Done(k), at, s.mem, file, i) /\ (w[k].ok => w[k].at = base + Rank(sel, J(k)))
<1>8. I(0)
  <2>1. Done(0) = {}
    <3>1. \A m \in sel : m \in Nat /\ first <= m /\ m <= first + count - 1
      BY <1>1, <1>2
    <3>2. first + count - 0 = first + count /\ first + 0 = first
      BY <1>1
    <3>3. \A m \in sel : ~(m >= first + count) /\ ~(m < first)
      BY <1>1, <3>1
    <3> QED  BY <3>2, <3>3
  <2>2. w[0].at = base + Rank(sel, J(0))
    BY <1>1, <1>3, <1>5, <1>6, <1>7
  <2>3. Placed(w[0], {}, at, s.mem, file, i)
    <3> DEFINE v == w[0]
    <3>1. v = [at |-> s.a, mem |-> s.mem, file |-> file, ok |-> TRUE]
      BY <1>7
    <3> HIDE DEF v
    <3>2. v.at = s.a /\ v.mem = s.mem /\ v.file = file /\ v.ok = TRUE
      BY <3>1
    <3>3. file = [n \in DOMAIN file |-> file[n]]
      BY DEF Numbered
    <3> QED  BY <3>1, <3>2, <3>3 DEF Placed, v
  <2> HIDE DEF Done, J
  <2> QED  BY <2>1, <2>2, <2>3
<1>9. ASSUME NEW k \in 1 .. count, I(k - 1)
      PROVE  I(k)
  <2> DEFINE n == first + (IF pre THEN count - k ELSE k - 1)
             v == w[k - 1]
             u == w[k]
  <2>1. n \in Nat /\ (pre => J(k) = n /\ J(k - 1) = n + 1) /\ (~pre => J(k) = n + 1 /\ J(k - 1) = n)
    BY <1>1
  <2>2. u = MovedOne(v, n, i, sel, file)
    BY <1>7
  <2>3. Rank(sel, n) \in Nat /\ Rank(sel, n + 1) = IF n \in sel THEN Rank(sel, n) + 1 ELSE Rank(sel, n)
    <3> HIDE DEF n
    <3> QED  BY <1>2, <2>1, RankGrows
  <2>4. \A m \in sel : m \in Nat
    BY <1>2
  <2> HIDE DEF J, n, v, u, pre
  <2>5. Placed(v, Done(k - 1), at, s.mem, file, i) /\ (v.ok => v.at = base + Rank(sel, J(k - 1)))
    BY <1>9 DEF v
  <2>6. CASE n \notin sel
    <3>1. \A m \in sel : (m >= n <=> m >= n + 1) /\ (m < n <=> m < n + 1)
      BY <2>1, <2>4, <2>6
    <3>2. Done(k) = Done(k - 1)
      BY <2>1, <3>1
    <3>3. u = v
      BY <2>2, <2>6 DEF MovedOne
    <3>4. Rank(sel, J(k)) = Rank(sel, J(k - 1))
      BY <2>1, <2>3, <2>6
    <3> QED  BY <2>5, <3>2, <3>3, <3>4 DEF u
  <2>7. CASE n \in sel
    <3>1. \A m \in sel : (m >= n <=> m >= n + 1 \/ m = n) /\ (m < n + 1 <=> m < n \/ m = n)
      BY <2>1, <2>4
    <3>2. ~(n >= n + 1) /\ ~(n < n)
      BY <2>1
    <3>3. Done(k) = Done(k - 1) \cup {n} /\ n \notin Done(k - 1) /\ Done(k - 1) \subseteq sel
      <4>1. CASE pre
        BY <2>1, <2>7, <3>1, <3>2, <4>1
      <4>2. CASE ~pre
        BY <2>1, <2>7, <3>1, <3>2, <4>2
      <4> QED  BY <4>1, <4>2
    <3> HIDE DEF Done
    <3>4. at[n] = base + Rank(sel, n)
      BY <1>4, <2>7
    <3>5. Stands(v, at, n, i)
      BY <1>4, <2>1, <2>3, <2>5, <2>7, <3>4 DEF pre, Stands
    <3>6. /\ Placed(u, Done(k - 1) \cup {n}, at, s.mem, file, i)
          /\ u.ok => v.ok /\ u.at = IF i.k = "pre" THEN at[n] ELSE at[n] + 1
      BY <1>4, <2>2, <2>5, <2>7, <3>3, <3>5, MoveOne
    <3>7. u.ok => u.at = base + Rank(sel, J(k))
      BY <1>4, <2>1, <2>3, <2>7, <3>4, <3>6 DEF pre
    <3> QED  BY <3>3, <3>6, <3>7 DEF u
  <2> QED  BY <2>6, <2>7
<1> DEFINE B == {m \in Nat : m <= count /\ ~I(m)}
<1> HIDE DEF I
<1>10. B = {}
  <2>1. B \subseteq Nat /\ 0 \notin B
    BY <1>8
  <2>2. ASSUME NEW m \in Nat, m \notin B PROVE m + 1 \notin B
    <3> SUFFICES ASSUME m + 1 <= count PROVE I(m + 1)
      OBVIOUS
    <3> DEFINE k == m + 1
    <3>1. k \in 1 .. count /\ k - 1 = m /\ m <= count
      BY <1>1
    <3>2. I(m)
      BY <2>2, <3>1
    <3> HIDE DEF k
    <3>3. I(k)
      BY <1>9, <3>1, <3>2
    <3> QED  BY <3>3 DEF k
  <2> HIDE DEF B
  <2> QED  BY <2>1, <2>2, Induction
<1>11. I(count)
  BY <1>1, <1>10
<1>12. Done(count) = sel /\ base + Rank(sel, J(count)) = IF pre THEN s.a - Cardinality(sel) ELSE s.a + Cardinality(sel)
  <2>1. \A m \in sel : m \in Nat /\ first <= m /\ m < first + count
    BY <1>1, <1>2
  <2>2. first + count - count = first
    BY <1>1
  <2>3. \A m \in sel : m >= first
    BY <1>1, <2>1
  <2>4. Done(count) = sel
    BY <2>1, <2>2, <2>3
  <2>5. base + Rank(sel, J(count)) = IF pre THEN s.a - Cardinality(sel) ELSE s.a + Cardinality(sel)
    BY <1>3, <1>5, <1>6, <2>2
  <2> QED  BY <2>4, <2>5
<1> HIDE DEF Done, J
<1>13. /\ Placed(w[count], sel, at, s.mem, file, i)
       /\ w[count].ok => w[count].at = IF pre THEN s.a - Cardinality(sel) ELSE s.a + Cardinality(sel)
  BY <1>11, <1>12 DEF I
<1> QED  BY <1>7, <1>13 DEF at

\* Register by register or all at once.
LEMMA StoredIs ==
  ASSUME NEW w, NEW sel, NEW at, NEW mem, NEW file, NEW i, Placed(w, sel, at, mem, file, i), w.ok, DOMAIN at = sel,
         Outwards(i)
  PROVE  w.mem = Stored(mem, at, file) /\ w.file = file
<1>1. /\ w.mem = [c \in Cells |-> w.mem[c]] /\ w.file = file /\ \A n \in sel : w.mem[at[n]] = file[n]
      /\ \A c \in Cells : (\A n \in sel : at[n] # c) => w.mem[c] = mem[c]
  BY DEF Placed
<1> DEFINE S(c) == IF \E n \in DOMAIN at : at[n] = c THEN file[CHOOSE n \in DOMAIN at : at[n] = c] ELSE mem[c]
<1>2. ASSUME NEW c \in Cells PROVE w.mem[c] = S(c)
  <2>1. CASE \E n \in DOMAIN at : at[n] = c
    <3> DEFINE x == CHOOSE n \in DOMAIN at : at[n] = c
    <3>1. x \in DOMAIN at /\ at[x] = c
      BY <2>1
    <3> HIDE DEF x
    <3>2. w.mem[c] = file[x]
      BY <1>1, <3>1
    <3> QED  BY <2>1, <3>2 DEF x
  <2>2. CASE ~ \E n \in DOMAIN at : at[n] = c
    BY <1>1, <2>2
  <2> QED  BY <2>1, <2>2
<1>3. Stored(mem, at, file) = [c \in Cells |-> S(c)]
  BY DEF Stored
<1> HIDE DEF S
<1>4. [c \in Cells |-> w.mem[c]] = [c \in Cells |-> S(c)]
  BY <1>2
<1> QED  BY <1>1, <1>3, <1>4

LEMMA LoadedIs ==
  ASSUME NEW w, NEW sel, NEW at, NEW mem, NEW file, NEW i, Placed(w, sel, at, mem, file, i), w.ok, DOMAIN at = sel,
         ~Outwards(i)
  PROVE  w.file = Loaded(mem, at, file) /\ w.mem = mem
<1>1. /\ w.file = [n \in DOMAIN file |-> w.file[n]] /\ w.mem = mem /\ \A n \in sel : w.file[n] = mem[at[n]]
      /\ \A n \in DOMAIN file \ sel : w.file[n] = file[n]
  BY DEF Placed
<1>2. Loaded(mem, at, file) = [n \in DOMAIN file |-> IF n \in DOMAIN at THEN mem[at[n]] ELSE file[n]]
  BY DEF Loaded
<1>3. \A n \in DOMAIN file : w.file[n] = IF n \in DOMAIN at THEN mem[at[n]] ELSE file[n]
  BY <1>1
<1> QED  BY <1>1, <1>2, <1>3

\* A list from or to memory.
Ended(s, i, count) == IF i.k = "pre" THEN s.a - count ELSE IF i.k = "post" THEN s.a + count ELSE s.a
LEMMA CommittedIs ==
  ASSUME NEW s, NEW i, NEW count, Whole(s), i.k \in {"ind", "post", "pre"}
  PROVE  /\ Committed(s, i, count) = [s EXCEPT !.a = Ended(s, i, count)]
         /\ Whole(Committed(s, i, count)) /\ Committed(s, i, count).mem = s.mem
         /\ Committed(s, i, count).fp = s.fp /\ Committed(s, i, count).ctl = s.ctl
<1> DEFINE t == Committed(s, i, count)
           x == Ended(s, i, count)
<1>1. t = [s EXCEPT !.a = x]
  <2>1. CASE i.k = "pre"
    BY <2>1 DEF Committed, Ended
  <2>2. CASE i.k = "post"
    BY <2>2 DEF Committed, Ended
  <2>3. CASE i.k = "ind"
    <3>1. t = s /\ x = s.a
      BY <2>3 DEF Committed, Ended
    <3> HIDE DEF t, x
    <3>2. s = [s EXCEPT !.a = s.a]
      BY DEF Whole
    <3> QED  BY <3>1, <3>2
  <2> QED  BY <2>1, <2>2, <2>3
<1> HIDE DEF t, x
<1>2. t = [fp |-> s.fp, d |-> s.d, a |-> x, mem |-> s.mem, cc |-> s.cc, exc |-> s.exc, aexc |-> s.aexc,
           single |-> s.single, enabled |-> s.enabled, trap |-> s.trap, ctl |-> s.ctl, pc |-> s.pc]
  BY <1>1 DEF Whole
<1>3. Whole(t) /\ t.mem = s.mem /\ t.fp = s.fp /\ t.ctl = s.ctl
  BY <1>2 DEF Whole
<1> QED  BY <1>1, <1>3 DEF t, x

\* A state whose memory and control registers are all there.
Held(s) ==
  /\ Whole(s) /\ s.mem = [c \in Cells |-> s.mem[c]] /\ s.ctl = [k \in FpControls |-> s.ctl[k]] /\ s.a \in Int

LEMMA FmovemAgrees ==
  ASSUME NEW s, NEW i, Held(s), i.op \in {"FMOVEM_out", "FMOVEM_in"}, i.k \in {"ind", "post", "pre"}
  PROVE  FpDispatched(s, i) = ListMoved(s, i)
<1> DEFINE sel == {n \in FpRegs : (IF i.k = "pre" THEN n ELSE LastFp - n) \in i.mask}
           at == Slots(s, i, sel)
           w == OneByOne(s, i, sel, s.fp)
           count == Cardinality(sel)
           t == Committed(s, i, count)
           u == [s EXCEPT !.mem = w.mem, !.a = IF i.k = "ind" THEN @ ELSE w.at]
<1>0. Whole(s)
  BY DEF Held
<1>1. FpDispatched(s, i) = j5d_fmovem_x(s, i)
  BY DEF FpDispatched, Conditional
<1>2. j5d_fmovem_x(s, i) = IF \E n \in sel : at[n] \notin Cells THEN [s EXCEPT !.trap = RunFails]
                           ELSE IF i.op = "FMOVEM_out" THEN [t EXCEPT !.mem = Stored(@, at, s.fp)]
                           ELSE [t EXCEPT !.fp = Loaded(s.mem, at, @)]
  BY DEF j5d_fmovem_x
<1>3. ListMoved(s, i) = IF ~w.ok THEN [s EXCEPT !.trap = RunFails] ELSE [u EXCEPT !.fp = w.file]
  BY DEF ListMoved
<1>4. sel \subseteq FpRegs /\ IsFiniteSet(sel) /\ sel \subseteq Nat
  <2>1. FpRegs = 0 .. 1
    BY DEF FpRegs
  <2>2. sel \subseteq FpRegs
    OBVIOUS
  <2> HIDE DEF sel
  <2>3. IsFiniteSet(0 .. 1) /\ 0 .. 1 \subseteq Nat
    <3>1. 0 \in Int /\ 1 \in Int /\ 0 .. 1 \subseteq Nat
      OBVIOUS
    <3>2. IsFiniteSet(0 .. 1)
      BY <3>1, FS_Interval, Zenon
    <3> QED  BY <3>1, <3>2
  <2> QED  BY <2>1, <2>2, <2>3, FS_Subset
<1> HIDE DEF sel
<1>5. Numbered(s.fp, 0, 2)
  <2>1. DOMAIN s.fp = 0 .. 0 + 2 - 1
    BY DEF Held, Whole, FpRegs
  <2> QED  BY <2>1 DEF Numbered, Held, Whole
<1>6. sel \subseteq DOMAIN s.fp
  BY <1>4 DEF Held, Whole
<1>7. /\ Placed(w, sel, at, s.mem, s.fp, i)
      /\ w.ok => w.at = IF i.k = "pre" THEN s.a - count ELSE s.a + count
  BY <1>5, <1>6, ListPlaced DEF Held
<1>8. DOMAIN at = sel
  BY <1>4, SlotsAre DEF Held
<1> HIDE DEF at, w, count
<1>9. w.ok <=> \A n \in sel : at[n] \in Cells
  BY <1>7 DEF Placed
<1>10. CASE ~w.ok
  BY <1>1, <1>2, <1>3, <1>9, <1>10
<1>11. CASE w.ok
  <2> DEFINE x == Ended(s, i, count)
  <2>1. t = [s EXCEPT !.a = x] /\ Whole(t) /\ t.mem = s.mem /\ t.fp = s.fp
    BY CommittedIs DEF Held
  <2>2. u = [s EXCEPT !.mem = w.mem, !.a = x]
    BY <1>7, <1>11 DEF Ended
  <2> HIDE DEF t, u, x
  <2>5. t = [fp |-> s.fp, d |-> s.d, a |-> x, mem |-> s.mem, cc |-> s.cc, exc |-> s.exc, aexc |-> s.aexc,
              single |-> s.single, enabled |-> s.enabled, trap |-> s.trap, ctl |-> s.ctl, pc |-> s.pc]
    BY <1>0, <2>1 DEF Whole
  <2>6. u = [fp |-> s.fp, d |-> s.d, a |-> x, mem |-> w.mem, cc |-> s.cc, exc |-> s.exc, aexc |-> s.aexc,
              single |-> s.single, enabled |-> s.enabled, trap |-> s.trap, ctl |-> s.ctl, pc |-> s.pc]
    BY <1>0, <2>2 DEF Whole
  <2>3. CASE i.op = "FMOVEM_out"
    <3>1. w.mem = Stored(s.mem, at, s.fp) /\ w.file = s.fp
      BY <1>7, <1>8, <1>11, <2>3, StoredIs DEF Outwards
    <3>2. FpDispatched(s, i) = [t EXCEPT !.mem = w.mem] /\ ListMoved(s, i) = [u EXCEPT !.fp = s.fp]
      BY <1>1, <1>2, <1>3, <1>9, <1>11, <2>1, <2>3, <3>1 DEF Whole
    <3> DEFINE r == [fp |-> s.fp, d |-> s.d, a |-> x, mem |-> w.mem, cc |-> s.cc, exc |-> s.exc, aexc |-> s.aexc,
                     single |-> s.single, enabled |-> s.enabled, trap |-> s.trap, ctl |-> s.ctl, pc |-> s.pc]
    <3>3. [t EXCEPT !.mem = w.mem] = r
      BY <2>5
    <3>4. [u EXCEPT !.fp = s.fp] = r
      BY <2>6
    <3> QED  BY <3>2, <3>3, <3>4
  <2>4. CASE i.op = "FMOVEM_in"
    <3>1. w.file = Loaded(s.mem, at, s.fp) /\ w.mem = s.mem
      BY <1>7, <1>8, <1>11, <2>4, LoadedIs DEF Outwards
    <3>2. FpDispatched(s, i) = [t EXCEPT !.fp = w.file] /\ ListMoved(s, i) = [u EXCEPT !.fp = w.file]
      BY <1>1, <1>2, <1>3, <1>9, <1>11, <2>1, <2>4, <3>1 DEF Whole
    <3> DEFINE r == [fp |-> w.file, d |-> s.d, a |-> x, mem |-> s.mem, cc |-> s.cc, exc |-> s.exc, aexc |-> s.aexc,
                     single |-> s.single, enabled |-> s.enabled, trap |-> s.trap, ctl |-> s.ctl, pc |-> s.pc]
    <3>3. [t EXCEPT !.fp = w.file] = r
      BY <2>5
    <3>4. [u EXCEPT !.fp = w.file] = r
      BY <2>6, <3>1
    <3> QED  BY <3>2, <3>3, <3>4
  <2> QED  BY <2>3, <2>4
<1> QED  BY <1>10, <1>11

LEMMA ControlsAgree ==
  ASSUME NEW s, NEW i, Held(s), i.op \in {"FCTRL_out", "FCTRL_in"}, i.k \in {"dn", "imm", "ind", "post", "pre"},
         i.mask \subseteq FpControls, i.k = "imm" => i.op = "FCTRL_in"
  PROVE  FpDispatched(s, i) = ListMoved(s, i)
<1> DEFINE sel == i.mask
           at == Slots(s, i, sel)
           w == OneByOne(s, i, sel, s.ctl)
           count == Cardinality(sel)
           t == Committed(s, i, count)
           u == [s EXCEPT !.mem = w.mem, !.a = IF i.k = "ind" THEN @ ELSE w.at]
           x == Only(sel)
<1>0. Whole(s)
  BY DEF Held
<1>1. FpDispatched(s, i) = j5d_fmove_sysreg(s, i)
  BY DEF FpDispatched, Conditional
<1>2. CASE i.k \in {"dn", "imm"}
  <2>1. ListMoved(s, i) = IF count # 1 THEN [s EXCEPT !.trap = RunFails]
                          ELSE IF i.op = "FCTRL_out" THEN [s EXCEPT !.d = s.ctl[x]]
                          ELSE [s EXCEPT !.ctl[x] = IF i.k = "imm" THEN i.r ELSE s.d]
    BY <1>2 DEF ListMoved
  <2> HIDE DEF count, x
  <2>2. CASE count # 1
    <3>1. j5d_fmove_sysreg(s, i) = [s EXCEPT !.trap = RunFails]
      BY <1>2, <2>2 DEF j5d_fmove_sysreg, count
    <3> QED  BY <1>1, <2>1, <2>2, <3>1
  <2>3. CASE count = 1 /\ i.k = "dn"
    <3>1. j5d_fmove_sysreg(s, i) = IF i.op = "FCTRL_out" THEN [s EXCEPT !.d = s.ctl[x]] ELSE [s EXCEPT !.ctl[x] = s.d]
      BY <2>3 DEF j5d_fmove_sysreg, count, x
    <3> QED  BY <1>1, <2>1, <2>3, <3>1
  <2>4. CASE count = 1 /\ i.k = "imm"
    <3>1. j5d_fmove_sysreg(s, i) = [s EXCEPT !.ctl[x] = i.r]
      BY <2>4 DEF j5d_fmove_sysreg, count, x
    <3> QED  BY <1>1, <2>1, <2>4, <3>1
  <2> QED  BY <1>2, <2>2, <2>3, <2>4
<1>3. CASE i.k \notin {"dn", "imm"}
  <2>1. ListMoved(s, i) = IF ~w.ok THEN [s EXCEPT !.trap = RunFails] ELSE [u EXCEPT !.ctl = w.file]
    BY <1>3 DEF ListMoved
  <2>2. j5d_fmove_sysreg(s, i) = IF \E n \in sel : at[n] \notin Cells THEN [s EXCEPT !.trap = RunFails]
                                 ELSE IF i.op = "FCTRL_out" THEN [t EXCEPT !.mem = Stored(@, at, s.ctl)]
                                 ELSE [t EXCEPT !.ctl = Loaded(s.mem, at, @)]
    <3>1. CASE \E n \in sel : at[n] \notin Cells
      BY <1>3, <3>1 DEF j5d_fmove_sysreg
    <3>2. CASE (\A n \in sel : at[n] \in Cells) /\ i.op = "FCTRL_out"
      BY <1>3, <3>2 DEF j5d_fmove_sysreg
    <3>3. CASE (\A n \in sel : at[n] \in Cells) /\ i.op # "FCTRL_out"
      BY <1>3, <3>3 DEF j5d_fmove_sysreg
    <3> QED  BY <3>1, <3>2, <3>3
  <2>3. IsFiniteSet(sel) /\ sel \subseteq Nat /\ FpControls = 1 .. 3
    <3>1. FpControls = 1 .. 3
      BY DEF FpControls
    <3>2. IsFiniteSet(1 .. 3) /\ 1 .. 3 \subseteq Nat
      <4>1. 1 \in Int /\ 3 \in Int /\ 1 .. 3 \subseteq Nat
        OBVIOUS
      <4>2. IsFiniteSet(1 .. 3)
        BY <4>1, FS_Interval, Zenon
      <4> QED  BY <4>1, <4>2
    <3> HIDE DEF sel
    <3>3. sel \subseteq 1 .. 3
      BY <3>1 DEF sel
    <3> QED  BY <3>1, <3>2, <3>3, FS_Subset
  <2>4. Numbered(s.ctl, 1, 3)
    <3>1. DOMAIN s.ctl = 1 .. 1 + 3 - 1
      BY <2>3 DEF Held
    <3> QED  BY <3>1 DEF Numbered, Held
  <2>5. sel \subseteq DOMAIN s.ctl
    BY DEF Held
  <2>6. /\ Placed(w, sel, at, s.mem, s.ctl, i)
        /\ w.ok => w.at = IF i.k = "pre" THEN s.a - count ELSE s.a + count
    <3> HIDE DEF sel
    <3> QED  BY <2>4, <2>5, ListPlaced DEF Held
  <2>7. DOMAIN at = sel
    BY <2>3, SlotsAre DEF Held
  <2> HIDE DEF sel, at, w, count
  <2>8. w.ok <=> \A n \in sel : at[n] \in Cells
    BY <2>6 DEF Placed
  <2>9. CASE ~w.ok
    BY <1>1, <2>1, <2>2, <2>8, <2>9
  <2>10. CASE w.ok
    <3> DEFINE z == Ended(s, i, count)
    <3>1. t = [s EXCEPT !.a = z] /\ Whole(t) /\ t.mem = s.mem /\ t.ctl = s.ctl
      BY <1>3, CommittedIs DEF Held
    <3>2. u = [s EXCEPT !.mem = w.mem, !.a = z]
      BY <1>3, <2>6, <2>10 DEF Ended
    <3> HIDE DEF t, u, z
    <3>5. t = [fp |-> s.fp, d |-> s.d, a |-> z, mem |-> s.mem, cc |-> s.cc, exc |-> s.exc, aexc |-> s.aexc,
                single |-> s.single, enabled |-> s.enabled, trap |-> s.trap, ctl |-> s.ctl, pc |-> s.pc]
      BY <1>0, <3>1 DEF Whole
    <3>6. u = [fp |-> s.fp, d |-> s.d, a |-> z, mem |-> w.mem, cc |-> s.cc, exc |-> s.exc, aexc |-> s.aexc,
                single |-> s.single, enabled |-> s.enabled, trap |-> s.trap, ctl |-> s.ctl, pc |-> s.pc]
      BY <1>0, <3>2 DEF Whole
    <3>3. CASE i.op = "FCTRL_out"
      <4>1. w.mem = Stored(s.mem, at, s.ctl) /\ w.file = s.ctl
        BY <2>6, <2>7, <2>10, <3>3, StoredIs DEF Outwards
      <4>2. FpDispatched(s, i) = [t EXCEPT !.mem = w.mem] /\ ListMoved(s, i) = [u EXCEPT !.ctl = s.ctl]
        BY <1>1, <2>1, <2>2, <2>8, <2>10, <3>1, <3>3, <4>1 DEF Whole
      <4> DEFINE r == [fp |-> s.fp, d |-> s.d, a |-> z, mem |-> w.mem, cc |-> s.cc, exc |-> s.exc, aexc |-> s.aexc,
                       single |-> s.single, enabled |-> s.enabled, trap |-> s.trap, ctl |-> s.ctl, pc |-> s.pc]
      <4>3. [t EXCEPT !.mem = w.mem] = r
        BY <3>5
      <4>4. [u EXCEPT !.ctl = s.ctl] = r
        BY <3>6
      <4> QED  BY <4>2, <4>3, <4>4
    <3>4. CASE i.op = "FCTRL_in"
      <4>1. w.file = Loaded(s.mem, at, s.ctl) /\ w.mem = s.mem
        BY <2>6, <2>7, <2>10, <3>4, LoadedIs DEF Outwards
      <4>2. FpDispatched(s, i) = [t EXCEPT !.ctl = w.file] /\ ListMoved(s, i) = [u EXCEPT !.ctl = w.file]
        BY <1>1, <2>1, <2>2, <2>8, <2>10, <3>1, <3>4, <4>1 DEF Whole
      <4> DEFINE r == [fp |-> s.fp, d |-> s.d, a |-> z, mem |-> s.mem, cc |-> s.cc, exc |-> s.exc, aexc |-> s.aexc,
                       single |-> s.single, enabled |-> s.enabled, trap |-> s.trap, ctl |-> w.file, pc |-> s.pc]
      <4>3. [t EXCEPT !.ctl = w.file] = r
        BY <3>5
      <4>4. [u EXCEPT !.ctl = w.file] = r
        BY <3>6, <4>1
      <4> QED  BY <4>2, <4>3, <4>4
    <3> QED  BY <3>3, <3>4
  <2> QED  BY <2>9, <2>10
<1> QED  BY <1>2, <1>3

-----------------------------------------------------------------------------
(* Every instruction the model takes up *)

\* The states and instructions the model starts from.
Sampled(s, a, b, m) ==
  /\ Held(s) /\ s.a = 1 /\ s.exc = {} /\ s.trap = 0 /\ s.d = 2
  /\ \A n \in FpRegs : s.fp[n] \in {a, b}
  /\ \A c \in Cells : s.mem[c] \in {m, 0, 3}

LEMMA FsIs ==
  ASSUME NEW a, NEW b, NEW m, NEW single, NEW enabled
  PROVE  Sampled(Fs(a, b, m, single, enabled), a, b, m)
<1> DEFINE s == Fs(a, b, m, single, enabled)
           f == [n \in FpRegs |-> IF n = 0 THEN a ELSE b]
           g == [k \in FpControls |-> 10 + k]
           e == FpMem(m)
<1>1. s = [fp |-> f, d |-> 2, a |-> 1, mem |-> e, cc |-> {"NAN"}, exc |-> {}, aexc |-> {}, single |-> single,
           enabled |-> enabled, trap |-> 0, ctl |-> g, pc |-> "next"]
  BY DEF Fs
<1>2. f = [n \in FpRegs |-> f[n]] /\ g = [k \in FpControls |-> g[k]] /\ \A n \in FpRegs : f[n] \in {a, b}
  OBVIOUS
<1>3. e = [c \in Cells |-> e[c]] /\ \A c \in Cells : e[c] \in {m, 0, 3}
  <2>1. e = [c \in Cells |-> CASE c = 1 -> m [] c = 2 -> 0 [] OTHER -> 3]
    BY DEF FpMem
  <2> HIDE DEF e
  <2>2. \A c \in Cells : e[c] = CASE c = 1 -> m [] c = 2 -> 0 [] OTHER -> 3
    BY <2>1
  <2>3. ASSUME NEW c \in Cells PROVE e[c] \in {m, 0, 3}
    <3>1. CASE c = 1
      BY <2>2, <3>1
    <3>2. CASE c = 2
      BY <2>2, <3>2
    <3>3. CASE c # 1 /\ c # 2
      BY <2>2, <3>3
    <3> QED  BY <3>1, <3>2, <3>3
  <2> QED  BY <2>1, <2>3
<1> HIDE DEF s, f, g, e
<1>4. s.fp = f /\ s.mem = e /\ s.ctl = g /\ s.a = 1 /\ s.exc = {} /\ s.trap = 0 /\ s.d = 2
  BY <1>1
<1>5. Whole(s)
  BY <1>1, <1>2, <1>4 DEF Whole
<1>6. Held(s)
  BY <1>1, <1>2, <1>3, <1>4, <1>5 DEF Held
<1>7. Sampled(s, a, b, m)
  BY <1>1, <1>2, <1>3, <1>4, <1>6 DEF Sampled
<1> QED  BY <1>7 DEF s

LEMMA ChangedWords ==
  ASSUME NEW i \in Words, NEW c \in FpRegs, NEW look \in BOOLEAN
  PROVE  /\ [i EXCEPT !.cos = c] \in Words /\ [i EXCEPT !.cos = c].op = i.op
         /\ [i EXCEPT !.cos = c].k = i.k /\ [i EXCEPT !.cos = c].r = i.r
         /\ [i EXCEPT !.look = look] \in Words /\ [i EXCEPT !.look = look].op = i.op
         /\ [i EXCEPT !.look = look].k = i.k /\ [i EXCEPT !.look = look].r = i.r
BY DEF Words

LEMMA SampledInsns == FpBody \subseteq Insns /\ FpSecond \subseteq Insns
<1>1. Operations \subseteq Names /\ Others \subseteq Names /\ LibmOps \subseteq Operations
  BY DEF Names, Operations, Monadic
<1>2. 0 \in FpRegs /\ 1 \in FpRegs /\ FpRegs \subseteq Nat
  BY DEF FpRegs
<1>3. ASSUME NEW op \in Names, NEW dst \in FpRegs, NEW k \in Places, NEW r \in Nat,
             op \in Operations \cup Others, r \in FpRegs
      PROVE  Fi(op, dst, k, r) \in Insns
  <2> DEFINE i == Fi(op, dst, k, r)
  <2>1. i \in Words
    <3>1. {} \in SUBSET Nat /\ 0 \in Nat /\ FALSE \in BOOLEAN
      OBVIOUS
    <3> QED  BY <3>1 DEF Fi, Words, Places
  <2>3. i.op = op /\ i.r = r
    BY DEF Fi
  <2> HIDE DEF i
  <2>2. i \in Insns
    BY <1>3, <2>1, <2>3 DEF Insns
  <2> QED  BY <2>2 DEF i
<1>4. \A i \in Insns, c \in FpRegs, look \in BOOLEAN :
        [i EXCEPT !.cos = c] \in Insns /\ [i EXCEPT !.look = look] \in Insns
  <2> SUFFICES ASSUME NEW i \in Insns, NEW c \in FpRegs, NEW look \in BOOLEAN
               PROVE  [i EXCEPT !.cos = c] \in Insns /\ [i EXCEPT !.look = look] \in Insns
    OBVIOUS
  <2> DEFINE x == [i EXCEPT !.cos = c]
             y == [i EXCEPT !.look = look]
  <2>1. i \in Words /\ i.op \in Operations \cup Others /\ (i.k = "fp" => i.r \in FpRegs)
    BY DEF Insns
  <2>2. /\ x \in Words /\ x.op = i.op /\ x.k = i.k /\ x.r = i.r
        /\ y \in Words /\ y.op = i.op /\ y.k = i.k /\ y.r = i.r
    BY <2>1, ChangedWords
  <2> HIDE DEF x, y
  <2>3. x \in Insns /\ y \in Insns
    BY <2>1, <2>2 DEF Insns
  <2> QED  BY <2>3 DEF x, y
<1>5. \A sr \in FpSources : sr[1] \in Places /\ sr[2] \in FpRegs
  BY DEF FpSources, Places, FpRegs
<1>6. FpBody \subseteq Insns
  <2> SUFFICES ASSUME NEW i \in FpBody PROVE i \in Insns
    OBVIOUS
  <2>1. CASE i \in {Fi(op, dst, sr[1], sr[2]) :
               op \in (Monadic \ LibmOps) \cup Dyadic \cup {"FCMP", "FTST"}, dst \in FpRegs, sr \in FpSources}
    <3>1. PICK op \in (Monadic \ LibmOps) \cup Dyadic \cup {"FCMP", "FTST"}, dst \in FpRegs, sr \in FpSources :
            i = Fi(op, dst, sr[1], sr[2])
      BY <2>1
    <3>2. op \in Operations \cup Others
      BY DEF Operations
    <3> QED  BY <1>1, <1>2, <1>3, <1>5, <3>1, <3>2
  <2>2. CASE i \in {Fi(op, 0, "fp", 1) : op \in LibmOps}
    <3>1. PICK op \in LibmOps : i = Fi(op, 0, "fp", 1)
      BY <2>2
    <3>2. op \in Operations \cup Others /\ "fp" \in Places
      BY <1>1 DEF Places
    <3> QED  BY <1>1, <1>2, <1>3, <3>1, <3>2
  <2>3. CASE i \in {[Fi("FSINCOS", 0, "fp", 1) EXCEPT !.cos = c] : c \in FpRegs}
    <3>1. PICK c \in FpRegs : i = [Fi("FSINCOS", 0, "fp", 1) EXCEPT !.cos = c]
      BY <2>3
    <3>2. Fi("FSINCOS", 0, "fp", 1) \in Insns
      <4>1. "FSINCOS" \in Operations \cup Others /\ "fp" \in Places
        BY DEF Operations, Places
      <4> QED  BY <1>1, <1>2, <1>3, <4>1
    <3> QED  BY <1>4, <3>1, <3>2
  <2>4. CASE i = Fi("FMOVECR", 0, "none", 0)
    <3>1. "FMOVECR" \in Operations \cup Others /\ "none" \in Places
      BY DEF Operations, Places
    <3> QED  BY <1>1, <1>2, <1>3, <2>4, <3>1
  <2> QED  BY <2>1, <2>2, <2>3, <2>4 DEF FpBody
<1>7. FpSecond \subseteq Insns
  <2> SUFFICES ASSUME NEW i \in FpSecond PROVE i \in Insns
    OBVIOUS
  <2>1. CASE i \in {Fi(op, dst, "fp", 0) : op \in {"FDIV", "FADD", "FSCALE", "FTST"}, dst \in FpRegs}
    <3>1. PICK op \in {"FDIV", "FADD", "FSCALE", "FTST"}, dst \in FpRegs : i = Fi(op, dst, "fp", 0)
      BY <2>1
    <3>2. op \in Operations \cup Others /\ "fp" \in Places
      BY DEF Operations, Dyadic, Places
    <3> QED  BY <1>1, <1>2, <1>3, <3>1, <3>2
  <2>2. CASE i \in {Fi("TOMEM", 1, k, 0) : k \in {"dn", "ind", "post"}}
    <3>1. PICK k \in {"dn", "ind", "post"} : i = Fi("TOMEM", 1, k, 0)
      BY <2>2
    <3>2. "TOMEM" \in Operations \cup Others /\ k \in Places
      BY DEF Others, Places
    <3> QED  BY <1>1, <1>2, <1>3, <3>1, <3>2
  <2>3. CASE i \in {Fi("INT", 0, k, 0) : k \in {"dn", "an"}}
    <3>1. PICK k \in {"dn", "an"} : i = Fi("INT", 0, k, 0)
      BY <2>3
    <3>2. "INT" \in Operations \cup Others /\ k \in Places
      BY DEF Others, Places
    <3> QED  BY <1>1, <1>2, <1>3, <3>1, <3>2
  <2>4. CASE i = [Fi("INT", 0, "none", 0) EXCEPT !.look = TRUE]
    <3>1. "INT" \in Operations \cup Others /\ "none" \in Places
      BY DEF Others, Places
    <3>2. Fi("INT", 0, "none", 0) \in Insns
      BY <1>1, <1>2, <1>3, <3>1
    <3> QED  BY <1>2, <1>4, <2>4, <3>2
  <2> QED  BY <2>1, <2>2, <2>3, <2>4 DEF FpSecond
<1> QED  BY <1>6, <1>7

LEMMA SampledNumbers == \A v \in FpVals \cup FpNums \cup {0, 2, 3} : Small(v)
<1>1. \A x \in FpNums : x \in Int /\ 0 <= x /\ x <= 100
  BY M68kFpuAssumption
<1> SUFFICES ASSUME NEW v \in FpVals \cup FpNums \cup {0, 2, 3} PROVE Small(v)
  OBVIOUS
<1>2. CASE v \in FpNums
  BY <1>1, <1>2 DEF Small
<1>3. CASE v \in {-x : x \in FpNums}
  <2>1. PICK x \in FpNums : v = -x
    BY <1>3
  <2>2. v \in Int /\ -100 <= v /\ v <= 0
    BY <1>1, <2>1
  <2> QED  BY <2>2 DEF Small
<1>4. CASE v \in {NaN, Inf, 0, 2, 3}
  BY <1>4, Numbers DEF Small
<1> QED  BY <1>1, <1>2, <1>3, <1>4 DEF FpVals

\* An instruction of the dispatcher's own.
Lone(s, i) ==
  /\ Held(s) /\ s.trap = 0
  /\ \/ i.op \in Conditional /\ s.cc \in Found /\ i.pred \in 0 .. 31
     \/ /\ i.op \in {"FMOVEM_out", "FMOVEM_in"} /\ i.k \in {"ind", "post", "pre"}
     \/ /\ i.op \in {"FCTRL_out", "FCTRL_in"} /\ i.k \in {"dn", "imm", "ind", "post", "pre"}
        /\ i.mask \subseteq FpControls /\ (i.k = "imm" => i.op = "FCTRL_in")

LEMMA LonesAgree ==
  ASSUME NEW s, NEW i, Lone(s, i)
  PROVE  FpDispatched(s, i) = IF i.op \in Conditional THEN Conditionally(s, i) ELSE ListMoved(s, i)
<1>1. CASE i.op \in Conditional
  <2>1. s.cc \in Found /\ i.pred \in 0 .. 31 /\ Whole(s) /\ s.trap = 0
    BY <1>1 DEF Lone, Conditional, Held
  <2> QED  BY <1>1, <2>1, ConditionalsAgree
<1>2. CASE i.op \in {"FMOVEM_out", "FMOVEM_in"}
  <2>1. i.op \notin Conditional /\ Held(s) /\ i.k \in {"ind", "post", "pre"}
    BY <1>2 DEF Lone, Conditional
  <2> QED  BY <1>2, <2>1, FmovemAgrees
<1>3. CASE i.op \in {"FCTRL_out", "FCTRL_in"}
  <2>1. /\ i.op \notin Conditional /\ Held(s) /\ i.k \in {"dn", "imm", "ind", "post", "pre"}
        /\ i.mask \subseteq FpControls /\ (i.k = "imm" => i.op = "FCTRL_in")
    BY <1>3 DEF Lone, Conditional
  <2> QED  BY <1>3, <2>1, ControlsAgree
<1> QED  BY <1>1, <1>2, <1>3 DEF Lone

FpInv ==
  /\ fpu = [p |-> fpu.p, after |-> fpu.after, s |-> fpu.s, ran |-> fpu.ran, o |-> fpu.o, ref |-> fpu.ref]
  /\ FpPending /\ fpu.after # <<>> => Ready(fpu.s, fpu.p, fpu.after)
  /\ FpPending /\ fpu.after = <<>> => Lone(fpu.s, fpu.p[1])
  /\ FpBlockMatchesOracle /\ FpExceptionsMatchOracle

\* A block or an instruction that has not run yet.
LEMMA FetchedKeeps ==
  ASSUME NEW s, NEW p, NEW after, fpu' = FpFetched(s, p, after),
         after # <<>> => p = <<>> \/ Ready(s, p, after), after = <<>> => p = <<>> \/ Lone(s, p[1])
  PROVE  FpInv'
<1> DEFINE f == fpu'
<1>1. f = [p |-> p, after |-> after, s |-> s, ran |-> FALSE, o |-> s, ref |-> s]
  BY DEF FpFetched
<1> HIDE DEF f
<1>2. f.p = p /\ f.after = after /\ f.s = s /\ f.ran = FALSE /\ f.o = s /\ f.ref = s
      /\ f = [p |-> f.p, after |-> f.after, s |-> f.s, ran |-> f.ran, o |-> f.o, ref |-> f.ref]
  BY <1>1
<1> QED  BY <1>2 DEF FpInv, FpPending, FpBlockMatchesOracle, FpExceptionsMatchOracle, f

LEMMA BlockTaken ==
  ASSUME FpAllForms = FALSE, NEW a \in FpVals \cup FpNums, NEW b \in FpVals \cup FpNums, NEW m \in FpVals \cup FpNums,
         NEW single, NEW enabled, NEW p \in Seq(Insns), NEW after \in FpAfter,
         FpRun(Fs(a, b, m, single, enabled), p, after)
  PROVE  FpInv'
<1> DEFINE s == Fs(a, b, m, single, enabled)
<1>1. Followed(s, p, after) /\ fpu' = FpFetched(s, p, after)
  BY DEF FpRun
<1>2. /\ Held(s) /\ s.a = 1 /\ s.exc = {} /\ s.trap = 0 /\ s.d = 2
      /\ \A n \in FpRegs : s.fp[n] \in {a, b}
      /\ \A c \in Cells : s.mem[c] \in {m, 0, 3}
  BY FsIs DEF Sampled
<1> HIDE DEF s
<1>3. (\A n \in FpRegs : Small(s.fp[n])) /\ Small(s.d) /\ \A c \in Cells : Small(s.mem[c])
  <2>1. \A x \in {a, b, m, 0, 2, 3} : Small(x)
    BY SampledNumbers
  <2> QED  BY <1>2, <2>1
<1>4. s.a \in Cells
  BY <1>2 DEF Cells
<1>5. Ready(s, p, after)
  BY <1>1, <1>2, <1>3, <1>4 DEF Ready, Held
<1>6. after # <<>>
  <2>1. Len(after) # 0 /\ Len(<<>>) = 0
    BY AfterIs
  <2> QED  BY <2>1
<1> QED  BY <1>1, <1>5, <1>6, FetchedKeeps

LEMMA LoneTaken ==
  ASSUME NEW s, NEW i, Lone(s, i), FpAlone(s, i)
  PROVE  FpInv'
<1>1. fpu' = FpFetched(s, <<i>>, <<>>) /\ <<i>>[1] = i
  BY DEF FpAlone
<1> QED  BY <1>1, FetchedKeeps

Posed(r, cc, d, a) == [r EXCEPT !.cc = cc, !.d = d, !.a = a]
LEMMA PosedIs ==
  ASSUME NEW r, NEW cc, NEW d, NEW a, Whole(r)
  PROVE  Posed(r, cc, d, a)
           = [fp |-> r.fp, d |-> d, a |-> a, mem |-> r.mem, cc |-> cc, exc |-> r.exc, aexc |-> r.aexc,
              single |-> r.single, enabled |-> r.enabled, trap |-> r.trap, ctl |-> r.ctl, pc |-> r.pc]
<1> DEFINE x == [r EXCEPT !.cc = cc]
           y == [x EXCEPT !.d = d]
           z == [y EXCEPT !.a = a]
<1>1. Posed(r, cc, d, a) = z
  BY DEF Posed
<1>2. x = [fp |-> r.fp, d |-> r.d, a |-> r.a, mem |-> r.mem, cc |-> cc, exc |-> r.exc, aexc |-> r.aexc,
           single |-> r.single, enabled |-> r.enabled, trap |-> r.trap, ctl |-> r.ctl, pc |-> r.pc]
  BY DEF Whole
<1> HIDE DEF x
<1>3. y = [fp |-> r.fp, d |-> d, a |-> r.a, mem |-> r.mem, cc |-> cc, exc |-> r.exc, aexc |-> r.aexc,
           single |-> r.single, enabled |-> r.enabled, trap |-> r.trap, ctl |-> r.ctl, pc |-> r.pc]
  BY <1>2
<1> HIDE DEF y
<1>4. z = [fp |-> r.fp, d |-> d, a |-> a, mem |-> r.mem, cc |-> cc, exc |-> r.exc, aexc |-> r.aexc,
           single |-> r.single, enabled |-> r.enabled, trap |-> r.trap, ctl |-> r.ctl, pc |-> r.pc]
  BY <1>3
<1> HIDE DEF z
<1> QED  BY <1>1, <1>4

LEMMA TestTaken ==
  ASSUME FpTests
  PROVE  FpInv'
<1>a. \A enabled : Sampled(Fs(3, 0, 5, FALSE, enabled), 3, 0, 5)
  BY FsIs
<1>0. PICK op \in Conditional, k \in {"dn", "ind"}, pred \in 0 .. 31, a \in {1, 4}, d \in {0, 1, 257},
           cc \in {{}, {"Z"}, {"N"}, {"NAN"}}, enabled \in {{}, {"BSUN"}} :
        /\ k = "dn" \/ op = "FScc"
        /\ FpAlone([Fs(3, 0, 5, FALSE, enabled) EXCEPT !.cc = cc, !.d = d, !.a = a],
                   [Fi(op, 0, k, 0) EXCEPT !.pred = pred])
  BY DEF FpTests
<1> DEFINE r == Fs(3, 0, 5, FALSE, enabled)
           s == Posed(r, cc, d, a)
           i == [Fi(op, 0, k, 0) EXCEPT !.pred = pred]
<1>1. FpAlone(s, i)
  BY <1>0 DEF Posed
<1>2. Held(r) /\ r.trap = 0
  <2>1. Sampled(r, 3, 0, 5)
    BY <1>a
  <2> HIDE DEF r
  <2> QED  BY <2>1 DEF Sampled
<1> HIDE DEF r
<1>3. s = [fp |-> r.fp, d |-> d, a |-> a, mem |-> r.mem, cc |-> cc, exc |-> r.exc, aexc |-> r.aexc,
           single |-> r.single, enabled |-> r.enabled, trap |-> r.trap, ctl |-> r.ctl, pc |-> r.pc]
  <2>1. Whole(r)
    BY <1>2 DEF Held
  <2> QED  BY <2>1, PosedIs
<1> HIDE DEF s
<1>4. s.mem = r.mem /\ s.ctl = r.ctl /\ s.fp = r.fp /\ s.a \in Int /\ s.trap = 0 /\ s.cc \in Found
  BY <1>2, <1>3 DEF Found
<1>5. Held(s)
  BY <1>1, <1>2, <1>3, <1>4 DEF Held, Whole
<1>6. i.op \in Conditional /\ i.pred \in 0 .. 31
  BY DEF Fi
<1> HIDE DEF i
<1>7. Lone(s, i)
  BY <1>4, <1>5, <1>6 DEF Lone
<1> QED  BY <1>1, <1>7, LoneTaken

LEMMA ListTaken ==
  ASSUME FpLists
  PROVE  FpInv'
<1>0. PICK op \in ListMoves, a \in 0 .. 4, k \in {"dn", "imm", "ind", "post", "pre"} :
        \E mask \in SUBSET (IF op \in {"FMOVEM_out", "FMOVEM_in"} THEN FpRegs ELSE FpControls) :
          /\ k = "imm" => op = "FCTRL_in"
          /\ k = "dn" => op \in {"FCTRL_in", "FCTRL_out"}
          /\ FpAlone([Fs(3, 7, 5, FALSE, {}) EXCEPT !.a = a], [Fi(op, 0, k, 9) EXCEPT !.mask = mask])
  BY DEF FpLists
<1>1. PICK mask \in SUBSET (IF op \in {"FMOVEM_out", "FMOVEM_in"} THEN FpRegs ELSE FpControls) :
        /\ k = "imm" => op = "FCTRL_in"
        /\ k = "dn" => op \in {"FCTRL_in", "FCTRL_out"}
        /\ FpAlone([Fs(3, 7, 5, FALSE, {}) EXCEPT !.a = a], [Fi(op, 0, k, 9) EXCEPT !.mask = mask])
  BY <1>0
<1> DEFINE r == Fs(3, 7, 5, FALSE, {})
           s == [r EXCEPT !.a = a]
           i == [Fi(op, 0, k, 9) EXCEPT !.mask = mask]
<1>2. Held(r) /\ r.trap = 0
  <2>1. Sampled(r, 3, 7, 5)
    BY FsIs
  <2> HIDE DEF r
  <2> QED  BY <2>1 DEF Sampled
<1> HIDE DEF r
<1>3. s = [fp |-> r.fp, d |-> r.d, a |-> a, mem |-> r.mem, cc |-> r.cc, exc |-> r.exc, aexc |-> r.aexc,
           single |-> r.single, enabled |-> r.enabled, trap |-> r.trap, ctl |-> r.ctl, pc |-> r.pc]
  <2>1. Whole(r)
    BY <1>2 DEF Held
  <2> QED  BY <2>1 DEF Whole
<1> HIDE DEF s
<1>4. s.mem = r.mem /\ s.ctl = r.ctl /\ s.fp = r.fp /\ s.a \in Int /\ s.trap = 0
  BY <1>2, <1>3
<1>5. Held(s)
  BY <1>1, <1>2, <1>3, <1>4 DEF Held, Whole
<1>6. i.op = op /\ i.k = k /\ i.mask = mask
  BY DEF Fi
<1> HIDE DEF i
<1>7. Lone(s, i)
  <2>1. CASE op \in {"FMOVEM_out", "FMOVEM_in"}
    BY <1>1, <1>4, <1>5, <1>6, <2>1 DEF Lone
  <2>2. CASE op \in {"FCTRL_out", "FCTRL_in"}
    BY <1>1, <1>4, <1>5, <1>6, <2>2 DEF Lone
  <2> QED  BY <2>1, <2>2 DEF ListMoves
<1> QED  BY <1>1, <1>7, LoneTaken DEF s, r, i

LEMMA FpSteps ==
  ASSUME FpAllForms = FALSE, FpInv, [FpNext]_fpu
  PROVE  FpInv'
<1>1. CASE UNCHANGED fpu
  BY <1>1 DEF FpInv, FpPending, FpBlockMatchesOracle, FpExceptionsMatchOracle
<1>2. CASE FpOne
  <2>1. PICK i \in FpBody, a \in FpVals, b \in FpVals, after \in FpAfter, single \in BOOLEAN, enabled \in {{}, {"DZ"}} :
          FpRun(Fs(a, b, a, single, enabled), <<i>>, after)
    BY <1>2 DEF FpOne
  <2>2. <<i>> \in Seq(Insns)
    BY SampledInsns
  <2> QED  BY <2>1, <2>2, BlockTaken
<1>3. CASE FpTwo
  <2>1. PICK i \in FpBody, j \in FpSecond, a \in FpNums, b \in FpNums, after \in FpAfter, swapped \in BOOLEAN :
          FpRun(Fs(a, b, b, FALSE, {}), IF swapped THEN <<j, i>> ELSE <<i, j>>, after)
    BY <1>3 DEF FpTwo
  <2> DEFINE p == IF swapped THEN <<j, i>> ELSE <<i, j>>
  <2>2. p \in Seq(Insns)
    BY SampledInsns
  <2> HIDE DEF p
  <2>3. FpRun(Fs(a, b, b, FALSE, {}), p, after)
    BY <2>1 DEF p
  <2> QED  BY <2>2, <2>3, BlockTaken
<1>4. CASE FpTests
  BY <1>4, TestTaken
<1>5. CASE FpLists
  BY <1>5, ListTaken
<1>6. CASE FpBlock
  <2> DEFINE o == Translated(fpu.s, fpu.p, fpu.after)
             r == Interpreter(fpu.s, fpu.p, fpu.after)
             f == fpu'
  <2>1. f = [fpu EXCEPT !.ran = TRUE, !.o = o, !.ref = r] /\ Ready(fpu.s, fpu.p, fpu.after) /\ fpu.after # <<>>
    BY <1>6 DEF FpBlock, FpInv
  <2>2. Agree(o, r) /\ (r.trap # 0 \/ o.cc = r.cc)
    BY <2>1, FpBlocksMatch
  <2> HIDE DEF o, r, f
  <2>3. f = [p |-> fpu.p, after |-> fpu.after, s |-> fpu.s, ran |-> TRUE, o |-> o, ref |-> r]
    BY <2>1 DEF FpInv
  <2>4. f.p = fpu.p /\ f.after = fpu.after /\ f.ran = TRUE /\ f.o = o /\ f.ref = r
        /\ f = [p |-> f.p, after |-> f.after, s |-> f.s, ran |-> f.ran, o |-> f.o, ref |-> f.ref]
    BY <2>3
  <2>5. ~FpPending'
    BY <2>4 DEF FpPending, f
  <2>6. FpBlockMatchesOracle' /\ FpExceptionsMatchOracle'
    BY <2>1, <2>2, <2>4 DEF FpBlockMatchesOracle, FpExceptionsMatchOracle, Agree, f
  <2> QED  BY <2>4, <2>5, <2>6 DEF FpInv, f
<1>7. CASE FpSingle
  <2> DEFINE i == fpu.p[1]
             o == FpDispatched(fpu.s, i)
             r == IF i.op \in Conditional THEN Conditionally(fpu.s, i) ELSE ListMoved(fpu.s, i)
             f == fpu'
  <2>1. f = [fpu EXCEPT !.ran = TRUE, !.o = o, !.ref = r] /\ Lone(fpu.s, i)
    BY <1>7 DEF FpSingle, FpInv
  <2>2. o = r
    BY <2>1, LonesAgree
  <2> HIDE DEF i, o, r, f
  <2>3. f = [p |-> fpu.p, after |-> fpu.after, s |-> fpu.s, ran |-> TRUE, o |-> o, ref |-> r]
    BY <2>1 DEF FpInv
  <2>4. f.ran = TRUE /\ f.o = f.ref
        /\ f = [p |-> f.p, after |-> f.after, s |-> f.s, ran |-> f.ran, o |-> f.o, ref |-> f.ref]
    BY <2>2, <2>3
  <2>5. ~FpPending'
    BY <2>4 DEF FpPending, f
  <2>6. FpBlockMatchesOracle' /\ FpExceptionsMatchOracle'
    BY <2>4 DEF FpBlockMatchesOracle, FpExceptionsMatchOracle, f
  <2> QED  BY <2>4, <2>5, <2>6 DEF FpInv, f
<1>8. CASE FpAgain
  BY <1>8, FetchedKeeps DEF FpAgain, FpIdle
<1> QED  BY <1>1, <1>2, <1>3, <1>4, <1>5, <1>6, <1>7, <1>8 DEF FpNext

LEMMA FpStarts ==
  ASSUME FpInit
  PROVE  FpInv
<1> DEFINE s == Fs(0, 0, 0, FALSE, {})
<1>1. fpu = [p |-> <<>>, after |-> <<>>, s |-> s, ran |-> FALSE, o |-> s, ref |-> s]
  BY DEF FpInit, FpIdle, FpFetched
<1> HIDE DEF s
<1>2. fpu.p = <<>> /\ fpu.o = fpu.ref
      /\ fpu = [p |-> fpu.p, after |-> fpu.after, s |-> fpu.s, ran |-> fpu.ran, o |-> fpu.o, ref |-> fpu.ref]
  BY <1>1
<1> QED  BY <1>2 DEF FpInv, FpPending, FpBlockMatchesOracle, FpExceptionsMatchOracle

\* A translated block, and an instruction of the dispatcher's own, leaves what
\* the interpreter or the manual leaves (M68k_LINEF.c, j5c_ra.c, j5d_engine.c),
\* for all sampled numbers.
THEOREM FpBlocksMatchOracle == FpAllForms = FALSE => (FpSpec => []FpBlockMatchesOracle)
<1> SUFFICES ASSUME FpAllForms = FALSE
             PROVE  FpSpec => []FpBlockMatchesOracle
  OBVIOUS
<1>1. FpInit => FpInv
  BY FpStarts
<1>2. FpInv /\ [FpNext]_fpu => FpInv'
  BY FpSteps
<1>3. FpInv => FpBlockMatchesOracle
  BY DEF FpInv
<1> QED  BY <1>1, <1>2, <1>3, PTL DEF FpSpec

\* So are the exception bytes and the trap the second walk finds
\* (j5s_fp_exc_walk and j5s_fp_exc_apply in j5d_engine.c).
THEOREM FpExceptionsMatch == FpAllForms = FALSE => (FpSpec => []FpExceptionsMatchOracle)
<1> SUFFICES ASSUME FpAllForms = FALSE
             PROVE  FpSpec => []FpExceptionsMatchOracle
  OBVIOUS
<1>1. FpInit => FpInv
  BY FpStarts
<1>2. FpInv /\ [FpNext]_fpu => FpInv'
  BY FpSteps
<1>3. FpInv => FpExceptionsMatchOracle
  BY DEF FpInv
<1> QED  BY <1>1, <1>2, <1>3, PTL DEF FpSpec
=============================================================================
