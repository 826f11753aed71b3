----------------------------- MODULE GuestProofs -----------------------------
(***************************************************************************)
(* Proofs about the two halves of the 68k runtime, GuestLibs and then      *)
(* GuestTasks.                                                             *)
(*                                                                         *)
(* The libraries, for any number of libraries on disk, slots, opens, cells *)
(* and images, when one context runs (LibContexts = 1).  With more, a      *)
(* second context can enter a library whose vector is suspended, and       *)
(* shares its save area and its close state.  The invariant is             *)
(*   Nested, ReclaimPending   the vectors in progress, one save area for   *)
(*                            each, and a reclaim only for the last        *)
(*   Room                     who claims which cells of the bump heap      *)
(*   Fresh                    what the engine has translated, and what     *)
(*                            lies there                                   *)
(* One lemma per operation shows that it keeps them; a run that gives up   *)
(* (Halted) takes no further step.                                         *)
(*                                                                         *)
(* The tasks, for any number of contexts, messages, callbacks and          *)
(* services, when a child never sweeps before the program was marked       *)
(* (FirstSliceYields) and leaves RunCommand and Exit to the program        *)
(* (ChildCommands).  The invariant is                                      *)
(*   FramesOK     the order of the frames on the host stack: what each may *)
(*                be doing under the one above, whose it is, and that the  *)
(*                calls of a context lie on its one child frame            *)
(*   Contexts68   the marks of the contexts agree with the frames          *)
(*   Turn         the context of the top frame is the current one          *)
(*   Command, Resting, Domain   the jump buffer of a command, the state    *)
(*                between quanta, and how deep the guest domain is entered *)
(* For each operator one lemma says what it changes (...Changes) and one   *)
(* that it keeps the invariant (...Keeps).                                 *)
(***************************************************************************)
EXTENDS GuestLibs, GuestTasks, WellFoundedInduction, TLAPS

HasFields(v, names) == DOMAIN v = names /\ v = [x \in names |-> v[x]]

-----------------------------------------------------------------------------
(* The libraries: the invariant *)

StateFields == {"lib", "seg", "active", "heap", "given", "stack", "known", "cache", "loads",
                "clobbered", "facades", "failed"}
LibFields   == {"name", "state", "parent", "lo", "hi", "base", "opens", "close", "reclaim",
                "closing", "saved", "id"}
Formed(g) ==
  /\ HasFields(g, StateFields) /\ g.lib = [s \in Slots |-> g.lib[s]]
  /\ \A s \in Slots : HasFields(g.lib[s], LibFields)
  /\ g.stack = [c \in Contexts |-> g.stack[c]] /\ g.cache = [c \in Contexts |-> g.cache[c]]

Phases == {"init", "open", "close", "reclaim"}
VectorFrame == [slot : Slots, phase : Phases, regs : Contexts \X Nat]
Image  == [lo : Nat, hi : Nat, id : Nat]
TypedLib(l) ==
  l.lo \in Nat /\ l.hi \in Nat /\ l.close \in Nat /\ l.id \in Nat /\ l.reclaim \in BOOLEAN
Typed(g) ==
  /\ \A s \in Slots : TypedLib(g.lib[s])
  /\ g.seg \in [live : BOOLEAN, lo : Nat, hi : Nat, id : Nat]
  /\ g.heap \in Nat /\ g.loads \in Nat /\ g.given \subseteq Nat
  /\ \A c \in Contexts : g.stack[c] \in Seq(VectorFrame) /\ g.cache[c] \subseteq Image

\* A vector in progress has its library's save area, and the library is in the
\* state that goes with the phase.
PhaseFits(phase, state) ==
  \/ phase = "init" /\ state = "LOADING"
  \/ phase = "open" /\ state \in {"OPENING", "READY"}
  \/ phase = "close" /\ state = "READY"
  \/ phase = "reclaim" /\ state \in {"READY", "UNLOADED"}
Nested(g) ==
  /\ ~g.clobbered
  /\ \A c \in Contexts : \A k \in 1 .. Len(g.stack[c]) :
       LET f == g.stack[c][k]
       IN  /\ f.regs = <<c, k - 1>> /\ g.lib[f.slot].saved = f.regs
           /\ PhaseFits(f.phase, g.lib[f.slot].state)
           /\ f.phase = "reclaim" => k = Len(g.stack[c])

\* A library that is to be reclaimed is the one whose Close has just returned.
ReclaimPending(g) ==
  \A s \in Slots : g.lib[s].reclaim =>
    /\ g.lib[s].state = "UNLOADED"
    /\ \E c \in Contexts : /\ g.stack[c] # <<>> /\ g.stack[c][Len(g.stack[c])].slot = s
                           /\ g.stack[c][Len(g.stack[c])].phase = "reclaim"

\* Who claims which cells; an unloaded library until it is reclaimed.
InUse(l)    == l.state \in {"LOADING", "OPENING", "READY"} \/ l.reclaim
HasClose(l) == l.state = "READY" \/ l.reclaim
Claim(kind, no, lo, hi) == [kind |-> kind, no |-> no, lo |-> lo, hi |-> hi]
Claims(g) ==
  {Claim("image", s, g.lib[s].lo, g.lib[s].hi) : s \in {t \in Slots : InUse(g.lib[t])}}
  \cup {Claim("close", s, g.lib[s].close, g.lib[s].close + 1) : s \in {t \in Slots : HasClose(g.lib[t])}}
  \cup {Claim("block", a, a, a + 1) : a \in g.given}
  \cup {Claim("seg", n, g.seg.lo, g.seg.hi) : n \in {m \in {0} : g.seg.live}}
Disjoint(C) == \A u, w \in C : u # w => Cells(u) \cap Cells(w) = {}
Below(C, top) == \A u \in C : u.lo \in Nat /\ u.hi \in Nat /\ u.lo < u.hi /\ u.hi <= top
Room(g) == Disjoint(Claims(g)) /\ Below(Claims(g), g.heap)

\* A translation lies below the heap, and no other image lies on it.
Fresh(g) ==
  \A c \in Contexts : \A e \in g.cache[c] :
    /\ e.hi <= g.heap
    /\ \A i \in Images(g) : e.id # i.id => Cells(e) \cap Cells(i) = {}

LibInv(g) == Formed(g) /\ Typed(g) /\ Nested(g) /\ ReclaimPending(g) /\ Room(g) /\ Fresh(g)

-----------------------------------------------------------------------------
(* Cells *)

\* Cells taken at the top of the heap.
LEMMA ClaimMore ==
  ASSUME NEW C, NEW top \in Nat, NEW more \in Nat, top < more, Disjoint(C), Below(C, top),
         NEW u, u.lo = top, u.hi = more, NEW D, D \subseteq C \cup {u}
  PROVE  Disjoint(D) /\ Below(D, more)
<1>1. ASSUME NEW w \in C PROVE Cells(w) \cap Cells(u) = {}
  <2>1. w.lo \in Nat /\ w.hi \in Nat /\ w.hi <= top
    BY DEF Below
  <2> QED  BY <2>1 DEF Cells
<1>2. Below(D, more)
  BY DEF Below
<1>3. Disjoint(D)
  BY <1>1 DEF Disjoint
<1> QED  BY <1>2, <1>3

\* Claims given up, at the top of the heap or elsewhere.
LEMMA ClaimLess ==
  ASSUME NEW C, NEW top \in Nat, NEW more \in Nat, top <= more, Disjoint(C), Below(C, top), NEW D, D \subseteq C
  PROVE  Disjoint(D) /\ Below(D, more)
BY DEF Disjoint, Below
LEMMA ClaimTop ==
  ASSUME NEW C, NEW top \in Nat, Disjoint(C), Below(C, top), NEW u \in C, u.hi = top
  PROVE  Disjoint(C \ {u}) /\ Below(C \ {u}, u.lo) /\ u.lo \in Nat
<1>1. Disjoint(C \ {u})
  BY DEF Disjoint
<1>2. ASSUME NEW w \in C \ {u} PROVE w.lo \in Nat /\ w.hi \in Nat /\ w.lo < w.hi /\ w.hi <= u.lo
  <2>1. w.lo \in Nat /\ w.hi \in Nat /\ w.lo < w.hi /\ w.hi <= top /\ u.lo \in Nat /\ u.hi \in Nat
    BY DEF Below
  <2>2. Cells(u) \cap Cells(w) = {}
    BY DEF Disjoint
  <2>3. w.hi - 1 \in Cells(w)
    BY <2>1 DEF Cells
  <2>4. w.hi - 1 \notin u.lo .. u.hi - 1
    BY <2>2, <2>3 DEF Cells
  <2> QED  BY <2>1, <2>4
<1> QED  BY <1>1, <1>2 DEF Below

-----------------------------------------------------------------------------
(* Claims and images of a state *)

LEMMA ClaimIs ==
  ASSUME NEW g, NEW u
  PROVE  u \in Claims(g) <=>
           \/ \E s \in Slots : InUse(g.lib[s]) /\ u = Claim("image", s, g.lib[s].lo, g.lib[s].hi)
           \/ \E s \in Slots : HasClose(g.lib[s]) /\ u = Claim("close", s, g.lib[s].close, g.lib[s].close + 1)
           \/ \E a \in g.given : u = Claim("block", a, a, a + 1)
           \/ g.seg.live /\ u = Claim("seg", 0, g.seg.lo, g.seg.hi)
BY DEF Claims

Running(l) == l.state \in {"LOADING", "OPENING", "READY"}
LEMMA ImageIs ==
  ASSUME NEW g, NEW i
  PROVE  i \in Images(g) <=>
           \/ \E s \in Slots : /\ Running(g.lib[s])
                               /\ i = [lo |-> g.lib[s].lo, hi |-> g.lib[s].hi, id |-> g.lib[s].id]
           \/ g.seg.live /\ i = [lo |-> g.seg.lo, hi |-> g.seg.hi, id |-> g.seg.id]
BY DEF Images, Running

\* Every image has a claim, and different images different ones.
ClaimFor(g, x, u) ==
  /\ u \in Claims(g) /\ u.lo = x.lo /\ u.hi = x.hi
  /\ \/ u.kind = "seg" /\ x.id = g.seg.id
     \/ u.kind = "image" /\ x.id = g.lib[u.no].id
LEMMA ImageClaimed ==
  ASSUME NEW g, NEW x \in Images(g)
  PROVE  \E u : ClaimFor(g, x, u)
<1>1. CASE \E s \in Slots : Running(g.lib[s]) /\ x = [lo |-> g.lib[s].lo, hi |-> g.lib[s].hi, id |-> g.lib[s].id]
  <2>1. PICK s \in Slots : Running(g.lib[s]) /\ x = [lo |-> g.lib[s].lo, hi |-> g.lib[s].hi, id |-> g.lib[s].id]
    BY <1>1
  <2>2. ClaimFor(g, x, Claim("image", s, g.lib[s].lo, g.lib[s].hi))
    BY <2>1, ClaimIs DEF Claim, InUse, Running, ClaimFor
  <2> QED  BY <2>2
<1>2. CASE g.seg.live /\ x = [lo |-> g.seg.lo, hi |-> g.seg.hi, id |-> g.seg.id]
  <2>1. ClaimFor(g, x, Claim("seg", 0, g.seg.lo, g.seg.hi))
    BY <1>2, ClaimIs DEF Claim, ClaimFor
  <2> QED  BY <2>1
<1> QED  BY <1>1, <1>2, ImageIs

LEMMA ImagesApart ==
  ASSUME NEW g, Room(g), NEW i \in Images(g), NEW j \in Images(g), i.id # j.id
  PROVE  Cells(i) \cap Cells(j) = {}
<1>1. PICK u : ClaimFor(g, i, u)
  BY ImageClaimed
<1>2. PICK w : ClaimFor(g, j, w)
  BY ImageClaimed
<1>3. Cells(u) \cap Cells(w) = {}
  BY <1>1, <1>2 DEF ClaimFor, Room, Disjoint
<1> QED  BY <1>1, <1>2, <1>3 DEF Cells, ClaimFor
LEMMA ImageBelow ==
  ASSUME NEW g, Room(g), NEW i \in Images(g)
  PROVE  i.hi <= g.heap
BY ImageClaimed DEF ClaimFor, Room, Below

\* What a step does to the heap: nothing, or it gives claims up.
LEMMA RoomKept ==
  ASSUME NEW g, NEW h, Typed(g), Typed(h), Room(g), Fresh(g), Claims(h) \subseteq Claims(g),
         Images(h) \subseteq Images(g), g.heap <= h.heap, h.cache = g.cache
  PROVE  Room(h) /\ Fresh(h)
<1>1. g.heap \in Nat /\ h.heap \in Nat
  BY DEF Typed
<1>2. Room(h)
  BY <1>1, ClaimLess DEF Room
<1>3. ASSUME NEW c \in Contexts, NEW e \in h.cache[c]
      PROVE  e.hi <= h.heap /\ \A i \in Images(h) : e.id # i.id => Cells(e) \cap Cells(i) = {}
  <2>1. e \in Image /\ e.hi <= g.heap /\ \A i \in Images(g) : e.id # i.id => Cells(e) \cap Cells(i) = {}
    BY <1>3 DEF Fresh, Typed
  <2> QED  BY <1>1, <2>1 DEF Image
<1> QED  BY <1>2, <1>3 DEF Fresh

\* It takes cells at the top, perhaps for an image.
LEMMA RoomGrown ==
  ASSUME NEW g, NEW h, Typed(g), Typed(h), Room(g), Fresh(g), NEW u, u.lo = g.heap, u.hi = h.heap,
         g.heap < h.heap, Claims(h) \subseteq Claims(g) \cup {u}, h.cache = g.cache,
         \A i \in Images(h) : i \in Images(g) \/ (i.lo = g.heap /\ i.hi = h.heap)
  PROVE  Room(h) /\ Fresh(h)
<1>1. g.heap \in Nat /\ h.heap \in Nat
  BY DEF Typed
<1>2. Room(h)
  BY <1>1, ClaimMore DEF Room
<1>3. ASSUME NEW c \in Contexts, NEW e \in h.cache[c]
      PROVE  e.hi <= h.heap /\ \A i \in Images(h) : e.id # i.id => Cells(e) \cap Cells(i) = {}
  <2>1. /\ e \in Image /\ e.hi <= g.heap
        /\ \A i \in Images(g) : e.id # i.id => Cells(e) \cap Cells(i) = {}
    BY <1>3 DEF Fresh, Typed
  <2>2. e.lo \in Nat /\ e.hi \in Nat
    BY <2>1 DEF Image
  <2>3. ASSUME NEW i \in Images(h), i.lo = g.heap, i.hi = h.heap PROVE Cells(e) \cap Cells(i) = {}
    BY <1>1, <2>1, <2>2, <2>3 DEF Cells
  <2>4. e.hi <= h.heap
    BY <1>1, <2>1, <2>2
  <2> QED  BY <2>1, <2>3, <2>4
<1> QED  BY <1>2, <1>3 DEF Fresh

\* It drops all translations and gives a claim up, and its cells if they are the
\* topmost.
LEMMA RoomFreed ==
  ASSUME NEW g, NEW h, Typed(g), Typed(h), Room(g), NEW u \in Claims(g),
         Claims(h) \subseteq Claims(g) \ {u}, \A c \in Contexts : h.cache[c] = {},
         h.heap = g.heap \/ (u.hi = g.heap /\ h.heap = u.lo)
  PROVE  Room(h) /\ Fresh(h)
<1>1. g.heap \in Nat /\ h.heap \in Nat /\ Disjoint(Claims(g)) /\ Below(Claims(g), g.heap)
  BY DEF Typed, Room
<1>2. ASSUME h.heap = g.heap PROVE Room(h)
  <2>1. Claims(h) \subseteq Claims(g)
    OBVIOUS
  <2> QED  BY <1>1, <1>2, <2>1, ClaimLess DEF Room
<1>3. ASSUME u.hi = g.heap, h.heap = u.lo PROVE Room(h)
  <2>1. Disjoint(Claims(g) \ {u}) /\ Below(Claims(g) \ {u}, u.lo) /\ u.lo \in Nat
    BY <1>1, <1>3, ClaimTop
  <2>2. Disjoint(Claims(h)) /\ Below(Claims(h), u.lo)
    BY <2>1, ClaimLess
  <2> QED  BY <1>3, <2>2 DEF Room
<1> QED  BY <1>2, <1>3 DEF Fresh

-----------------------------------------------------------------------------
(* Frames *)

\* A step that moves nothing.
Rest(g, h) ==
  h.seg = g.seg /\ h.heap = g.heap /\ h.given = g.given /\ h.loads = g.loads /\ h.cache = g.cache
Alike(l, m) ==
  /\ m.state = l.state /\ m.lo = l.lo /\ m.hi = l.hi /\ m.close = l.close /\ m.id = l.id
  /\ m.reclaim = l.reclaim

LEMMA Unmoved ==
  ASSUME NEW g, NEW h, Rest(g, h), \A s \in Slots : Alike(g.lib[s], h.lib[s])
  PROVE  Claims(h) = Claims(g) /\ Images(h) = Images(g)
<1>1. \A u : u \in Claims(h) <=> u \in Claims(g)
  <2> SUFFICES ASSUME NEW u PROVE u \in Claims(h) <=> u \in Claims(g)
    OBVIOUS
  <2>1. \A s \in Slots : /\ InUse(h.lib[s]) <=> InUse(g.lib[s])
                         /\ HasClose(h.lib[s]) <=> HasClose(g.lib[s])
    BY DEF Alike, InUse, HasClose
  <2>2. \A s \in Slots : h.lib[s].lo = g.lib[s].lo /\ h.lib[s].hi = g.lib[s].hi /\ h.lib[s].close = g.lib[s].close
    BY DEF Alike
  <2> QED  BY <2>1, <2>2, ClaimIs DEF Rest
<1>2. \A i : i \in Images(h) <=> i \in Images(g)
  <2> SUFFICES ASSUME NEW i PROVE i \in Images(h) <=> i \in Images(g)
    OBVIOUS
  <2>1. \A s \in Slots : /\ Running(h.lib[s]) <=> Running(g.lib[s])
                         /\ h.lib[s].lo = g.lib[s].lo /\ h.lib[s].hi = g.lib[s].hi /\ h.lib[s].id = g.lib[s].id
    BY DEF Alike, Running
  <2> QED  BY <2>1, ImageIs DEF Rest
<1> QED  BY <1>1, <1>2

LEMMA StackIs ==
  ASSUME NEW g, Typed(g), NEW c \in Contexts
  PROVE  /\ g.stack[c] \in Seq(VectorFrame) /\ Len(g.stack[c]) \in Nat
         /\ \A k \in 1 .. Len(g.stack[c]) : /\ g.stack[c][k].slot \in Slots /\ g.stack[c][k] \in VectorFrame
                                            /\ k \in Nat
         /\ g.stack[c] # <<>> => Len(g.stack[c]) \in 1 .. Len(g.stack[c])
<1>1. g.stack[c] \in Seq(VectorFrame)
  BY DEF Typed
<1> DEFINE q == g.stack[c]
<1> HIDE DEF q
<1>2. q \in Seq(VectorFrame)
  BY <1>1 DEF q
<1>3. Len(q) \in Nat /\ \A k \in 1 .. Len(q) : q[k] \in VectorFrame /\ k \in Nat
  BY <1>2
<1>4. \A k \in 1 .. Len(q) : q[k].slot \in Slots
  BY <1>3 DEF VectorFrame
<1>5. q # <<>> => Len(q) \in 1 .. Len(q)
  BY <1>2, <1>3
<1> QED  BY <1>2, <1>3, <1>4, <1>5 DEF q

\* Two vectors in progress are of different libraries, as each has its save area.
LEMMA OneFrameEach ==
  ASSUME NEW g, Typed(g), NEW c \in Contexts,
         NEW j \in 1 .. Len(g.stack[c]), NEW k \in 1 .. Len(g.stack[c]), j # k,
         \A n \in 1 .. Len(g.stack[c]) : /\ g.stack[c][n].regs = <<c, n - 1>>
                                         /\ g.lib[g.stack[c][n].slot].saved = g.stack[c][n].regs
  PROVE  g.stack[c][j].slot # g.stack[c][k].slot
<1>1. j \in Nat /\ k \in Nat
  BY StackIs
<1>2. <<c, j - 1>> # <<c, k - 1>>
  BY <1>1
<1> QED  BY <1>2

\* guestlib_save_preserved: a vector is entered.
LEMMA Pushed ==
  ASSUME NEW g, Formed(g), NEW c \in Contexts, NEW s \in Slots, NEW phase,
         NEW h, h = Push(g, c, s, phase)
  PROVE  /\ Formed(h) /\ Rest(g, h) /\ h.clobbered = g.clobbered
         /\ \A t \in Slots : Alike(g.lib[t], h.lib[t])
         /\ \A t \in Slots : t # s => h.lib[t] = g.lib[t]
         /\ h.lib[s].saved = <<c, Len(g.stack[c])>>
         /\ h.stack = [g.stack EXCEPT ![c] = Append(g.stack[c], [slot |-> s, phase |-> phase, regs |-> <<c, Len(g.stack[c])>>])]
<1> DEFINE token == <<c, Len(g.stack[c])>>
           l == [g.lib[s] EXCEPT !.saved = token]
           q == Append(g.stack[c], [slot |-> s, phase |-> phase, regs |-> token])
<1>1. h = [g EXCEPT !.lib = [g.lib EXCEPT ![s] = l], !.stack = [g.stack EXCEPT ![c] = q]]
  BY DEF Push, Token, Formed, HasFields, StateFields
<1>2. HasFields(l, LibFields)
  BY DEF Formed, HasFields, LibFields
<1>3. l.saved = token /\ Alike(g.lib[s], l)
  BY DEF Formed, HasFields, LibFields, Alike
<1> HIDE DEF l, q, token
<1>4. /\ HasFields(h, StateFields)
      /\ h.lib = [g.lib EXCEPT ![s] = l] /\ h.stack = [g.stack EXCEPT ![c] = q] /\ h.seg = g.seg
      /\ h.heap = g.heap /\ h.given = g.given /\ h.loads = g.loads /\ h.cache = g.cache
      /\ h.clobbered = g.clobbered
  BY <1>1 DEF Formed, HasFields, StateFields
<1>5. \A t \in Slots : h.lib[t] = IF t = s THEN l ELSE g.lib[t]
  BY <1>4 DEF Formed
<1>6. Formed(h)
  BY <1>2, <1>4, <1>5 DEF Formed
<1>7. \A t \in Slots : Alike(g.lib[t], h.lib[t])
  BY <1>3, <1>5 DEF Alike
<1> QED  BY <1>3, <1>4, <1>5, <1>6, <1>7 DEF Rest, q, token

-----------------------------------------------------------------------------
(* A vector starts, goes on, and returns *)

\* Nothing waits for its memory and the last vector is not about to free any.
Quiet(g, c) ==
  /\ \A s \in Slots : ~g.lib[s].reclaim
  /\ \A k \in 1 .. Len(g.stack[c]) : g.stack[c][k].phase # "reclaim"
OnStack(g, c, s) == \E k \in 1 .. Len(g.stack[c]) : g.stack[c][k].slot = s

LEMMA CallingIsQuiet ==
  ASSUME NEW g, LibInv(g), NEW c \in Contexts, Contexts = {c},
         g.stack[c] # <<>> => g.stack[c][Len(g.stack[c])].phase # "reclaim"
  PROVE  Quiet(g, c)
<1>1. \A s \in Slots : ~g.lib[s].reclaim
  BY DEF LibInv, ReclaimPending
<1>2. ASSUME NEW k \in 1 .. Len(g.stack[c]), g.stack[c][k].phase = "reclaim" PROVE FALSE
  <2>1. k = Len(g.stack[c])
    BY <1>2 DEF LibInv, Nested
  <2>2. g.stack[c] # <<>>
    BY <1>2, StackIs DEF LibInv
  <2> QED  BY <1>2, <2>1, <2>2
<1> QED  BY <1>1, <1>2 DEF Quiet

\* A step that leaves the vectors in progress and their libraries alone.
LEMMA Kept ==
  ASSUME NEW g, LibInv(g), NEW h, Formed(h), Typed(h), Room(h), Fresh(h), NEW c \in Contexts, Contexts = {c},
         h.stack = g.stack, h.clobbered = g.clobbered,
         \A s \in Slots : /\ OnStack(g, c, s) => h.lib[s].saved = g.lib[s].saved /\ h.lib[s].state = g.lib[s].state
                          /\ h.lib[s].reclaim => g.lib[s].reclaim /\ h.lib[s].state = g.lib[s].state
  PROVE  LibInv(h)
<1>1. ASSUME NEW k \in 1 .. Len(g.stack[c])
      PROVE  /\ h.lib[g.stack[c][k].slot].saved = g.lib[g.stack[c][k].slot].saved
             /\ h.lib[g.stack[c][k].slot].state = g.lib[g.stack[c][k].slot].state
  BY StackIs DEF OnStack, LibInv
<1>2. Nested(h)
  BY <1>1 DEF LibInv, Nested
<1>3. ReclaimPending(h)
  BY DEF LibInv, ReclaimPending
<1> QED  BY <1>2, <1>3 DEF LibInv

LEMMA PushKeeps ==
  ASSUME NEW g, LibInv(g), NEW c \in Contexts, Contexts = {c}, Quiet(g, c), NEW s \in Slots, ~OnStack(g, c, s),
         NEW phase \in Phases, phase # "reclaim", PhaseFits(phase, g.lib[s].state), NEW h, h = Push(g, c, s, phase)
  PROVE  LibInv(h)
<1> DEFINE f == [slot |-> s, phase |-> phase, regs |-> <<c, Len(g.stack[c])>>]
           q == g.stack[c]
           r == h.stack[c]
<1>1. /\ Formed(h) /\ Rest(g, h) /\ h.clobbered = g.clobbered
      /\ \A t \in Slots : Alike(g.lib[t], h.lib[t])
      /\ \A t \in Slots : t # s => h.lib[t] = g.lib[t]
      /\ h.lib[s].saved = <<c, Len(q)>>
      /\ h.stack = [g.stack EXCEPT ![c] = Append(q, f)]
  BY Pushed DEF LibInv
<1>2. r = Append(q, f)
  BY <1>1 DEF LibInv, Formed
<1>3. q \in Seq(VectorFrame) /\ Len(q) \in Nat /\ \A k \in 1 .. Len(q) : q[k].slot \in Slots /\ k \in Nat
  BY StackIs DEF LibInv
<1>4. f \in VectorFrame /\ f.slot = s /\ f.phase = phase /\ f.regs = <<c, Len(q)>>
  BY <1>3 DEF VectorFrame
<1>5. \A k \in 1 .. Len(q) : /\ q[k].slot # s /\ q[k].phase # "reclaim"
                             /\ q[k].regs = <<c, k - 1>> /\ g.lib[q[k].slot].saved = q[k].regs
                             /\ PhaseFits(q[k].phase, g.lib[q[k].slot].state)
  BY DEF OnStack, Quiet, LibInv, Nested
<1> HIDE DEF f, q
<1>6. r \in Seq(VectorFrame) /\ Len(r) = Len(q) + 1 /\ r[Len(q) + 1] = f /\ \A k \in 1 .. Len(q) : r[k] = q[k]
  BY <1>2, <1>3, <1>4
<1> HIDE DEF r
<1>7. Typed(h)
  <2>1. \A t \in Slots : TypedLib(h.lib[t])
    BY <1>1 DEF LibInv, Typed, TypedLib, Alike
  <2>2. \A d \in Contexts : h.stack[d] \in Seq(VectorFrame) /\ h.cache[d] \subseteq Image
    BY <1>1, <1>6 DEF LibInv, Typed, Rest, r
  <2> QED  BY <1>1, <2>1, <2>2 DEF LibInv, Typed, Rest
<1>8. Claims(h) = Claims(g) /\ Images(h) = Images(g)
  BY <1>1, Unmoved
<1>9. Room(h) /\ Fresh(h)
  BY <1>1, <1>8 DEF LibInv, Room, Fresh, Rest
<1>10. ASSUME NEW k \in 1 .. Len(r)
       PROVE  /\ r[k].regs = <<c, k - 1>> /\ h.lib[r[k].slot].saved = r[k].regs
              /\ PhaseFits(r[k].phase, h.lib[r[k].slot].state) /\ r[k].phase # "reclaim"
  <2>1. CASE k = Len(q) + 1
    <3>1. k - 1 = Len(q)
      BY <1>3, <2>1
    <3> QED  BY <1>1, <1>4, <1>6, <2>1, <3>1 DEF Alike
  <2>2. CASE k # Len(q) + 1
    <3>1. k \in 1 .. Len(q)
      BY <1>3, <1>6, <2>2
    <3>2. h.lib[q[k].slot] = g.lib[q[k].slot]
      BY <1>1, <1>3, <1>5, <3>1
    <3> QED  BY <1>5, <1>6, <3>1, <3>2
  <2> QED  BY <2>1, <2>2
<1>11. Nested(h)
  <2>1. ~h.clobbered
    BY <1>1 DEF LibInv, Nested
  <2> QED  BY <1>10, <2>1 DEF Nested, r
<1>12. ReclaimPending(h)
  BY <1>1 DEF ReclaimPending, Quiet, Alike
<1> QED  BY <1>1, <1>7, <1>9, <1>11, <1>12 DEF LibInv

\* The last vector of context c may return.
Ending(g, c) ==
  /\ Formed(g) /\ Typed(g) /\ Room(g) /\ Fresh(g) /\ ~g.clobbered /\ g.stack[c] # <<>>
  /\ \A k \in 1 .. Len(g.stack[c]) :
       LET f == g.stack[c][k]
       IN  /\ f.regs = <<c, k - 1>> /\ g.lib[f.slot].saved = f.regs
           /\ k # Len(g.stack[c]) => PhaseFits(f.phase, g.lib[f.slot].state) /\ f.phase # "reclaim"

LEMMA EndingIf ==
  ASSUME NEW g, LibInv(g), NEW c \in Contexts, g.stack[c] # <<>>
  PROVE  Ending(g, c)
BY DEF LibInv, Ending, Nested

\* Its own library may change.
LEMMA EndingKept ==
  ASSUME NEW g, NEW c \in Contexts, Ending(g, c), NEW h, Formed(h), Typed(h), Room(h), Fresh(h),
         h.stack = g.stack, h.clobbered = g.clobbered, NEW s, s = g.stack[c][Len(g.stack[c])].slot,
         \A t \in Slots : /\ h.lib[t].saved = g.lib[t].saved
                          /\ t # s => h.lib[t].state = g.lib[t].state
  PROVE  Ending(h, c)
<1> DEFINE q == g.stack[c]
<1>1. Typed(g) /\ q # <<>>
  BY DEF Ending
<1>2. /\ \A k \in 1 .. Len(q) : q[k].slot \in Slots
      /\ Len(q) \in 1 .. Len(q)
  BY <1>1, StackIs
<1>3. \A k \in 1 .. Len(q) : q[k].regs = <<c, k - 1>> /\ g.lib[q[k].slot].saved = q[k].regs
  BY DEF Ending
<1>4. \A k \in 1 .. Len(q) : k # Len(q) => PhaseFits(q[k].phase, g.lib[q[k].slot].state) /\ q[k].phase # "reclaim"
  BY DEF Ending
<1>5. ASSUME NEW k \in 1 .. Len(q), k # Len(q) PROVE q[k].slot # s
  <2>1. q[k].slot # q[Len(q)].slot
    BY ONLY <1>1, <1>2, <1>3, <1>5, c \in Contexts, OneFrameEach
  <2> QED  BY <2>1
<1>6. h.stack[c] = q /\ ~h.clobbered
  BY DEF Ending
<1>7. ASSUME NEW k \in 1 .. Len(q)
      PROVE  /\ q[k].regs = <<c, k - 1>> /\ h.lib[q[k].slot].saved = q[k].regs
             /\ k # Len(q) => PhaseFits(q[k].phase, h.lib[q[k].slot].state) /\ q[k].phase # "reclaim"
  BY <1>2, <1>3, <1>4, <1>5
<1> HIDE DEF q
<1> QED  BY <1>1, <1>6, <1>7 DEF Ending

LEMMA FrontIs ==
  ASSUME NEW q \in Seq(VectorFrame), q # <<>>
  PROVE  /\ Front(q) \in Seq(VectorFrame) /\ Len(Front(q)) = Len(q) - 1
         /\ \A k \in 1 .. Len(q) - 1 : Front(q)[k] = q[k]
         /\ Last(q) = q[Len(q)] /\ Last(q) \in VectorFrame /\ Len(q) - 1 \in Nat
<1>1. Len(q) \in Nat /\ Len(q) # 0 /\ q[Len(q)] \in VectorFrame
  OBVIOUS
<1>2. Front(q) = SubSeq(q, 1, Len(q) - 1)
  BY DEF Front
<1>3. \A k \in 1 .. Len(q) - 1 : q[k] \in VectorFrame
  BY <1>1
<1>4. SubSeq(q, 1, Len(q) - 1) \in Seq(VectorFrame)
  BY <1>1, <1>3
<1>5. Len(SubSeq(q, 1, Len(q) - 1)) = Len(q) - 1
  <2> DEFINE n == Len(q) - 1
  <2>1. n \in 0 .. Len(q)
    BY <1>1
  <2> HIDE DEF n
  <2>2. Len(SubSeq(q, 1, n)) = n
    BY <1>1, <2>1
  <2> QED  BY <2>2 DEF n
<1>6. ASSUME NEW k \in 1 .. Len(q) - 1 PROVE SubSeq(q, 1, Len(q) - 1)[k] = q[k]
  BY <1>1
<1> QED  BY <1>1, <1>2, <1>4, <1>5, <1>6 DEF Last

\* guestlib_restore_preserved: the caller gets its registers back.
LEMMA PopKeeps ==
  ASSUME NEW g, NEW c \in Contexts, Contexts = {c}, Ending(g, c), \A s \in Slots : ~g.lib[s].reclaim,
         NEW h, h = Pop(g, c)
  PROVE  LibInv(h)
<1> DEFINE q == g.stack[c]
           r == h.stack[c]
           f == Front(q)
<1>1. Formed(g) /\ Typed(g) /\ Room(g) /\ Fresh(g) /\ ~g.clobbered /\ q # <<>>
  BY DEF Ending
<1>2. \A k \in 1 .. Len(q) : q[k].regs = <<c, k - 1>> /\ g.lib[q[k].slot].saved = q[k].regs
  BY DEF Ending
<1>3. \A k \in 1 .. Len(q) : k # Len(q) => PhaseFits(q[k].phase, g.lib[q[k].slot].state) /\ q[k].phase # "reclaim"
  BY DEF Ending
<1>4. q \in Seq(VectorFrame) /\ Len(q) \in 1 .. Len(q)
  BY <1>1, StackIs
<1>5. g.lib[Last(q).slot].saved = Last(q).regs
  BY <1>1, <1>2, <1>4, FrontIs
<1>6. h = [g EXCEPT !.stack = [g.stack EXCEPT ![c] = f], !.clobbered = FALSE]
  BY <1>1, <1>5 DEF Pop, Formed, HasFields, StateFields
<1> HIDE DEF f, q
<1>7. /\ f \in Seq(VectorFrame) /\ Len(f) = Len(q) - 1 /\ Len(q) - 1 \in Nat
      /\ \A k \in 1 .. Len(q) - 1 : f[k] = q[k]
  BY <1>1, <1>4, FrontIs DEF f
<1>8. /\ HasFields(h, StateFields)
      /\ h.lib = g.lib /\ h.stack = [g.stack EXCEPT ![c] = f]
      /\ Rest(g, h) /\ h.clobbered = FALSE
  BY <1>1, <1>6 DEF Formed, HasFields, StateFields, Rest
<1>9. h.stack[c] = f
  BY <1>1, <1>8 DEF Formed
<1>10. Formed(h)
  BY <1>1, <1>8 DEF Formed, Rest
<1>11. Typed(h)
  BY <1>1, <1>7, <1>8, <1>9 DEF Typed, Rest
<1>12. Claims(h) = Claims(g) /\ Images(h) = Images(g)
  BY <1>8, Unmoved DEF Alike
<1>13. Room(h) /\ Fresh(h)
  BY <1>1, <1>8, <1>12 DEF Room, Fresh, Rest
<1>14. ASSUME NEW k \in 1 .. Len(f)
       PROVE  /\ f[k].regs = <<c, k - 1>> /\ h.lib[f[k].slot].saved = f[k].regs
              /\ PhaseFits(f[k].phase, h.lib[f[k].slot].state) /\ f[k].phase # "reclaim"
  <2>1. k \in 1 .. Len(q) /\ k # Len(q) /\ f[k] = q[k]
    BY <1>7
  <2> QED  BY <1>2, <1>3, <1>8, <2>1
<1> HIDE DEF r
<1>15. Nested(h)
  BY <1>8, <1>9, <1>14 DEF Nested
<1>16. ReclaimPending(h)
  BY <1>8 DEF ReclaimPending
<1> QED  BY <1>10, <1>11, <1>13, <1>15, <1>16 DEF LibInv

\* The trampoline goes on to the library's next vector.
LEMMA PhaseKeeps ==
  ASSUME NEW g, NEW c \in Contexts, Contexts = {c}, Ending(g, c), NEW s, s = Last(g.stack[c]).slot,
         NEW phase \in Phases, PhaseFits(phase, g.lib[s].state),
         \A t \in Slots : g.lib[t].reclaim => t = s /\ phase = "reclaim" /\ g.lib[s].state = "UNLOADED",
         NEW h, h = SetPhase(g, c, phase)
  PROVE  LibInv(h)
<1> DEFINE q == g.stack[c]
           e == [Last(q) EXCEPT !.phase = phase]
           f == Append(Front(q), e)
<1>1. Formed(g) /\ Typed(g) /\ Room(g) /\ Fresh(g) /\ ~g.clobbered /\ q # <<>>
  BY DEF Ending
<1>2. \A k \in 1 .. Len(q) : q[k].regs = <<c, k - 1>> /\ g.lib[q[k].slot].saved = q[k].regs
  BY DEF Ending
<1>3. \A k \in 1 .. Len(q) : k # Len(q) => PhaseFits(q[k].phase, g.lib[q[k].slot].state) /\ q[k].phase # "reclaim"
  BY DEF Ending
<1>4. q \in Seq(VectorFrame) /\ Len(q) \in 1 .. Len(q)
  BY <1>1, StackIs
<1>5. h = [g EXCEPT !.stack = [g.stack EXCEPT ![c] = f]]
  BY <1>1 DEF SetPhase, Formed, HasFields, StateFields
<1> HIDE DEF q
<1>6. /\ Front(q) \in Seq(VectorFrame) /\ Len(Front(q)) = Len(q) - 1 /\ Len(q) - 1 \in Nat
      /\ \A k \in 1 .. Len(q) - 1 : Front(q)[k] = q[k]
      /\ Last(q) = q[Len(q)] /\ Last(q) \in VectorFrame
  BY <1>1, <1>4, FrontIs
<1>7. e \in VectorFrame /\ e.slot = Last(q).slot /\ e.phase = phase /\ e.regs = Last(q).regs
  BY <1>6 DEF VectorFrame
<1> HIDE DEF e
<1>8. /\ f \in Seq(VectorFrame) /\ Len(f) = Len(q) /\ f[Len(q)] = e
      /\ \A k \in 1 .. Len(q) - 1 : f[k] = q[k]
  <2> DEFINE p == Front(q)
  <2> HIDE DEF p
  <2>1. /\ Append(p, e) \in Seq(VectorFrame) /\ Len(Append(p, e)) = Len(q) /\ Append(p, e)[Len(q)] = e
        /\ \A k \in 1 .. Len(q) - 1 : Append(p, e)[k] = p[k]
    BY <1>4, <1>6, <1>7 DEF p
  <2> QED  BY <1>6, <2>1 DEF p
<1> HIDE DEF f
<1>9. /\ HasFields(h, StateFields)
      /\ h.lib = g.lib /\ h.stack = [g.stack EXCEPT ![c] = f]
      /\ Rest(g, h) /\ h.clobbered = g.clobbered
  BY <1>1, <1>5 DEF Formed, HasFields, StateFields, Rest
<1>10. h.stack[c] = f
  BY <1>1, <1>9 DEF Formed
<1>11. Formed(h)
  BY <1>1, <1>9 DEF Formed, Rest
<1>12. Typed(h)
  BY <1>1, <1>8, <1>9, <1>10 DEF Typed, Rest
<1>13. Claims(h) = Claims(g) /\ Images(h) = Images(g)
  BY <1>9, Unmoved DEF Alike
<1>14. Room(h) /\ Fresh(h)
  BY <1>1, <1>9, <1>13 DEF Room, Fresh, Rest
<1>15. ASSUME NEW k \in 1 .. Len(f)
       PROVE  /\ f[k].regs = <<c, k - 1>> /\ h.lib[f[k].slot].saved = f[k].regs
              /\ PhaseFits(f[k].phase, h.lib[f[k].slot].state)
              /\ f[k].phase = "reclaim" => k = Len(f)
  <2>1. CASE k = Len(q)
    <3>1. f[k].slot = s /\ f[k].phase = phase /\ f[k].regs = <<c, k - 1>> /\ g.lib[s].saved = f[k].regs
      BY <1>2, <1>4, <1>6, <1>7, <1>8, <2>1 DEF q
    <3> QED  BY <1>8, <1>9, <2>1, <3>1
  <2>2. CASE k # Len(q)
    <3>1. k \in 1 .. Len(q) /\ k \in 1 .. Len(q) - 1 /\ f[k] = q[k]
      BY <1>8, <1>4, <2>2
    <3> QED  BY <1>2, <1>3, <1>9, <2>2, <3>1
  <2> QED  BY <2>1, <2>2
<1>16. Nested(h)
  <2>1. ~h.clobbered
    BY <1>1, <1>9
  <2> QED  BY ONLY <2>1, <1>10, <1>15, Contexts = {c} DEF Nested
<1>17. ReclaimPending(h)
  <2>1. f # <<>> /\ f[Len(f)].slot = s /\ f[Len(f)].phase = phase
    BY <1>4, <1>7, <1>8 DEF q
  <2> QED  BY <1>9, <1>10, <2>1 DEF ReclaimPending
<1> QED  BY <1>11, <1>12, <1>14, <1>16, <1>17 DEF LibInv

-----------------------------------------------------------------------------
(* OpenLibrary and the loader *)

LEMMA LowestIn ==
  ASSUME NEW S, S \subseteq Slots, S # {}
  PROVE  Lowest(S) \in S
<1> DEFINE R == {p \in Nat \X Nat : p[1] < p[2]}
<1>1. IsWellFoundedOn(R, Nat)
  BY NatLessThanWellFounded DEF OpToRel
<1>2. \A x, y \in Nat : y < x => <<y, x>> \in R
  OBVIOUS
<1> HIDE DEF R
<1>3. S \subseteq Nat
  BY GuestLibsAssumption DEF Slots
<1>4. PICK s \in S : \A t \in S : ~ (<<t, s>> \in R)
  BY <1>1, <1>3, WFMin
<1>5. ASSUME NEW t \in S PROVE s <= t
  <2>1. ~ (t < s) /\ s \in Nat /\ t \in Nat
    BY <1>2, <1>3, <1>4
  <2> QED  BY <2>1
<1> QED  BY <1>5 DEF Lowest

\* A step that writes one library.
Writes(g, s, m, h) ==
  /\ s \in Slots /\ HasFields(m, LibFields) /\ TypedLib(m)
  /\ HasFields(h, StateFields) /\ h.lib = [g.lib EXCEPT ![s] = m] /\ h.stack = g.stack
  /\ h.seg = g.seg /\ h.given = g.given /\ h.cache = g.cache /\ h.loads \in Nat /\ h.heap \in Nat
SameImage(l, m) == m.lo = l.lo /\ m.hi = l.hi

LEMMA Written ==
  ASSUME NEW g, Formed(g), Typed(g), NEW s, NEW m, NEW h, Writes(g, s, m, h)
  PROVE  Formed(h) /\ Typed(h) /\ h.lib[s] = m /\ \A t \in Slots : t # s => h.lib[t] = g.lib[t]
<1>1. \A t \in Slots : h.lib[t] = IF t = s THEN m ELSE g.lib[t]
  BY DEF Writes, Formed
<1>2. Formed(h)
  BY <1>1 DEF Writes, Formed
<1>3. Typed(h)
  <2>1. \A t \in Slots : TypedLib(h.lib[t])
    BY <1>1 DEF Writes, Typed
  <2> QED  BY <2>1 DEF Writes, Typed
<1> QED  BY <1>1, <1>2, <1>3 DEF Writes

\* The library claims nothing it did not have.
LEMMA WrittenKept ==
  ASSUME NEW g, Formed(g), Typed(g), Room(g), Fresh(g), NEW s, NEW m, NEW h, Writes(g, s, m, h), h.heap = g.heap,
         InUse(m) => InUse(g.lib[s]) /\ SameImage(g.lib[s], m),
         HasClose(m) => HasClose(g.lib[s]) /\ m.close = g.lib[s].close,
         Running(m) => Running(g.lib[s]) /\ SameImage(g.lib[s], m) /\ m.id = g.lib[s].id
  PROVE  Formed(h) /\ Typed(h) /\ Room(h) /\ Fresh(h)
<1>1. Formed(h) /\ Typed(h) /\ h.lib[s] = m /\ s \in Slots /\ \A t \in Slots : t # s => h.lib[t] = g.lib[t]
  <2>1. s \in Slots
    BY DEF Writes
  <2> QED  BY <2>1, Written
<1>2. h.seg = g.seg /\ h.given = g.given /\ h.cache = g.cache /\ g.heap <= h.heap
  BY DEF Writes, Typed
<1>3. ASSUME NEW u \in Claims(h) PROVE u \in Claims(g)
  BY <1>1, <1>2, <1>3, ClaimIs DEF SameImage
<1>4. ASSUME NEW i \in Images(h) PROVE i \in Images(g)
  BY <1>1, <1>2, <1>4, ImageIs DEF SameImage
<1> QED  BY <1>1, <1>2, <1>3, <1>4, RoomKept

\* It claims the cells that were just taken at the top of the heap.
LEMMA WrittenGrown ==
  ASSUME NEW g, Formed(g), Typed(g), Room(g), Fresh(g), NEW s, NEW m, NEW h, Writes(g, s, m, h), g.heap < h.heap,
         NEW u, u.lo = g.heap, u.hi = h.heap,
         InUse(m) => (InUse(g.lib[s]) /\ SameImage(g.lib[s], m)) \/ Claim("image", s, m.lo, m.hi) = u,
         HasClose(m) => (HasClose(g.lib[s]) /\ m.close = g.lib[s].close) \/ Claim("close", s, m.close, m.close + 1) = u,
         Running(m) => \/ Running(g.lib[s]) /\ SameImage(g.lib[s], m) /\ m.id = g.lib[s].id
                       \/ m.lo = g.heap /\ m.hi = h.heap
  PROVE  Formed(h) /\ Typed(h) /\ Room(h) /\ Fresh(h)
<1>1. Formed(h) /\ Typed(h) /\ h.lib[s] = m /\ s \in Slots /\ \A t \in Slots : t # s => h.lib[t] = g.lib[t]
  <2>1. s \in Slots
    BY DEF Writes
  <2> QED  BY <2>1, Written
<1>2. h.seg = g.seg /\ h.given = g.given /\ h.cache = g.cache
  BY DEF Writes
<1>3. ASSUME NEW w \in Claims(h) PROVE w \in Claims(g) \cup {u}
  BY <1>1, <1>2, <1>3, ClaimIs DEF SameImage
<1>4. ASSUME NEW i \in Images(h) PROVE i \in Images(g) \/ (i.lo = g.heap /\ i.hi = h.heap)
  BY <1>1, <1>2, <1>4, ImageIs DEF SameImage
<1> QED  BY <1>1, <1>2, <1>3, <1>4, RoomGrown

LEMMA FreeIsFree ==
  ASSUME NEW g, LibInv(g), NEW c \in Contexts, Quiet(g, c), NEW s \in FreeSlots(g)
  PROVE  s \in Slots /\ ~Running(g.lib[s]) /\ ~InUse(g.lib[s]) /\ ~HasClose(g.lib[s]) /\ ~OnStack(g, c, s)
<1>1. s \in Slots /\ g.lib[s].state \in {"EMPTY", "UNLOADED"} /\ ~g.lib[s].reclaim
  BY DEF FreeSlots, Quiet
<1>2. ASSUME NEW k \in 1 .. Len(g.stack[c]), g.stack[c][k].slot = s PROVE FALSE
  BY <1>1, <1>2 DEF LibInv, Nested, PhaseFits, Quiet
<1> QED  BY <1>1, <1>2 DEF Running, InUse, HasClose, OnStack

LEMMA LoadKeeps ==
  ASSUME NEW g, LibInv(g), NEW c \in Contexts, Contexts = {c}, Quiet(g, c), NEW name,
         NEW h \in Load(g, c, name)
  PROVE  LibInv(h)
<1> DEFINE s == Lowest(FreeSlots(g))
           loading == [EmptyLib EXCEPT !.name = name, !.state = "LOADING", !.parent = g.active,
                                       !.lo = g.heap, !.hi = g.heap + ImageSize, !.id = g.loads + 1]
           dead == [loading EXCEPT !.state = "UNLOADED"]
           failed == [g EXCEPT !.lib[s] = dead]
           loaded == [g EXCEPT !.lib[s] = loading, !.active = s, !.heap = @ + ImageSize, !.loads = @ + 1]
<1>1. CASE FreeSlots(g) = {}
  BY <1>1 DEF Load
<1>2. CASE FreeSlots(g) # {}
  <2>1. s \in FreeSlots(g)
    BY <1>2, LowestIn DEF FreeSlots
  <2>2. s \in Slots /\ ~Running(g.lib[s]) /\ ~InUse(g.lib[s]) /\ ~HasClose(g.lib[s]) /\ ~OnStack(g, c, s)
    BY <2>1, FreeIsFree
  <2>3. h = failed \/ h = Push(loaded, c, s, "init")
    BY <1>2 DEF Load
  <2>4. g.heap \in Nat /\ g.loads \in Nat /\ ImageSize = 2 /\ g.heap + ImageSize \in Nat /\ g.loads + 1 \in Nat
    BY DEF LibInv, Typed, ImageSize
  <2>5. /\ HasFields(loading, LibFields) /\ loading.state = "LOADING" /\ loading.lo = g.heap
        /\ loading.hi = g.heap + ImageSize /\ loading.id = g.loads + 1 /\ loading.close = 0 /\ loading.reclaim = FALSE
    BY DEF HasFields, LibFields, EmptyLib
  <2>6. /\ HasFields(dead, LibFields) /\ dead.state = "UNLOADED" /\ dead.lo = g.heap
        /\ dead.hi = g.heap + ImageSize /\ dead.id = g.loads + 1 /\ dead.close = 0 /\ dead.reclaim = FALSE
    BY DEF HasFields, LibFields, EmptyLib
  <2> HIDE DEF s, loading, dead
  <2>7. Writes(g, s, dead, failed) /\ failed.heap = g.heap /\ failed.clobbered = g.clobbered
    <3>1. /\ HasFields(failed, StateFields) /\ failed.lib = [g.lib EXCEPT ![s] = dead] /\ failed.stack = g.stack
          /\ Rest(g, failed) /\ failed.clobbered = g.clobbered
      BY DEF LibInv, Formed, HasFields, StateFields, Rest
    <3>2. TypedLib(dead)
      <4>1. dead.lo \in Nat /\ dead.hi \in Nat /\ dead.close \in Nat /\ dead.id \in Nat
        BY <2>4, <2>6
      <4>2. dead.reclaim \in BOOLEAN
        BY <2>6
      <4> QED  BY <4>1, <4>2 DEF TypedLib
    <3> HIDE DEF failed
    <3> QED  BY <2>2, <2>4, <2>6, <3>1, <3>2 DEF Writes, Rest
  <2>8. /\ Writes(g, s, loading, loaded) /\ loaded.heap = g.heap + ImageSize /\ loaded.clobbered = g.clobbered
    <3>1. /\ HasFields(loaded, StateFields) /\ loaded.lib = [g.lib EXCEPT ![s] = loading] /\ loaded.stack = g.stack
          /\ loaded.cache = g.cache /\ loaded.heap = g.heap + ImageSize /\ loaded.loads = g.loads + 1
          /\ loaded.given = g.given /\ loaded.seg = g.seg /\ loaded.clobbered = g.clobbered
      BY DEF LibInv, Formed, HasFields, StateFields
    <3>2. TypedLib(loading)
      <4>1. loading.lo \in Nat /\ loading.hi \in Nat /\ loading.close \in Nat /\ loading.id \in Nat
        BY <2>4, <2>5
      <4>2. loading.reclaim \in BOOLEAN
        BY <2>5
      <4> QED  BY <4>1, <4>2 DEF TypedLib
    <3> HIDE DEF loaded
    <3> QED  BY <2>2, <2>4, <2>5, <3>1, <3>2 DEF Writes
  <2> HIDE DEF failed, loaded
  <2>9. LibInv(failed)
    <3>1. failed.lib[s] = dead /\ failed.stack = g.stack /\ \A t \in Slots : t # s => failed.lib[t] = g.lib[t]
      <4>1. Formed(g) /\ Typed(g)
        BY DEF LibInv
      <4>2. failed.stack = g.stack
        BY <2>7 DEF Writes
      <4> QED  BY <2>7, <4>1, <4>2, Written
    <3>2. ~InUse(dead) /\ ~HasClose(dead) /\ ~Running(dead)
      BY <2>6 DEF InUse, HasClose, Running
    <3>3. Formed(failed) /\ Typed(failed) /\ Room(failed) /\ Fresh(failed)
      BY <2>7, <3>2, WrittenKept DEF LibInv
    <3>4. \A t \in Slots : /\ OnStack(g, c, t) => failed.lib[t].saved = g.lib[t].saved /\ failed.lib[t].state = g.lib[t].state
                           /\ failed.lib[t].reclaim => g.lib[t].reclaim /\ failed.lib[t].state = g.lib[t].state
      BY <2>2, <2>6, <3>1
    <3> QED  BY <2>7, <3>1, <3>3, <3>4, Kept
  <2>10. LibInv(loaded) /\ Quiet(loaded, c) /\ loaded.lib[s].state = "LOADING" /\ ~OnStack(loaded, c, s)
    <3>1. loaded.lib[s] = loading /\ loaded.stack = g.stack /\ \A t \in Slots : t # s => loaded.lib[t] = g.lib[t]
      <4>1. Formed(g) /\ Typed(g)
        BY DEF LibInv
      <4>2. loaded.stack = g.stack
        BY <2>8 DEF Writes
      <4> QED  BY <2>8, <4>1, <4>2, Written
    <3>2. Formed(loaded) /\ Typed(loaded) /\ Room(loaded) /\ Fresh(loaded)
      <4> DEFINE u == Claim("image", s, loading.lo, loading.hi)
      <4>1. u.lo = g.heap /\ u.hi = loaded.heap /\ g.heap < loaded.heap
        BY <2>4, <2>5, <2>8 DEF Claim
      <4>2. ~HasClose(loading) /\ loading.lo = g.heap /\ loading.hi = loaded.heap
        BY <2>5, <2>8 DEF HasClose
      <4>3. Claim("image", s, loading.lo, loading.hi) = u
        OBVIOUS
      <4> HIDE DEF u
      <4> QED  BY <2>8, <4>1, <4>2, <4>3, WrittenGrown DEF LibInv
    <3>3. \A t \in Slots : /\ OnStack(g, c, t) => loaded.lib[t].saved = g.lib[t].saved /\ loaded.lib[t].state = g.lib[t].state
                           /\ loaded.lib[t].reclaim => g.lib[t].reclaim /\ loaded.lib[t].state = g.lib[t].state
      BY <2>2, <2>5, <3>1
    <3>4. LibInv(loaded)
      BY <2>8, <3>1, <3>2, <3>3, Kept
    <3> QED  BY <2>2, <2>5, <3>1, <3>3, <3>4 DEF Quiet, OnStack
  <2>11. LibInv(Push(loaded, c, s, "init"))
    <3>1. PhaseFits("init", loaded.lib[s].state) /\ "init" \in Phases
      BY <2>10 DEF PhaseFits, Phases
    <3> QED  BY <2>2, <2>10, <3>1, PushKeeps
  <2> QED  BY <2>3, <2>9, <2>11
<1> QED  BY <1>1, <1>2

LEMMA OpenKeeps ==
  ASSUME NEW g, LibInv(g), NEW c \in Contexts, Contexts = {c}, Quiet(g, c), NEW name,
         \A s \in FindName(g, name) : ~OnStack(g, c, s), NEW h \in OpenLibrary(g, c, name)
  PROVE  LibInv(h)
<1> DEFINE found == FindName(g, name)
           s == Lowest(found)
<1>1. CASE found = {}
  BY <1>1, LoadKeeps DEF OpenLibrary
<1>2. CASE found # {}
  <2>1. s \in found /\ s \in Slots
    BY <1>2, LowestIn DEF FindName
  <2>2. CASE h = g
    BY <2>2
  <2>3. CASE g.lib[s].state = "READY" /\ h = Push(g, c, s, "open")
    <3>1. "open" \in Phases /\ "open" # "reclaim" /\ PhaseFits("open", g.lib[s].state)
      BY <2>3 DEF Phases, PhaseFits
    <3>2. ~OnStack(g, c, s)
      BY <2>1
    <3> HIDE DEF s, found
    <3> QED  BY <2>1, <2>3, <3>1, <3>2, PushKeeps
  <2> QED  BY <1>2, <2>2, <2>3 DEF OpenLibrary
<1> QED  BY <1>1, <1>2

LEMMA CloseKeeps ==
  ASSUME NEW g, LibInv(g), NEW c \in Contexts, Contexts = {c}, Quiet(g, c), NEW base,
         \A s \in FindBase(g, base) : ~OnStack(g, c, s), NEW h \in CloseLibrary(g, c, base)
  PROVE  LibInv(h)
<1> DEFINE found == FindBase(g, base)
           s == Lowest(found)
           p == Push(g, c, s, "close")
           m == [p.lib[s] EXCEPT !.closing = base]
<1>1. CASE found = {}
  BY <1>1 DEF CloseLibrary
<1>2. CASE found # {}
  <2>1. s \in found /\ s \in Slots /\ g.lib[s].state = "READY"
    BY <1>2, LowestIn DEF FindBase
  <2>2. LibInv(p)
    <3>1. "close" \in Phases /\ "close" # "reclaim" /\ PhaseFits("close", g.lib[s].state)
      BY <2>1 DEF Phases, PhaseFits
    <3>2. ~OnStack(g, c, s)
      BY <2>1
    <3> HIDE DEF s, found
    <3> QED  BY <2>1, <3>1, <3>2, PushKeeps
  <2>3. h = [p EXCEPT !.lib = [p.lib EXCEPT ![s] = m]]
    BY <1>2 DEF CloseLibrary
  <2>4. HasFields(m, LibFields) /\ Alike(p.lib[s], m) /\ m.saved = p.lib[s].saved /\ TypedLib(m)
    <3>1. HasFields(p.lib[s], LibFields) /\ TypedLib(p.lib[s])
      BY <2>1, <2>2 DEF LibInv, Formed, Typed
    <3> HIDE DEF p, s
    <3> QED  BY <3>1 DEF HasFields, LibFields, Alike, TypedLib
  <2> HIDE DEF m, p, s, found
  <2>5. /\ HasFields(h, StateFields) /\ h.lib = [p.lib EXCEPT ![s] = m] /\ h.stack = p.stack
        /\ Rest(p, h) /\ h.clobbered = p.clobbered
    BY <2>2, <2>3 DEF LibInv, Formed, HasFields, StateFields, Rest
  <2>6. Writes(p, s, m, h) /\ h.heap = p.heap
    BY <2>1, <2>2, <2>4, <2>5 DEF Writes, Rest, LibInv, Typed
  <2>7. Formed(p) /\ Typed(p) /\ Room(p) /\ Fresh(p)
    BY <2>2 DEF LibInv
  <2>8. h.lib[s] = m /\ \A t \in Slots : t # s => h.lib[t] = p.lib[t]
    BY <2>6, <2>7, Written
  <2>9. Formed(h) /\ Typed(h) /\ Room(h) /\ Fresh(h)
    <3>1. /\ InUse(m) => InUse(p.lib[s]) /\ SameImage(p.lib[s], m)
          /\ HasClose(m) => HasClose(p.lib[s]) /\ m.close = p.lib[s].close
          /\ Running(m) => Running(p.lib[s]) /\ SameImage(p.lib[s], m) /\ m.id = p.lib[s].id
      BY <2>4 DEF Alike, InUse, HasClose, Running, SameImage
    <3> QED  BY <2>6, <2>7, <3>1, WrittenKept
  <2>10. \A t \in Slots : /\ OnStack(p, c, t) => h.lib[t].saved = p.lib[t].saved /\ h.lib[t].state = p.lib[t].state
                          /\ h.lib[t].reclaim => p.lib[t].reclaim /\ h.lib[t].state = p.lib[t].state
    BY <2>4, <2>8 DEF Alike
  <2> QED  BY <2>2, <2>5, <2>9, <2>10, Kept
<1> QED  BY <1>1, <1>2

-----------------------------------------------------------------------------
(* The heap, segments and translations *)

\* A step that leaves libraries and vectors alone.
LEMMA SameLibs ==
  ASSUME NEW g, LibInv(g), NEW c \in Contexts, Contexts = {c}, NEW h, HasFields(h, StateFields),
         h.lib = g.lib, h.stack = g.stack, h.cache = [d \in Contexts |-> h.cache[d]], h.clobbered = g.clobbered,
         Typed(h), Room(h), Fresh(h)
  PROVE  LibInv(h)
<1>1. Formed(h)
  BY DEF LibInv, Formed
<1> QED  BY <1>1, Kept

\* emu68k_guest_alloc: one more cell.
LEMMA TakenKeeps ==
  ASSUME NEW g, LibInv(g), NEW c \in Contexts, Contexts = {c}, NEW h, HasFields(h, StateFields),
         h.lib = g.lib, h.stack = g.stack, h.cache = g.cache, h.clobbered = g.clobbered, h.seg = g.seg,
         h.loads = g.loads, h.heap = g.heap + 1, h.given = g.given \cup {g.heap}
  PROVE  LibInv(h)
<1> DEFINE u == Claim("block", g.heap, g.heap, g.heap + 1)
<1>1. g.heap \in Nat /\ h.heap \in Nat /\ g.heap < h.heap
  BY DEF LibInv, Typed
<1>2. Typed(h)
  BY <1>1 DEF LibInv, Typed
<1>3. ASSUME NEW w \in Claims(h) PROVE w \in Claims(g) \cup {u}
  BY <1>3, ClaimIs
<1>4. \A i \in Images(h) : i \in Images(g)
  BY ImageIs
<1>5. u.lo = g.heap /\ u.hi = h.heap
  BY DEF Claim
<1> HIDE DEF u
<1>6. Room(h) /\ Fresh(h)
  BY <1>1, <1>2, <1>3, <1>4, <1>5, RoomGrown DEF LibInv
<1> QED  BY <1>2, <1>6, SameLibs DEF LibInv, Formed

LEMMA NativeKeeps ==
  ASSUME NEW g, LibInv(g), NEW c \in Contexts, Contexts = {c}, NEW h \in OpenNative(g, c)
  PROVE  LibInv(h)
<1> DEFINE taken == Register([Taken(g, 1) EXCEPT !.facades = {g.heap}], c, g.heap)
           failed == [g EXCEPT !.failed = TRUE]
<1>1. h = g \/ h = taken \/ h = failed
  BY DEF OpenNative
<1>2. CASE h = taken
  <2>1. /\ HasFields(h, StateFields) /\ h.lib = g.lib /\ h.stack = g.stack /\ h.cache = g.cache
        /\ h.clobbered = g.clobbered /\ h.seg = g.seg /\ h.loads = g.loads /\ h.heap = g.heap + 1
        /\ h.given = g.given \cup {g.heap}
    BY <1>2 DEF Register, Taken, LibInv, Formed, HasFields, StateFields
  <2> QED  BY <2>1, TakenKeeps
<1>3. CASE h = failed
  <2>1. /\ HasFields(h, StateFields) /\ h.lib = g.lib /\ h.stack = g.stack /\ Rest(g, h) /\ h.clobbered = g.clobbered
    BY <1>3 DEF LibInv, Formed, HasFields, StateFields, Rest
  <2>2. Typed(h)
    BY <2>1 DEF LibInv, Typed, Rest
  <2>3. Claims(h) = Claims(g) /\ Images(h) = Images(g)
    BY <2>1, Unmoved DEF Alike
  <2>4. Room(h) /\ Fresh(h)
    BY <2>1, <2>3 DEF LibInv, Room, Fresh, Rest
  <2> QED  BY <2>1, <2>2, <2>4, SameLibs DEF LibInv, Formed, Rest
<1> QED  BY <1>1, <1>2, <1>3

LEMMA AllocKeeps ==
  ASSUME NEW g, LibInv(g), NEW c \in Contexts, Contexts = {c}, NEW h \in AllocMem(g)
  PROVE  LibInv(h)
<1>1. CASE h = Taken(g, 1)
  <2>1. /\ HasFields(h, StateFields) /\ h.lib = g.lib /\ h.stack = g.stack /\ h.cache = g.cache
        /\ h.clobbered = g.clobbered /\ h.seg = g.seg /\ h.loads = g.loads /\ h.heap = g.heap + 1
        /\ h.given = g.given \cup {g.heap}
    BY <1>1 DEF Taken, LibInv, Formed, HasFields, StateFields
  <2> QED  BY <2>1, TakenKeeps
<1> QED  BY <1>1 DEF AllocMem

LEMMA LoadSegKeeps ==
  ASSUME NEW g, LibInv(g), NEW c \in Contexts, Contexts = {c}, NEW h \in LoadSeg(g)
  PROVE  LibInv(h)
<1> DEFINE sg == [live |-> TRUE, lo |-> g.heap, hi |-> g.heap + ImageSize, id |-> g.loads + 1]
           loaded == [g EXCEPT !.seg = sg, !.heap = @ + ImageSize, !.loads = @ + 1]
           u == Claim("seg", 0, g.heap, h.heap)
<1>1. h = g \/ (h = loaded /\ ~g.seg.live)
  BY DEF LoadSeg
<1>2. CASE h = loaded /\ ~g.seg.live
  <2>1. /\ HasFields(h, StateFields) /\ h.lib = g.lib /\ h.stack = g.stack /\ h.cache = g.cache
        /\ h.clobbered = g.clobbered /\ h.seg = sg /\ h.loads = g.loads + 1 /\ h.heap = g.heap + ImageSize
        /\ h.given = g.given
    BY <1>2 DEF LibInv, Formed, HasFields, StateFields
  <2>2. g.heap \in Nat /\ g.loads \in Nat /\ h.heap \in Nat /\ g.loads + 1 \in Nat /\ g.heap < h.heap
    BY <2>1 DEF LibInv, Typed, ImageSize
  <2>3. /\ sg \in [live : BOOLEAN, lo : Nat, hi : Nat, id : Nat]
        /\ sg.lo = g.heap /\ sg.hi = h.heap
    BY <2>1, <2>2
  <2> HIDE DEF sg
  <2>4. Typed(h)
    BY <2>1, <2>2, <2>3 DEF LibInv, Typed
  <2>5. ASSUME NEW w \in Claims(h) PROVE w \in Claims(g) \cup {u}
    BY <2>1, <2>3, <2>5, ClaimIs
  <2>6. ASSUME NEW i \in Images(h) PROVE i \in Images(g) \/ (i.lo = g.heap /\ i.hi = h.heap)
    BY <2>1, <2>3, <2>6, ImageIs
  <2>7. u.lo = g.heap /\ u.hi = h.heap
    BY DEF Claim
  <2> HIDE DEF u
  <2>8. Room(h) /\ Fresh(h)
    BY <2>1, <2>2, <2>4, <2>5, <2>6, <2>7, RoomGrown DEF LibInv
  <2> QED  BY <2>1, <2>4, <2>8, SameLibs DEF LibInv, Formed
<1> QED  BY <1>1, <1>2

LEMMA UnLoadSegKeeps ==
  ASSUME NEW g, LibInv(g), NEW c \in Contexts, Contexts = {c}, NEW h \in UnLoadSeg(g, c)
  PROVE  LibInv(h)
<1> DEFINE u == Claim("seg", 0, g.seg.lo, g.seg.hi)
           top == IF g.seg.hi = g.heap THEN g.seg.lo ELSE g.heap
           none == [g.cache EXCEPT ![c] = {}]
<1>1. CASE ~g.seg.live
  BY <1>1 DEF UnLoadSeg
<1>2. CASE g.seg.live
  <2>1. /\ HasFields(h, StateFields) /\ h.lib = g.lib /\ h.stack = g.stack /\ h.cache = none
        /\ h.clobbered = g.clobbered /\ h.seg = NoSeg /\ h.loads = g.loads /\ h.heap = top /\ h.given = g.given
    BY <1>2 DEF UnLoadSeg, LibInv, Formed, HasFields, StateFields
  <2>2. h.cache[c] = {} /\ h.cache = [d \in Contexts |-> h.cache[d]]
    BY <2>1 DEF LibInv, Formed
  <2>3. g.seg \in [live : BOOLEAN, lo : Nat, hi : Nat, id : Nat] /\ g.heap \in Nat /\ top \in Nat
    BY DEF LibInv, Typed
  <2>4. NoSeg \in [live : BOOLEAN, lo : Nat, hi : Nat, id : Nat] /\ NoSeg.live = FALSE
    BY DEF NoSeg
  <2>5. Typed(h)
    <3> HIDE DEF none, top
    <3> QED  BY <2>1, <2>2, <2>3, <2>4 DEF LibInv, Typed
  <2>6. u \in Claims(g) /\ u.lo = g.seg.lo /\ u.hi = g.seg.hi
    BY <1>2, ClaimIs DEF Claim
  <2>7. ASSUME NEW w \in Claims(h) PROVE w \in Claims(g) \ {u}
    <3>1. w \in Claims(g) /\ w.kind # "seg"
      BY <2>1, <2>4, <2>7, ClaimIs DEF Claim
    <3> QED  BY <3>1 DEF Claim
  <2>8. h.heap = g.heap \/ (u.hi = g.heap /\ h.heap = u.lo)
    BY <2>1, <2>6
  <2>9. Claims(h) \subseteq Claims(g) \ {u} /\ \A d \in Contexts : h.cache[d] = {}
    BY <2>2, <2>7
  <2> HIDE DEF u, none, top
  <2>10. Room(h) /\ Fresh(h)
    BY <2>5, <2>6, <2>8, <2>9, RoomFreed DEF LibInv
  <2> QED  BY <2>1, <2>2, <2>5, <2>10, SameLibs
<1> QED  BY <1>1, <1>2

LEMMA ExecuteKeeps ==
  ASSUME NEW g, LibInv(g), NEW c \in Contexts, Contexts = {c}, NEW h \in Execute(g, c)
  PROVE  LibInv(h)
<1>1. PICK i \in Images(g) : h = [g EXCEPT !.cache[c] = @ \cup {i}]
  BY DEF Execute
<1> DEFINE more == [g.cache EXCEPT ![c] = g.cache[c] \cup {i}]
<1>2. /\ HasFields(h, StateFields) /\ h.lib = g.lib /\ h.stack = g.stack /\ h.cache = more
      /\ h.clobbered = g.clobbered /\ h.seg = g.seg /\ h.loads = g.loads /\ h.heap = g.heap /\ h.given = g.given
  BY <1>1 DEF LibInv, Formed, HasFields, StateFields
<1>3. h.cache = [d \in Contexts |-> h.cache[d]] /\ h.cache[c] = g.cache[c] \cup {i}
  BY <1>2 DEF LibInv, Formed
<1> HIDE DEF more
<1>4. i \in Image
  BY ImageIs DEF LibInv, Typed, TypedLib, Image
<1>5. Typed(h)
  BY <1>2, <1>3, <1>4 DEF LibInv, Typed
<1>6. \A u : u \in Claims(h) <=> u \in Claims(g)
  BY <1>2, ClaimIs
<1>7. \A j : j \in Images(h) <=> j \in Images(g)
  BY <1>2, ImageIs
<1>8. Claims(h) = Claims(g) /\ Images(h) = Images(g)
  BY <1>6, <1>7
<1>9. Room(h)
  BY <1>2, <1>8 DEF LibInv, Room
<1>10. i.hi <= g.heap /\ \A j \in Images(g) : i.id # j.id => Cells(i) \cap Cells(j) = {}
  <2>1. ASSUME NEW j \in Images(g), i.id # j.id PROVE Cells(i) \cap Cells(j) = {}
    BY <2>1, ImagesApart DEF LibInv
  <2>2. i.hi <= g.heap
    BY ImageBelow DEF LibInv
  <2> QED  BY <2>1, <2>2
<1>11. Fresh(h)
  BY <1>2, <1>3, <1>8, <1>10 DEF LibInv, Fresh
<1> QED  BY <1>2, <1>3, <1>5, <1>9, <1>11, SameLibs

-----------------------------------------------------------------------------
(* Vectors that return *)

\* The library whose vector returns.
LEMMA TopIs ==
  ASSUME NEW g, LibInv(g), NEW c \in Contexts, g.stack[c] # <<>>
  PROVE  /\ Last(g.stack[c]).slot \in Slots /\ Last(g.stack[c]) = g.stack[c][Len(g.stack[c])]
         /\ PhaseFits(Last(g.stack[c]).phase, g.lib[Last(g.stack[c]).slot].state)
<1>1. Last(g.stack[c]) = g.stack[c][Len(g.stack[c])]
  BY DEF Last
<1>2. Len(g.stack[c]) \in 1 .. Len(g.stack[c]) /\ g.stack[c][Len(g.stack[c])].slot \in Slots
  BY StackIs DEF LibInv
<1>3. PhaseFits(g.stack[c][Len(g.stack[c])].phase, g.lib[g.stack[c][Len(g.stack[c])].slot].state)
  BY <1>2 DEF LibInv, Nested
<1> QED  BY <1>1, <1>2, <1>3

LEMMA OwnLibrary ==
  ASSUME NEW g, LibInv(g), NEW c \in Contexts, Contexts = {c}, g.stack[c] # <<>>,
         NEW s, s = Last(g.stack[c]).slot, NEW m, m.saved = g.lib[s].saved,
         NEW h, Writes(g, s, m, h), h.clobbered = g.clobbered, Room(h), Fresh(h)
  PROVE  /\ Ending(h, c) /\ h.lib[s] = m /\ Last(h.stack[c]).slot = s
         /\ \A t \in Slots : t # s => h.lib[t] = g.lib[t]
<1>1. s \in Slots /\ s = g.stack[c][Len(g.stack[c])].slot
  BY TopIs
<1>2. Formed(h) /\ Typed(h) /\ h.lib[s] = m /\ \A t \in Slots : t # s => h.lib[t] = g.lib[t]
  BY Written DEF LibInv
<1>3. \A t \in Slots : /\ h.lib[t].saved = g.lib[t].saved
                       /\ t # s => h.lib[t].state = g.lib[t].state
  BY <1>1, <1>2
<1>4. h.stack = g.stack
  BY DEF Writes
<1>5. Ending(g, c)
  BY EndingIf
<1>6. Ending(h, c)
  BY <1>1, <1>2, <1>3, <1>4, <1>5, EndingKept
<1> QED  BY <1>2, <1>4, <1>6

\* A run that gave up.
Halted(g) == g.failed /\ Room(g) /\ Fresh(g) /\ ~g.clobbered
LEMMA HaltedNow ==
  ASSUME NEW g, LibInv(g), NEW h, h = [g EXCEPT !.failed = TRUE]
  PROVE  Halted(h)
<1>1. h.lib = g.lib /\ Rest(g, h) /\ h.clobbered = g.clobbered /\ h.failed = TRUE
  BY DEF LibInv, Formed, HasFields, StateFields, Rest
<1>2. Claims(h) = Claims(g) /\ Images(h) = Images(g)
  BY <1>1, Unmoved DEF Alike
<1> QED  BY <1>1, <1>2 DEF Halted, LibInv, Nested, Room, Fresh, Rest

LEMMA FailIs ==
  ASSUME NEW g, Formed(g), Typed(g), Room(g), Fresh(g), NEW c \in Contexts, NEW s \in Slots, NEW h, h = Fail(g, c, s),
         ~g.lib[s].reclaim
  PROVE  \E m : /\ Writes(g, s, m, h) /\ h.heap = g.heap /\ h.clobbered = g.clobbered /\ Room(h) /\ Fresh(h)
                /\ m.saved = g.lib[s].saved /\ ~m.reclaim
<1> DEFINE l == g.lib[s]
           m == [l EXCEPT !.base = 0, !.state = "FAILED"]
<1>1. HasFields(l, LibFields) /\ TypedLib(l)
  BY DEF Formed, Typed
<1>2. HasFields(m, LibFields) /\ TypedLib(m) /\ m.saved = l.saved /\ m.state = "FAILED" /\ m.reclaim = l.reclaim
  <2> HIDE DEF l
  <2> QED  BY <1>1 DEF HasFields, LibFields, TypedLib
<1>3. h.lib = [g.lib EXCEPT ![s] = m]
  BY DEF Fail, Unregister, Formed, HasFields, StateFields
<1>4. HasFields(h, StateFields) /\ h.stack = g.stack /\ Rest(g, h) /\ h.clobbered = g.clobbered
  BY DEF Fail, Unregister, Formed, HasFields, StateFields, Rest
<1> HIDE DEF m
<1>5. Writes(g, s, m, h) /\ h.heap = g.heap
  BY <1>2, <1>3, <1>4 DEF Writes, Rest, Typed
<1>6. ~InUse(m) /\ ~HasClose(m) /\ ~Running(m)
  BY <1>2 DEF InUse, HasClose, Running
<1>7. Room(h) /\ Fresh(h)
  BY <1>5, <1>6, WrittenKept
<1> QED  BY <1>2, <1>4, <1>5, <1>7

LEMMA FailPopKeeps ==
  ASSUME NEW g, LibInv(g), NEW c \in Contexts, Contexts = {c}, g.stack[c] # <<>>, Quiet(g, c),
         NEW s, s = Last(g.stack[c]).slot, NEW h, h = Pop(Fail(g, c, s), c)
  PROVE  LibInv(h)
<1> DEFINE f == Fail(g, c, s)
<1>1. s \in Slots /\ ~g.lib[s].reclaim
  BY TopIs DEF Quiet
<1>2. PICK m : /\ Writes(g, s, m, f) /\ f.heap = g.heap /\ f.clobbered = g.clobbered /\ Room(f) /\ Fresh(f)
               /\ m.saved = g.lib[s].saved /\ ~m.reclaim
  BY <1>1, FailIs DEF LibInv
<1> HIDE DEF f
<1>3. Ending(f, c) /\ f.lib[s] = m /\ \A t \in Slots : t # s => f.lib[t] = g.lib[t]
  BY <1>2, OwnLibrary
<1>4. \A t \in Slots : ~f.lib[t].reclaim
  BY <1>2, <1>3 DEF Quiet
<1> QED  BY <1>3, <1>4, PopKeeps DEF f

LEMMA InitDoneKeeps ==
  ASSUME NEW g, LibInv(g), NEW c \in Contexts, Contexts = {c}, g.stack[c] # <<>>, Last(g.stack[c]).phase = "init",
         NEW ok \in BOOLEAN, NEW h \in InitDone(g, c, ok)
  PROVE  LibInv(h)
<1> DEFINE s == Last(g.stack[c]).slot
           l == g.lib[s]
           m == [l EXCEPT !.base = l.lo, !.state = "OPENING"]
           opening == Register([g EXCEPT !.lib[s].base = l.lo, !.lib[s].state = "OPENING"], c, l.lo)
<1>1. s \in Slots /\ l.state = "LOADING" /\ Quiet(g, c)
  <2>1. s \in Slots /\ PhaseFits("init", l.state) /\ Last(g.stack[c]) = g.stack[c][Len(g.stack[c])]
    BY TopIs
  <2> QED  BY <2>1, CallingIsQuiet DEF PhaseFits
<1>2. h = SetPhase(opening, c, "open") \/ h = Pop(Fail(g, c, s), c)
  BY <1>1 DEF InitDone
<1>3. CASE h = Pop(Fail(g, c, s), c)
  BY <1>1, <1>3, FailPopKeeps
<1>4. CASE h = SetPhase(opening, c, "open")
  <2>1. HasFields(l, LibFields) /\ TypedLib(l) /\ ~l.reclaim
    BY <1>1 DEF LibInv, Formed, Typed, Quiet
  <2>2. /\ HasFields(m, LibFields) /\ TypedLib(m) /\ m.saved = l.saved /\ m.state = "OPENING" /\ m.reclaim = l.reclaim
        /\ SameImage(l, m) /\ m.id = l.id
    <3> HIDE DEF l
    <3> QED  BY <2>1 DEF HasFields, LibFields, TypedLib, SameImage
  <2>3. opening.lib = [g.lib EXCEPT ![s] = m]
    BY <1>1 DEF Register, LibInv, Formed, HasFields, StateFields
  <2>4. HasFields(opening, StateFields) /\ opening.stack = g.stack /\ Rest(g, opening) /\ opening.clobbered = g.clobbered
    <3> DEFINE known == [g.known EXCEPT ![c] = @ \cup {l.lo}]
    <3>1. opening = [g EXCEPT !.lib = [g.lib EXCEPT ![s] = m], !.known = known]
      BY <2>3 DEF Register, LibInv, Formed, HasFields, StateFields
    <3> HIDE DEF s, m, known, opening
    <3> QED  BY <3>1 DEF LibInv, Formed, HasFields, StateFields, Rest
  <2> HIDE DEF m, opening
  <2>5. Writes(g, s, m, opening) /\ opening.heap = g.heap
    BY <1>1, <2>2, <2>3, <2>4 DEF Writes, Rest, LibInv, Typed
  <2>6. InUse(l) /\ Running(l) /\ ~HasClose(m)
    BY <1>1, <2>1, <2>2 DEF InUse, Running, HasClose
  <2>7. Room(opening) /\ Fresh(opening)
    BY <2>2, <2>5, <2>6, WrittenKept DEF LibInv
  <2>8. /\ Ending(opening, c) /\ opening.lib[s] = m /\ Last(opening.stack[c]).slot = s
        /\ \A t \in Slots : t # s => opening.lib[t] = g.lib[t]
    BY <2>2, <2>4, <2>5, <2>7, OwnLibrary
  <2>9. \A t \in Slots : ~opening.lib[t].reclaim
    BY <1>1, <2>1, <2>2, <2>8 DEF Quiet
  <2>10. "open" \in Phases /\ PhaseFits("open", opening.lib[s].state)
    BY <2>2, <2>8 DEF Phases, PhaseFits
  <2> HIDE DEF s
  <2> QED  BY <1>4, <2>8, <2>9, <2>10, PhaseKeeps
<1> QED  BY <1>2, <1>3, <1>4

LEMMA OpenDoneKeeps ==
  ASSUME NEW g, LibInv(g), NEW c \in Contexts, Contexts = {c}, g.stack[c] # <<>>, Last(g.stack[c]).phase = "open",
         NEW base, NEW h \in OpenDone(g, c, base)
  PROVE  LibInv(h) \/ Halted(h)
<1> DEFINE s == Last(g.stack[c]).slot
           l == g.lib[s]
           n == [l EXCEPT !.opens = Append(@, base)]
           counted == [g EXCEPT !.lib[s].opens = Append(@, base)]
           known == IF base # l.base THEN Register(counted, c, base) ELSE counted
           m == [n EXCEPT !.state = "READY", !.close = known.heap]
           ready == [known EXCEPT !.lib[s].state = "READY", !.active = l.parent,
                                  !.lib[s].close = known.heap, !.heap = @ + 1]
<1>1. s \in Slots /\ l.state \in {"OPENING", "READY"} /\ Quiet(g, c)
  <2>1. s \in Slots /\ PhaseFits("open", l.state) /\ Last(g.stack[c]) = g.stack[c][Len(g.stack[c])]
    BY TopIs
  <2> QED  BY <2>1, CallingIsQuiet DEF PhaseFits
<1>2. \/ h = Pop(Fail(g, c, s), c)
      \/ h = Pop(g, c)
      \/ h = [g EXCEPT !.failed = TRUE]
      \/ h = Pop(known, c)
      \/ h = Pop(ready, c)
      \/ h = [Fail(known, c, s) EXCEPT !.failed = TRUE]
  BY DEF OpenDone
<1>3. CASE h = Pop(Fail(g, c, s), c)
  BY <1>1, <1>3, FailPopKeeps
<1>4. CASE h = Pop(g, c)
  BY <1>1, <1>4, EndingIf, PopKeeps DEF Quiet
<1>5. CASE h = [g EXCEPT !.failed = TRUE]
  BY <1>5, HaltedNow
<1>6. HasFields(l, LibFields) /\ TypedLib(l) /\ ~l.reclaim
  BY <1>1 DEF LibInv, Formed, Typed, Quiet
<1>7. HasFields(n, LibFields) /\ TypedLib(n) /\ n.saved = l.saved /\ Alike(l, n)
  <2> HIDE DEF l
  <2> QED  BY <1>6 DEF HasFields, LibFields, TypedLib, Alike
<1>8. /\ HasFields(known, StateFields) /\ known.lib = [g.lib EXCEPT ![s] = n] /\ known.stack = g.stack
      /\ Rest(g, known) /\ known.clobbered = g.clobbered
  <2> DEFINE q == [g EXCEPT !.lib = [g.lib EXCEPT ![s] = n]]
  <2>1. counted = q
    <3> QED  BY DEF LibInv, Formed
  <2> HIDE DEF n, s
  <2>2. /\ HasFields(q, StateFields) /\ q.lib = [g.lib EXCEPT ![s] = n] /\ q.stack = g.stack
        /\ Rest(g, q) /\ q.clobbered = g.clobbered
    BY DEF LibInv, Formed, HasFields, StateFields, Rest
  <2> HIDE DEF q, counted
  <2>3. CASE known = counted
    BY <2>1, <2>2, <2>3
  <2>4. CASE known = Register(counted, c, base)
    <3> HIDE DEF known
    <3> QED  BY <2>1, <2>2, <2>4 DEF Register, Rest, HasFields, StateFields
  <2> QED  BY <2>3, <2>4
<1> HIDE DEF known, n
<1>9. Writes(g, s, n, known) /\ known.heap = g.heap
  BY <1>1, <1>7, <1>8 DEF Writes, Rest, LibInv, Typed
<1>10. Room(known) /\ Fresh(known) /\ Formed(known) /\ Typed(known)
  <2>1. /\ InUse(n) => InUse(l) /\ SameImage(l, n)
        /\ HasClose(n) => HasClose(l) /\ n.close = l.close
        /\ Running(n) => Running(l) /\ SameImage(l, n) /\ n.id = l.id
    BY <1>7 DEF Alike, InUse, HasClose, Running, SameImage
  <2> QED  BY <1>9, <2>1, WrittenKept DEF LibInv
<1>11. /\ Ending(known, c) /\ known.lib[s] = n /\ Last(known.stack[c]).slot = s
       /\ \A t \in Slots : t # s => known.lib[t] = g.lib[t]
  <2>1. known.clobbered = g.clobbered /\ n.saved = g.lib[s].saved /\ s = Last(g.stack[c]).slot
    BY <1>7, <1>8
  <2>2. Room(known) /\ Fresh(known)
    BY <1>10
  <2> HIDE DEF s
  <2> QED  BY ONLY LibInv(g), c \in Contexts, Contexts = {c}, g.stack[c] # <<>>, <1>9, <2>1, <2>2, OwnLibrary
<1>12. \A t \in Slots : ~known.lib[t].reclaim
  BY <1>1, <1>6, <1>7, <1>11 DEF Quiet, Alike
<1>13. CASE h = Pop(known, c)
  BY <1>11, <1>12, <1>13, PopKeeps
<1>14. CASE h = Pop(ready, c)
  <2>1. /\ HasFields(m, LibFields) /\ TypedLib(m) /\ m.saved = l.saved /\ m.state = "READY" /\ ~m.reclaim
        /\ SameImage(l, m) /\ m.id = l.id /\ m.close = g.heap
    <3>1. g.heap \in Nat /\ ~n.reclaim
      BY <1>6, <1>7 DEF LibInv, Typed, Alike
    <3> HIDE DEF l
    <3> QED  BY <1>7, <1>9, <3>1 DEF HasFields, LibFields, TypedLib, Alike, SameImage
  <2>2. ready.lib = [g.lib EXCEPT ![s] = m]
    <3>1. ready.lib = [known.lib EXCEPT ![s] = m]
      <4>1. known.lib[s] = n
        BY <1>11
      <4> HIDE DEF l, s
      <4> QED  BY <1>10, <4>1 DEF Formed, HasFields, StateFields
    <3> HIDE DEF m, s
    <3> QED  BY <1>8, <3>1 DEF LibInv, Formed
  <2>3. /\ HasFields(ready, StateFields) /\ ready.stack = g.stack /\ ready.clobbered = g.clobbered
        /\ ready.seg = g.seg /\ ready.given = g.given /\ ready.cache = g.cache /\ ready.loads = g.loads
        /\ ready.heap = g.heap + 1
    <3> DEFINE one == [known.lib EXCEPT ![s].state = "READY"]
               two == [one EXCEPT ![s].close = known.heap]
    <3>1. ready = [known EXCEPT !.lib = two, !.active = l.parent, !.heap = known.heap + 1]
      <4> DEFINE k1 == [known EXCEPT !.lib = one, !.active = l.parent]
      <4>1. HasFields(k1, StateFields) /\ k1.lib = one /\ k1.heap = known.heap
        <5> HIDE DEF one, l
        <5> QED  BY <1>8 DEF HasFields, StateFields
      <4>2. ready = [k1 EXCEPT !.lib[s].close = known.heap, !.heap = @ + 1]
        OBVIOUS
      <4>3. ready = [k1 EXCEPT !.lib = two, !.heap = known.heap + 1]
        <5> HIDE DEF k1, one
        <5> QED  BY <4>1, <4>2 DEF HasFields, StateFields
      <4> HIDE DEF one, two, l, ready
      <4> QED  BY <1>8, <4>3 DEF HasFields, StateFields
    <3> HIDE DEF l, s, ready, two
    <3> QED  BY <1>8, <3>1 DEF HasFields, StateFields, Rest
  <2> HIDE DEF m, ready
  <2>4. Writes(g, s, m, ready) /\ g.heap \in Nat
    BY <1>1, <2>1, <2>2, <2>3 DEF Writes, LibInv, Typed
  <2>5. Room(ready) /\ Fresh(ready)
    <3> DEFINE u == Claim("close", s, m.close, m.close + 1)
    <3>1. u.lo = g.heap /\ u.hi = ready.heap /\ g.heap < ready.heap
      BY <2>1, <2>3, <2>4 DEF Claim
    <3>2. InUse(l) /\ Running(l)
      BY <1>1 DEF InUse, Running
    <3>3. Claim("close", s, m.close, m.close + 1) = u
      OBVIOUS
    <3> HIDE DEF u
    <3> QED  BY <2>1, <2>4, <3>1, <3>2, <3>3, WrittenGrown DEF LibInv
  <2>6. Ending(ready, c) /\ ready.lib[s] = m /\ \A t \in Slots : t # s => ready.lib[t] = g.lib[t]
    BY <2>1, <2>3, <2>4, <2>5, OwnLibrary
  <2>7. \A t \in Slots : ~ready.lib[t].reclaim
    BY <1>1, <2>1, <2>6 DEF Quiet
  <2> QED  BY <1>14, <2>6, <2>7, PopKeeps
<1>15. CASE h = [Fail(known, c, s) EXCEPT !.failed = TRUE]
  <2> DEFINE f == Fail(known, c, s)
  <2>1. ~known.lib[s].reclaim
    BY <1>1, <1>12
  <2>2. PICK k : Writes(known, s, k, f) /\ f.heap = known.heap /\ f.clobbered = known.clobbered /\ Room(f) /\ Fresh(f)
    BY <1>1, <1>10, <2>1, FailIs
  <2>3. HasFields(f, StateFields) /\ ~f.clobbered
    BY <1>8, <2>2 DEF Writes, LibInv, Nested
  <2> HIDE DEF f
  <2>4. h.lib = f.lib /\ Rest(f, h) /\ h.clobbered = f.clobbered /\ h.failed = TRUE
    <3>1. h = [f EXCEPT !.failed = TRUE]
      BY <1>15 DEF f
    <3> QED  BY <2>3, <3>1 DEF HasFields, StateFields, Rest
  <2>5. Claims(h) = Claims(f) /\ Images(h) = Images(f)
    BY <2>4, Unmoved DEF Alike
  <2> QED  BY <2>2, <2>3, <2>4, <2>5 DEF Halted, Room, Fresh, Rest
<1> QED  BY <1>2, <1>3, <1>4, <1>5, <1>13, <1>14, <1>15

LEMMA CloseDoneKeeps ==
  ASSUME NEW g, LibInv(g), NEW c \in Contexts, Contexts = {c}, g.stack[c] # <<>>, Last(g.stack[c]).phase = "close",
         NEW expunged \in BOOLEAN, NEW h \in CloseDone(g, c, expunged)
  PROVE  LibInv(h)
<1> DEFINE s == Last(g.stack[c]).slot
           l == g.lib[s]
           left == [l EXCEPT !.opens = DropOne(@, l.closing), !.closing = 0]
           gone == IF l.closing # l.base /\ ~Owns(left, l.closing) THEN {l.closing} ELSE {}
           dropped == Unregister([g EXCEPT !.lib[s] = left], c, gone)
           dead == [left EXCEPT !.opens = <<>>, !.base = 0, !.state = "UNLOADED", !.reclaim = TRUE]
           unloaded == [Unregister(dropped, c, ToSet(left.opens) \cup {l.base}) EXCEPT !.lib[s] = dead]
<1>1. s \in Slots /\ l.state = "READY" /\ Quiet(g, c)
  <2>1. s \in Slots /\ PhaseFits("close", l.state) /\ Last(g.stack[c]) = g.stack[c][Len(g.stack[c])]
    BY TopIs
  <2> QED  BY <2>1, CallingIsQuiet DEF PhaseFits
<1>2. h = SetPhase(dropped, c, "reclaim") \/ h = SetPhase(unloaded, c, "reclaim")
  BY DEF CloseDone
<1>3. HasFields(l, LibFields) /\ TypedLib(l) /\ ~l.reclaim
  BY <1>1 DEF LibInv, Formed, Typed, Quiet
<1>4. HasFields(left, LibFields) /\ TypedLib(left) /\ left.saved = l.saved /\ Alike(l, left)
  <2> HIDE DEF l
  <2> QED  BY <1>3 DEF HasFields, LibFields, TypedLib, Alike
<1>5. /\ HasFields(dead, LibFields) /\ TypedLib(dead) /\ dead.saved = l.saved /\ dead.state = "UNLOADED"
      /\ SameImage(l, dead) /\ dead.close = l.close
  <2> HIDE DEF left
  <2> QED  BY <1>4 DEF HasFields, LibFields, TypedLib, Alike, SameImage
<1>6. /\ HasFields(dropped, StateFields) /\ dropped.lib = [g.lib EXCEPT ![s] = left] /\ dropped.stack = g.stack
      /\ Rest(g, dropped) /\ dropped.clobbered = g.clobbered
  <2> HIDE DEF left, s, gone
  <2> QED  BY DEF Unregister, LibInv, Formed, HasFields, StateFields, Rest
<1>7. /\ HasFields(unloaded, StateFields) /\ unloaded.lib = [g.lib EXCEPT ![s] = dead] /\ unloaded.stack = g.stack
      /\ Rest(g, unloaded) /\ unloaded.clobbered = g.clobbered
  <2> HIDE DEF left, s, dropped, dead, l
  <2>1. unloaded.lib = [dropped.lib EXCEPT ![s] = dead]
    BY <1>6 DEF Unregister, HasFields, StateFields
  <2>2. unloaded.lib = [g.lib EXCEPT ![s] = dead]
    BY <1>1, <1>6, <2>1 DEF LibInv, Formed
  <2>3. HasFields(unloaded, StateFields) /\ unloaded.stack = g.stack /\ Rest(g, unloaded) /\ unloaded.clobbered = g.clobbered
    BY <1>6 DEF Unregister, HasFields, StateFields, Rest
  <2> QED  BY <2>2, <2>3
<1> HIDE DEF left, gone, dropped, dead, unloaded
<1>8. "reclaim" \in Phases
  BY DEF Phases
<1>9. CASE h = SetPhase(dropped, c, "reclaim")
  <2>1. Writes(g, s, left, dropped) /\ dropped.heap = g.heap
    BY <1>1, <1>4, <1>6 DEF Writes, Rest, LibInv, Typed
  <2>2. /\ InUse(left) => InUse(l) /\ SameImage(l, left)
        /\ HasClose(left) => HasClose(l) /\ left.close = l.close
        /\ Running(left) => Running(l) /\ SameImage(l, left) /\ left.id = l.id
    BY <1>4 DEF Alike, InUse, HasClose, Running, SameImage
  <2>3. Room(dropped) /\ Fresh(dropped)
    BY <2>1, <2>2, WrittenKept DEF LibInv
  <2>4. /\ Ending(dropped, c) /\ dropped.lib[s] = left /\ Last(dropped.stack[c]).slot = s
        /\ \A t \in Slots : t # s => dropped.lib[t] = g.lib[t]
    <3>1. dropped.clobbered = g.clobbered /\ left.saved = g.lib[s].saved /\ s = Last(g.stack[c]).slot
      BY <1>4, <1>6
    <3>2. Room(dropped) /\ Fresh(dropped)
      BY <2>3
    <3> HIDE DEF s
    <3> QED  BY ONLY LibInv(g), c \in Contexts, Contexts = {c}, g.stack[c] # <<>>, <2>1, <3>1, <3>2, OwnLibrary
  <2>5. \A t \in Slots : ~dropped.lib[t].reclaim
    BY <1>1, <1>3, <1>4, <2>4 DEF Quiet, Alike
  <2>6. PhaseFits("reclaim", dropped.lib[s].state)
    BY <1>1, <1>4, <2>4 DEF PhaseFits, Alike
  <2> HIDE DEF s
  <2> QED  BY <1>8, <1>9, <2>4, <2>5, <2>6, PhaseKeeps
<1>10. CASE h = SetPhase(unloaded, c, "reclaim")
  <2>1. Writes(g, s, dead, unloaded) /\ unloaded.heap = g.heap
    BY <1>1, <1>5, <1>7 DEF Writes, Rest, LibInv, Typed
  <2>2. InUse(l) /\ HasClose(l) /\ ~Running(dead)
    BY <1>1, <1>5 DEF InUse, HasClose, Running
  <2>3. Room(unloaded) /\ Fresh(unloaded)
    BY <1>5, <2>1, <2>2, WrittenKept DEF LibInv
  <2>4. /\ Ending(unloaded, c) /\ unloaded.lib[s] = dead /\ Last(unloaded.stack[c]).slot = s
        /\ \A t \in Slots : t # s => unloaded.lib[t] = g.lib[t]
    <3>1. unloaded.clobbered = g.clobbered /\ dead.saved = g.lib[s].saved /\ s = Last(g.stack[c]).slot
      BY <1>5, <1>7
    <3>2. Room(unloaded) /\ Fresh(unloaded)
      BY <2>3
    <3> HIDE DEF s
    <3> QED  BY ONLY LibInv(g), c \in Contexts, Contexts = {c}, g.stack[c] # <<>>, <2>1, <3>1, <3>2, OwnLibrary
  <2>5. \A t \in Slots : unloaded.lib[t].reclaim => t = s
    BY <1>1, <2>4 DEF Quiet
  <2>6. PhaseFits("reclaim", unloaded.lib[s].state) /\ unloaded.lib[s].state = "UNLOADED"
    BY <1>5, <2>4 DEF PhaseFits
  <2> HIDE DEF s
  <2> QED  BY <1>8, <1>10, <2>4, <2>5, <2>6, PhaseKeeps
<1> QED  BY <1>2, <1>9, <1>10

\* emu68k_guestlib_reclaim: the image and the close trampoline are given up
\* together, and their cells when they are the topmost.
LEMMA BothFreed ==
  ASSUME NEW g, NEW h, Typed(g), Typed(h), Room(g), NEW u \in Claims(g), NEW w \in Claims(g), u # w,
         Claims(h) \subseteq (Claims(g) \ {w}) \ {u}, \A c \in Contexts : h.cache[c] = {},
         h.heap = g.heap \/ (u.hi = w.lo /\ w.hi = g.heap /\ h.heap = u.lo)
  PROVE  Room(h) /\ Fresh(h)
<1>1. g.heap \in Nat /\ h.heap \in Nat /\ Disjoint(Claims(g)) /\ Below(Claims(g), g.heap)
  BY DEF Typed, Room
<1>2. ASSUME h.heap = g.heap PROVE Room(h)
  <2>1. Claims(h) \subseteq Claims(g)
    OBVIOUS
  <2> QED  BY <1>1, <1>2, <2>1, ClaimLess DEF Room
<1>3. ASSUME u.hi = w.lo, w.hi = g.heap, h.heap = u.lo PROVE Room(h)
  <2> DEFINE C == Claims(g) \ {w}
  <2>1. Disjoint(C) /\ Below(C, w.lo) /\ w.lo \in Nat
    BY <1>1, <1>3, ClaimTop
  <2>2. u \in C /\ Claims(h) \subseteq C \ {u}
    OBVIOUS
  <2> HIDE DEF C
  <2>3. Disjoint(C \ {u}) /\ Below(C \ {u}, u.lo) /\ u.lo \in Nat
    BY <1>3, <2>1, <2>2, ClaimTop
  <2>4. Disjoint(Claims(h)) /\ Below(Claims(h), u.lo)
    BY <2>2, <2>3, ClaimLess
  <2> QED  BY <1>3, <2>4 DEF Room
<1> QED  BY <1>2, <1>3 DEF Fresh

LEMMA ReclaimKeeps ==
  ASSUME NEW g, LibInv(g), NEW c \in Contexts, Contexts = {c}, g.stack[c] # <<>>, Last(g.stack[c]).phase = "reclaim",
         NEW h \in Reclaim(g, c)
  PROVE  LibInv(h)
<1> DEFINE s == Last(g.stack[c]).slot
           l == g.lib[s]
           m == [l EXCEPT !.reclaim = FALSE]
           onTop == l.close = l.hi /\ l.close + 1 = g.heap
           top == IF onTop THEN l.lo ELSE g.heap
           none == [g.cache EXCEPT ![c] = {}]
           freed == [g EXCEPT !.cache[c] = {}, !.lib[s].reclaim = FALSE, !.heap = IF onTop THEN l.lo ELSE @]
<1>1. s \in Slots /\ s = g.stack[c][Len(g.stack[c])].slot /\ Ending(g, c)
  BY TopIs, EndingIf
<1>2. \A t \in Slots : g.lib[t].reclaim => t = s /\ g.lib[t].state = "UNLOADED"
  BY <1>1 DEF LibInv, ReclaimPending
<1>3. CASE ~l.reclaim
  <2>1. \A t \in Slots : ~g.lib[t].reclaim
    BY <1>2, <1>3
  <2>2. h = Pop(g, c)
    BY <1>3 DEF Reclaim
  <2> QED  BY <1>1, <2>1, <2>2, PopKeeps
<1>4. CASE l.reclaim
  <2>1. h = Pop(freed, c)
    BY <1>4 DEF Reclaim
  <2>2. HasFields(l, LibFields) /\ TypedLib(l) /\ l.state = "UNLOADED" /\ InUse(l) /\ HasClose(l)
    BY <1>1, <1>2, <1>4 DEF LibInv, Formed, Typed, InUse, HasClose
  <2>3. /\ HasFields(m, LibFields) /\ TypedLib(m) /\ m.saved = l.saved /\ m.state = "UNLOADED" /\ m.reclaim = FALSE
    <3> HIDE DEF l
    <3> QED  BY <2>2 DEF HasFields, LibFields, TypedLib
  <2>4. /\ HasFields(freed, StateFields) /\ freed.lib = [g.lib EXCEPT ![s] = m] /\ freed.stack = g.stack
        /\ freed.cache = none /\ freed.heap = top /\ freed.seg = g.seg /\ freed.given = g.given
        /\ freed.loads = g.loads /\ freed.clobbered = g.clobbered
    <3>1. freed = [g EXCEPT !.cache = none, !.lib = [g.lib EXCEPT ![s] = m], !.heap = top]
      <4> HIDE DEF s, onTop
      <4> QED  BY DEF LibInv, Formed, HasFields, StateFields
    <3> HIDE DEF m, top, none, freed, s
    <3> QED  BY <3>1 DEF LibInv, Formed, HasFields, StateFields
  <2>5. g.heap \in Nat /\ l.lo \in Nat /\ l.close \in Nat /\ l.hi \in Nat /\ top \in Nat
    BY <2>2 DEF LibInv, Typed, TypedLib
  <2> DEFINE u == Claim("image", s, l.lo, l.hi)
             w == Claim("close", s, l.close, l.close + 1)
  <2>6. top = g.heap \/ (u.hi = w.lo /\ w.hi = g.heap /\ top = u.lo)
    BY DEF Claim
  <2>7. u \in Claims(g) /\ w \in Claims(g) /\ u # w
    <3>1. u.kind # w.kind
      BY DEF Claim
    <3>2. u \in Claims(g) /\ w \in Claims(g)
      BY <1>1, <2>2, ClaimIs
    <3> QED  BY <3>1, <3>2
  <2> HIDE DEF m, top, none, freed
  <2>8. freed.cache[c] = {} /\ freed.cache = [d \in Contexts |-> freed.cache[d]]
    BY <2>4 DEF none, LibInv, Formed
  <2>9. /\ freed.lib = [t \in Slots |-> freed.lib[t]] /\ freed.lib[s] = m
        /\ \A t \in Slots : t # s => freed.lib[t] = g.lib[t]
    <3> HIDE DEF s
    <3> QED  BY <1>1, <2>4 DEF LibInv, Formed
  <2>10. Formed(freed)
    <3>1. \A t \in Slots : HasFields(freed.lib[t], LibFields)
      BY <2>3, <2>9 DEF LibInv, Formed
    <3>2. freed.stack = [d \in Contexts |-> freed.stack[d]]
      BY <2>4 DEF LibInv, Formed
    <3> QED  BY <2>4, <2>8, <2>9, <3>1, <3>2 DEF Formed
  <2>11. Typed(freed)
    <3>1. \A t \in Slots : TypedLib(freed.lib[t])
      BY <2>3, <2>9 DEF LibInv, Typed
    <3>2. \A d \in Contexts : freed.stack[d] \in Seq(VectorFrame) /\ freed.cache[d] \subseteq Image
      BY <2>4, <2>8 DEF LibInv, Typed
    <3> QED  BY <2>4, <2>5, <3>1, <3>2 DEF LibInv, Typed
  <2>12. ASSUME NEW x \in Claims(freed) PROVE x \in Claims(g) /\ x # u /\ x # w
    <3>1. ~InUse(m) /\ ~HasClose(m)
      BY <2>3 DEF InUse, HasClose
    <3>2. CASE \E t \in Slots : InUse(freed.lib[t]) /\ x = Claim("image", t, freed.lib[t].lo, freed.lib[t].hi)
      <4>1. PICK t \in Slots : InUse(freed.lib[t]) /\ x = Claim("image", t, freed.lib[t].lo, freed.lib[t].hi)
        BY <3>2
      <4>2. t # s /\ freed.lib[t] = g.lib[t]
        BY <2>9, <3>1, <4>1
      <4>3. x \in Claims(g) /\ x.no = t /\ x.kind = "image"
        BY <4>1, <4>2, ClaimIs DEF Claim
      <4> QED  BY <4>2, <4>3 DEF Claim
    <3>3. CASE \E t \in Slots : HasClose(freed.lib[t]) /\ x = Claim("close", t, freed.lib[t].close, freed.lib[t].close + 1)
      <4>1. PICK t \in Slots : HasClose(freed.lib[t]) /\ x = Claim("close", t, freed.lib[t].close, freed.lib[t].close + 1)
        BY <3>3
      <4>2. t # s /\ freed.lib[t] = g.lib[t]
        BY <2>9, <3>1, <4>1
      <4>3. x \in Claims(g) /\ x.no = t /\ x.kind = "close"
        BY <4>1, <4>2, ClaimIs DEF Claim
      <4> QED  BY <4>2, <4>3 DEF Claim
    <3>4. CASE \E a \in freed.given : x = Claim("block", a, a, a + 1)
      <4>1. x \in Claims(g) /\ x.kind = "block"
        BY <2>4, <3>4, ClaimIs DEF Claim
      <4> QED  BY <4>1 DEF Claim
    <3>5. CASE freed.seg.live /\ x = Claim("seg", 0, freed.seg.lo, freed.seg.hi)
      <4>1. x \in Claims(g) /\ x.kind = "seg"
        BY <2>4, <3>5, ClaimIs DEF Claim
      <4> QED  BY <4>1 DEF Claim
    <3> QED  BY <3>2, <3>3, <3>4, <3>5, ClaimIs
  <2>13. Claims(freed) \subseteq (Claims(g) \ {w}) \ {u} /\ \A d \in Contexts : freed.cache[d] = {}
    BY <2>8, <2>12
  <2>14. Room(freed) /\ Fresh(freed)
    <3>1. freed.heap = g.heap \/ (u.hi = w.lo /\ w.hi = g.heap /\ freed.heap = u.lo)
      BY <2>4, <2>6
    <3> HIDE DEF u, w
    <3> QED  BY <2>7, <2>11, <2>13, <3>1, BothFreed DEF LibInv
  <2>15. \A t \in Slots : /\ freed.lib[t].saved = g.lib[t].saved
                          /\ t # s => freed.lib[t].state = g.lib[t].state
    BY <2>3, <2>9
  <2>16. Ending(freed, c)
    <3>1. freed.stack = g.stack /\ freed.clobbered = g.clobbered /\ s = g.stack[c][Len(g.stack[c])].slot
      BY <1>1, <2>4
    <3> HIDE DEF s
    <3> QED  BY ONLY c \in Contexts, <1>1, <2>10, <2>11, <2>14, <2>15, <3>1, EndingKept
  <2>17. \A t \in Slots : ~freed.lib[t].reclaim
    BY <1>2, <2>3, <2>9
  <2> QED  BY <2>1, <2>16, <2>17, PopKeeps
<1> QED  BY <1>3, <1>4

-----------------------------------------------------------------------------
(* The specification *)

Inv(g) == LibInv(g) \/ Halted(g)

LEMMA Initially ==
  ASSUME LibsInit
  PROVE  LibInv(gl)
<1>1. /\ gl.heap = 1 /\ gl.given = {} /\ gl.seg = NoSeg /\ gl.loads = 0 /\ gl.clobbered = FALSE
      /\ gl.lib = [s \in Slots |-> EmptyLib] /\ gl.stack = [c \in Contexts |-> <<>>]
      /\ gl.cache = [c \in Contexts |-> {}] /\ HasFields(gl, StateFields)
  BY DEF LibsInit, HasFields, StateFields
<1>2. /\ HasFields(EmptyLib, LibFields) /\ TypedLib(EmptyLib) /\ ~InUse(EmptyLib) /\ ~HasClose(EmptyLib)
      /\ ~Running(EmptyLib) /\ EmptyLib.reclaim = FALSE
  BY DEF HasFields, LibFields, TypedLib, EmptyLib, InUse, HasClose, Running
<1>3. /\ \A s \in Slots : gl.lib[s] = EmptyLib
      /\ \A c \in Contexts : gl.stack[c] = <<>> /\ Len(gl.stack[c]) = 0 /\ gl.cache[c] = {}
  BY <1>1
<1>4. Formed(gl)
  BY <1>1, <1>2, <1>3 DEF Formed
<1>5. NoSeg \in [live : BOOLEAN, lo : Nat, hi : Nat, id : Nat] /\ NoSeg.live = FALSE
  BY DEF NoSeg
<1>6. Typed(gl)
  BY <1>1, <1>2, <1>3, <1>5 DEF Typed
<1>7. \A u : u \notin Claims(gl)
  BY <1>1, <1>2, <1>3, <1>5, ClaimIs
<1>8. \A i : i \notin Images(gl)
  BY <1>1, <1>2, <1>3, <1>5, ImageIs
<1>9. Room(gl) /\ Fresh(gl)
  BY <1>3, <1>7 DEF Room, Disjoint, Below, Fresh
<1>10. Nested(gl) /\ ReclaimPending(gl)
  BY <1>1, <1>2, <1>3 DEF Nested, ReclaimPending
<1> QED  BY <1>4, <1>6, <1>9, <1>10 DEF LibInv

LEMMA ElsewhereIs ==
  ASSUME LibInv(gl), NEW c \in Contexts, NEW slots, Elsewhere(c, slots)
  PROVE  \A s \in slots : ~OnStack(gl, c, s)
<1>1. DOMAIN gl.stack[c] = 1 .. Len(gl.stack[c])
  BY StackIs DEF LibInv
<1> QED  BY <1>1 DEF Elsewhere, OnStack

LEMMA StepKeeps ==
  ASSUME LibContexts = 1, LibInv(gl), LibsNext
  PROVE  Inv(gl')
<1>1. PICK c \in Contexts : LibStep(c)
  BY DEF LibsNext
<1>2. Contexts = {c}
  BY DEF Contexts
<1>3. Calling(c) => Quiet(gl, c)
  BY <1>2, CallingIsQuiet DEF Calling, Last
<1> DEFINE h == gl'
<1>4. CASE Calling(c) /\ \E n \in LibNames : Elsewhere(c, FindName(gl, n)) /\ LibGo(OpenLibrary(gl, c, n))
  <2>1. PICK n \in LibNames : Elsewhere(c, FindName(gl, n)) /\ h \in OpenLibrary(gl, c, n)
    BY <1>4 DEF LibGo
  <2>2. \A s \in FindName(gl, n) : ~OnStack(gl, c, s)
    BY <2>1, ElsewhereIs
  <2> QED  BY <1>2, <1>3, <1>4, <2>1, <2>2, OpenKeeps DEF Inv
<1>5. CASE Calling(c) /\ \E b \in Held : Elsewhere(c, FindBase(gl, b)) /\ LibGo(CloseLibrary(gl, c, b))
  <2>1. PICK b \in Held : Elsewhere(c, FindBase(gl, b)) /\ h \in CloseLibrary(gl, c, b)
    BY <1>5 DEF LibGo
  <2>2. \A s \in FindBase(gl, b) : ~OnStack(gl, c, s)
    BY <2>1, ElsewhereIs
  <2> QED  BY <1>2, <1>3, <1>5, <2>1, <2>2, CloseKeeps DEF Inv
<1>6. CASE LibGo(OpenNative(gl, c))
  BY <1>2, <1>6, NativeKeeps DEF LibGo, Inv
<1>7. CASE LibGo(AllocMem(gl))
  BY <1>2, <1>7, AllocKeeps DEF LibGo, Inv
<1>8. CASE LibGo(LoadSeg(gl))
  BY <1>2, <1>8, LoadSegKeeps DEF LibGo, Inv
<1>9. CASE LibGo(UnLoadSeg(gl, c))
  BY <1>2, <1>9, UnLoadSegKeeps DEF LibGo, Inv
<1>10. CASE LibGo(Execute(gl, c))
  BY <1>2, <1>10, ExecuteKeeps DEF LibGo, Inv
<1>11. CASE Phase(c, "init") /\ \E ok \in BOOLEAN : LibGo(InitDone(gl, c, ok))
  BY <1>2, <1>11, InitDoneKeeps DEF LibGo, Phase, Inv
<1>12. CASE Phase(c, "open") /\ \E b : LibGo(OpenDone(gl, c, b))
  BY <1>2, <1>12, OpenDoneKeeps DEF LibGo, Phase, Inv
<1>13. CASE Phase(c, "close") /\ \E x \in BOOLEAN : LibGo(CloseDone(gl, c, x))
  BY <1>2, <1>13, CloseDoneKeeps DEF LibGo, Phase, Inv
<1>14. CASE Phase(c, "reclaim") /\ LibGo(Reclaim(gl, c))
  BY <1>2, <1>14, ReclaimKeeps DEF LibGo, Phase, Inv
<1> HIDE DEF h
<1> QED  BY <1>1, <1>4, <1>5, <1>6, <1>7, <1>8, <1>9, <1>10, <1>11, <1>12, <1>13, <1>14 DEF LibStep

\* With one context the invariant holds until a table or the heap is full.
LEMMA LibsInvariant ==
  ASSUME LibContexts = 1
  PROVE  LibsSpec => []Inv(gl)
<1>1. LibsInit => Inv(gl)
  BY Initially DEF Inv
<1>2. Inv(gl) /\ [LibsNext]_gl => Inv(gl)'
  <2> SUFFICES ASSUME Inv(gl), [LibsNext]_gl PROVE Inv(gl')
    OBVIOUS
  <2>1. CASE gl' = gl
    BY <2>1
  <2>2. CASE LibsNext
    <3>1. LibInv(gl)
      BY <2>2 DEF Inv, Halted, LibsNext
    <3> QED  BY <2>2, <3>1, StepKeeps
  <2> QED  BY <2>1, <2>2
<1> QED  BY <1>1, <1>2, PTL DEF LibsSpec

\* What is in use has a claim of its own.
UsedFor(u, v) ==
  /\ v \in Claims(gl) /\ v.lo = u.lo /\ v.hi = u.hi
  /\ \/ v.kind = "image" /\ u = [kind |-> "image", no |-> gl.lib[v.no].id, lo |-> v.lo, hi |-> v.hi]
     \/ v.kind = "seg" /\ u = [kind |-> "image", no |-> gl.seg.id, lo |-> v.lo, hi |-> v.hi]
     \/ v.kind \in {"block", "close"} /\ u = v
LEMMA UsedClaimed ==
  ASSUME NEW u \in Used
  PROVE  \E v : UsedFor(u, v)
<1>1. CASE \E i \in Images(gl) : u = [kind |-> "image", no |-> i.id, lo |-> i.lo, hi |-> i.hi]
  <2>1. PICK i \in Images(gl) : u = [kind |-> "image", no |-> i.id, lo |-> i.lo, hi |-> i.hi]
    BY <1>1
  <2>2. CASE \E s \in Slots : Running(gl.lib[s]) /\ i = [lo |-> gl.lib[s].lo, hi |-> gl.lib[s].hi, id |-> gl.lib[s].id]
    <3>1. PICK s \in Slots : Running(gl.lib[s]) /\ i = [lo |-> gl.lib[s].lo, hi |-> gl.lib[s].hi, id |-> gl.lib[s].id]
      BY <2>2
    <3>2. UsedFor(u, Claim("image", s, gl.lib[s].lo, gl.lib[s].hi))
      BY <2>1, <3>1, ClaimIs DEF Claim, InUse, Running, UsedFor
    <3> QED  BY <3>2
  <2>3. CASE gl.seg.live /\ i = [lo |-> gl.seg.lo, hi |-> gl.seg.hi, id |-> gl.seg.id]
    <3>1. UsedFor(u, Claim("seg", 0, gl.seg.lo, gl.seg.hi))
      BY <2>1, <2>3, ClaimIs DEF Claim, UsedFor
    <3> QED  BY <3>1
  <2> QED  BY <2>2, <2>3, ImageIs
<1>2. CASE \E a \in gl.given : u = OneCell("block", a, a)
  <2>1. PICK a \in gl.given : u = OneCell("block", a, a)
    BY <1>2
  <2>2. UsedFor(u, Claim("block", a, a, a + 1))
    BY <2>1, ClaimIs DEF Claim, OneCell, UsedFor
  <2> QED  BY <2>2
<1>3. CASE \E s \in Slots : gl.lib[s].state = "READY" /\ u = OneCell("close", s, gl.lib[s].close)
  <2>1. PICK s \in Slots : gl.lib[s].state = "READY" /\ u = OneCell("close", s, gl.lib[s].close)
    BY <1>3
  <2>2. UsedFor(u, Claim("close", s, gl.lib[s].close, gl.lib[s].close + 1))
    BY <2>1, ClaimIs DEF Claim, OneCell, HasClose, UsedFor
  <2> QED  BY <2>2
<1> QED  BY <1>1, <1>2, <1>3 DEF Used

LEMMA RoomIsDisjoint ==
  ASSUME Room(gl)
  PROVE  HeapDisjoint
<1>1. ASSUME NEW u \in Used, NEW w \in Used, u # w PROVE Cells(u) \cap Cells(w) = {}
  <2>1. PICK v : UsedFor(u, v)
    BY UsedClaimed
  <2>2. PICK x : UsedFor(w, x)
    BY UsedClaimed
  <2>3. v # x
    BY <1>1, <2>1, <2>2 DEF UsedFor
  <2>4. Cells(v) \cap Cells(x) = {}
    BY <2>1, <2>2, <2>3 DEF UsedFor, Room, Disjoint
  <2> QED  BY <2>1, <2>2, <2>4 DEF UsedFor, Cells
<1>2. \A u \in Used : u.hi <= gl.heap
  BY UsedClaimed DEF UsedFor, Room, Below
<1> QED  BY <1>1, <1>2 DEF HeapDisjoint

\* Whoever opens or closes a library gets its registers back, however deep the
\* opens nest: the save areas of the libraries whose vectors are in progress
\* are different ones (guestlib_save_preserved, guestlib_restore_preserved).
THEOREM RegistersAlwaysRestored ==
  ASSUME LibContexts = 1
  PROVE  LibsSpec => []RegistersRestored
<1>1. Inv(gl) => RegistersRestored
  BY DEF Inv, Halted, LibInv, Nested, RegistersRestored
<1> QED  BY <1>1, LibsInvariant, PTL

\* Images, segments, close trampolines and what AllocMem gave away never
\* overlap, and all lie below the heap's top, whatever emu68k_guestlib_reclaim
\* and emu68k_dos_unloadseg take back.
THEOREM HeapAlwaysDisjoint ==
  ASSUME LibContexts = 1
  PROVE  LibsSpec => []HeapDisjoint
<1>1. Inv(gl) => HeapDisjoint
  BY RoomIsDisjoint DEF Inv, Halted, LibInv
<1> QED  BY <1>1, LibsInvariant, PTL

\* No translation survives of an image whose cells another image took over: the
\* engine drops its blocks whenever cells go back to the heap.
THEOREM CodeNeverStale ==
  ASSUME LibContexts = 1
  PROVE  LibsSpec => []NoStaleCode
<1>1. Inv(gl) => NoStaleCode
  BY DEF Inv, Halted, LibInv, Fresh, NoStaleCode
<1> QED  BY <1>1, LibsInvariant, PTL

-----------------------------------------------------------------------------
(* The tasks: the invariant *)

VmFields  == {"ctx", "sig", "mq", "frames", "nctx", "cur", "thisTask", "eng", "poll", "dom", "depth",
              "cmdUnwind", "status", "rootFinished", "err", "kill", "bound", "ops"}
CtxFields == {"live", "blocked", "finished", "onStack", "canUnwind", "forbid"}

Kinds == {"root", "after", "child", "call", "cmd"}
Acts  == {"run", "wait", "sweep", "hook", "create"}
TaskFrame == [c : Ctx, kind : Kinds, act : Acts, mask : SUBSET Bits, next : Nat, progress : BOOLEAN, saved : Nat]
TypedCtx(x) == HasFields(x, CtxFields) /\ x.live \in BOOLEAN /\ x.finished \in BOOLEAN
               /\ x.onStack \in BOOLEAN /\ x.canUnwind \in BOOLEAN
WellTyped(v) ==
  /\ HasFields(v, VmFields) /\ v.frames \in Seq(TaskFrame) /\ v.nctx \in 0 .. NCtx /\ v.dom \in Nat
  /\ v.err \in BOOLEAN /\ v.cmdUnwind \in BOOLEAN /\ v.rootFinished \in BOOLEAN
  /\ v.ctx = [c \in Ctx |-> v.ctx[c]] /\ \A c \in Ctx : TypedCtx(v.ctx[c])

\* The frames q when n contexts are registered; marked tells whether the root
\* was entered after it had been.
Bottom(q) ==
  q # <<>> => /\ q[1].c = Root /\ q[1].kind \in {"root", "after"}
              /\ q[1].kind = "after" => q[1].act = "sweep"
\* A frame and the one it interrupted.
Joint(f, g) ==
  \/ /\ g.kind = "child" /\ g.c # Root /\ f.act \in {"wait", "sweep", "create"}
     /\ f.kind # "after" => g.saved = 1
  \/ /\ g.kind \in {"call", "cmd"} /\ g.c = f.c /\ g.saved = 1 /\ f.kind # "after"
     /\ f.act = "run" \/ (f.act = "hook" /\ g.kind = "call")
     /\ g.kind = "cmd" => g.c = Root
Joints(q) == \A k \in 2 .. Len(q) : Joint(q[k - 1], q[k])
\* What a frame is doing, and for whom.
Doing(q, k, n, marked) ==
  /\ q[k].c = Root \/ q[k].c < n
  /\ q[k].act = "wait" => q[k].c = Root
  /\ q[k].act = "sweep" /\ q[k].c # Root => q[1].kind = "after" \/ marked
  /\ q[k].act = "hook" => /\ q[k].next \in 1 .. n - 1
                          /\ \A j \in 1 .. k : q[j].c # q[k].next
Work(q, n, marked) == \A k \in 1 .. Len(q) : Doing(q, k, n, marked)
\* Each context other than the root has one child frame, and its calls on that.
Within(q, j, k) == /\ q[j].kind = "child" /\ \A m \in j .. k : q[m].c = q[k].c
                   /\ \A m \in j + 1 .. k : q[m].kind # "child"
Layered(q) ==
  \A k \in 1 .. Len(q) :
    /\ \A j \in 1 .. k : q[j].c # Root => q[k].c # Root
    /\ q[k].c # Root => \E j \in 1 .. k : Within(q, j, k)
Distinct(q) ==
  \A j, k \in 1 .. Len(q) : j # k /\ q[j].kind = "child" /\ q[k].kind = "child" => q[j].c # q[k].c
FramesOK(q, n, marked) == Bottom(q) /\ Joints(q) /\ Work(q, n, marked) /\ Layered(q) /\ Distinct(q)

HasChild(q, c) == \E k \in 1 .. Len(q) : q[k].kind = "child" /\ q[k].c = c
HasCmd(q)      == \E k \in 1 .. Len(q) : q[k].kind = "cmd"
Contexts68(v) ==
  /\ \A c \in Ctx : /\ v.ctx[c].canUnwind = HasChild(v.frames, c)
                    /\ v.ctx[c].canUnwind => v.ctx[c].onStack
  /\ v.nctx > 0 => v.ctx[Root].live
  /\ \A c \in Ctx : v.ctx[c].live => c < v.nctx
  /\ v.rootFinished => v.ctx[Root].finished
  /\ v.frames # <<>> /\ v.frames[1].kind = "after" => v.rootFinished
Turn(v) ==
  /\ v.thisTask = v.cur
  /\ v.cur = IF v.frames = <<>> THEN Root ELSE v.frames[Len(v.frames)].c
Command(v) ==
  v.cmdUnwind /\ v.frames # <<>> /\ v.frames[1].kind = "root" => HasCmd(v.frames)
Resting(v) ==
  v.status = "ready" => /\ v.frames = <<>> /\ ~v.err
                        /\ ~v.rootFinished => v.dom = 0 /\ ~v.cmdUnwind
Core(v) ==
  /\ WellTyped(v) /\ FramesOK(v.frames, v.nctx, v.ctx[Root].onStack) /\ Contexts68(v) /\ Turn(v)
  /\ Command(v) /\ Resting(v)
\* The guest domain is entered and left in pairs.
Domain(v) ==
  v.frames # <<>> =>
    LET f == v.frames[Len(v.frames)]
    IN  /\ f.act = "run" /\ ~v.err => v.dom = 0
        /\ f.act # "run" /\ f.kind # "after" => v.dom = 1
TaskInv(v) == Core(v) /\ Domain(v)

-----------------------------------------------------------------------------
(* The host stack *)

LEMMA SizesAre ==
  NCtx \in Nat /\ NCtx > 1 /\ Root \in Ctx /\ Ctx \subseteq Nat
BY GuestTasksAssumption DEF Ctx, Root

LEMMA FramesTyped ==
  ASSUME NEW q \in Seq(TaskFrame)
  PROVE  /\ Len(q) \in Nat /\ q # <<>> => Len(q) \in 1 .. Len(q) /\ 1 \in 1 .. Len(q)
         /\ q = <<>> => Len(q) = 0
         /\ \A k \in 1 .. Len(q) : q[k] \in TaskFrame /\ k \in Nat
<1>1. Len(q) \in Nat /\ \A k \in 1 .. Len(q) : q[k] \in TaskFrame /\ k \in Nat
  OBVIOUS
<1>2. q # <<>> => Len(q) # 0
  OBVIOUS
<1> QED  BY <1>1, <1>2

LEMMA FrameTyped ==
  ASSUME NEW f \in TaskFrame
  PROVE  f.c \in Ctx /\ f.kind \in Kinds /\ f.act \in Acts /\ f.next \in Nat /\ f.saved \in Nat
BY DEF TaskFrame

\* The lower part of a stack.
Cut(q, r, p) == p \in 0 .. Len(q) /\ Len(r) = p /\ \A k \in 1 .. p : r[k] = q[k]
LEMMA CutOK ==
  ASSUME NEW q \in Seq(TaskFrame), NEW r \in Seq(TaskFrame), NEW p, Cut(q, r, p), NEW n, NEW marked,
         FramesOK(q, n, marked)
  PROVE  FramesOK(r, n, marked)
<1>1. Len(q) \in Nat /\ p \in Nat /\ p <= Len(q) /\ Len(r) = p
  BY FramesTyped DEF Cut
<1>2. \A k \in 1 .. p : r[k] = q[k] /\ k \in 1 .. Len(q)
  BY <1>1 DEF Cut
<1>3. Bottom(r)
  BY <1>1, <1>2, FramesTyped DEF FramesOK, Bottom
<1>4. Joints(r)
  <2>1. \A k \in 2 .. p : k - 1 \in 1 .. p /\ k \in 1 .. p /\ k \in 2 .. Len(q)
    BY <1>1
  <2> QED  BY <1>1, <1>2, <2>1 DEF FramesOK, Joints
<1>5. Work(r, n, marked)
  <2>1. ASSUME NEW k \in 1 .. p PROVE Doing(r, k, n, marked)
    <3>1. r[k] = q[k] /\ r[1] = q[1] /\ \A j \in 1 .. k : r[j] = q[j]
      BY <1>1, <1>2
    <3>2. Doing(q, k, n, marked)
      BY <1>2 DEF FramesOK, Work
    <3> QED  BY <3>1, <3>2 DEF Doing
  <2> QED  BY <1>1, <2>1 DEF Work
<1>6. Layered(r)
  <2>1. ASSUME NEW k \in 1 .. p
        PROVE  /\ \A j \in 1 .. k : r[j].c # Root => r[k].c # Root
               /\ r[k].c # Root => \E j \in 1 .. k : Within(r, j, k)
    <3>1. r[k] = q[k] /\ k \in 1 .. Len(q) /\ \A j \in 1 .. k : r[j] = q[j]
      BY <1>1, <1>2
    <3>2. \A j \in 1 .. k : r[j].c # Root => r[k].c # Root
      BY <3>1 DEF FramesOK, Layered
    <3>3. ASSUME NEW j \in 1 .. k, Within(q, j, k) PROVE Within(r, j, k)
      <4>1. \A m \in j .. k : m \in 1 .. k
        OBVIOUS
      <4>2. \A m \in j + 1 .. k : m \in 1 .. k
        OBVIOUS
      <4> QED  BY <3>1, <3>3, <4>1, <4>2 DEF Within
    <3> QED  BY <3>1, <3>2, <3>3 DEF FramesOK, Layered
  <2> QED  BY <1>1, <2>1 DEF Layered
<1>7. Distinct(r)
  BY <1>1, <1>2 DEF FramesOK, Distinct
<1> QED  BY <1>3, <1>4, <1>5, <1>6, <1>7 DEF FramesOK

\* The top frame does something else.
Retop(q, r, f) ==
  q # <<>> /\ Len(r) = Len(q) /\ r[Len(q)] = f /\ \A k \in 1 .. Len(q) : k # Len(q) => r[k] = q[k]
LEMMA RetopOK ==
  ASSUME NEW q \in Seq(TaskFrame), NEW r \in Seq(TaskFrame), NEW f, Retop(q, r, f), NEW n, NEW marked,
         FramesOK(q, n, marked), NEW t, t = q[Len(q)],
         f.c = t.c, f.kind = t.kind, f.saved = t.saved, t.kind = "after" => f.act = "sweep",
         f.act = "wait" => f.c = Root,
         f.act = "sweep" /\ f.c # Root => q[1].kind = "after" \/ marked,
         f.act = "hook" => f.next \in 1 .. n - 1 /\ \A j \in 1 .. Len(q) : q[j].c # f.next
  PROVE  FramesOK(r, n, marked)
<1>1. Len(q) \in Nat /\ Len(q) \in 1 .. Len(q) /\ 1 \in 1 .. Len(q) /\ Len(r) = Len(q) /\ r # <<>>
  BY FramesTyped DEF Retop
<1>2. \A k \in 1 .. Len(q) : /\ r[k].c = q[k].c /\ r[k].kind = q[k].kind /\ r[k].saved = q[k].saved
                             /\ k # Len(q) => r[k] = q[k]
  BY DEF Retop
<1>3. r[Len(q)] = f
  BY DEF Retop
<1>4. Bottom(r)
  BY <1>1, <1>2, <1>3 DEF FramesOK, Bottom
<1>5. Joints(r)
  <2>1. ASSUME NEW k \in 2 .. Len(q) PROVE Joint(r[k - 1], r[k])
    <3>1. k - 1 \in 1 .. Len(q) /\ k - 1 # Len(q) /\ k \in 1 .. Len(q)
      BY <1>1
    <3>2. Joint(q[k - 1], q[k])
      BY DEF FramesOK, Joints
    <3> QED  BY <1>2, <3>1, <3>2 DEF Joint
  <2> QED  BY <1>1, <2>1 DEF Joints
<1>6. Work(r, n, marked)
  <2>1. ASSUME NEW k \in 1 .. Len(q) PROVE Doing(r, k, n, marked)
    <3>1. Doing(q, k, n, marked)
      BY DEF FramesOK, Work
    <3>2. \A j \in 1 .. k : j \in 1 .. Len(q)
      BY <1>1
    <3>3. r[1].kind = q[1].kind
      BY <1>1, <1>2
    <3>4. CASE k = Len(q)
      <4>1. r[k] = f /\ (f.c = Root \/ f.c < n)
        BY <1>2, <1>3, <3>1, <3>4 DEF Doing
      <4> QED  BY <1>2, <3>2, <3>3, <3>4, <4>1 DEF Doing
    <3>5. CASE k # Len(q)
      BY <1>2, <3>1, <3>2, <3>3, <3>5 DEF Doing
    <3> QED  BY <3>4, <3>5
  <2> QED  BY <1>1, <2>1 DEF Work
<1>7. Layered(r)
  <2>1. ASSUME NEW k \in 1 .. Len(q)
        PROVE  /\ \A j \in 1 .. k : r[j].c # Root => r[k].c # Root
               /\ r[k].c # Root => \E j \in 1 .. k : Within(r, j, k)
    <3>1. \A j \in 1 .. k : j \in 1 .. Len(q)
      BY <1>1
    <3>2. \A j \in 1 .. k : r[j].c # Root => r[k].c # Root
      BY <1>2, <3>1 DEF FramesOK, Layered
    <3>3. ASSUME NEW j \in 1 .. k, Within(q, j, k) PROVE Within(r, j, k)
      <4>1. \A m \in j .. k : m \in 1 .. Len(q)
        BY <3>1
      <4>2. \A m \in j + 1 .. k : m \in 1 .. Len(q)
        BY <3>1
      <4> QED  BY <1>2, <3>1, <3>3, <4>1, <4>2 DEF Within
    <3> QED  BY <1>2, <3>2, <3>3 DEF FramesOK, Layered
  <2> QED  BY <1>1, <2>1 DEF Layered
<1>8. Distinct(r)
  BY <1>1, <1>2 DEF FramesOK, Distinct
<1> QED  BY <1>4, <1>5, <1>6, <1>7, <1>8 DEF FramesOK

\* A frame on top, of a context that is new to the stack or of the same one.
Grown(q, r, g) == Len(r) = Len(q) + 1 /\ r[Len(q) + 1] = g /\ \A k \in 1 .. Len(q) : r[k] = q[k]
LEMMA GrownOK ==
  ASSUME NEW q \in Seq(TaskFrame), NEW r \in Seq(TaskFrame), NEW g, Grown(q, r, g), NEW n, NEW marked,
         FramesOK(q, n, marked), q # <<>>, Joint(q[Len(q)], g), g.act = "run", g.c = Root \/ g.c < n,
         g.kind = "child" => \A k \in 1 .. Len(q) : q[k].c # g.c
  PROVE  FramesOK(r, n, marked)
<1>1. /\ Len(q) \in Nat /\ Len(q) \in 1 .. Len(q) /\ 1 \in 1 .. Len(q) /\ Len(r) = Len(q) + 1 /\ r # <<>>
      /\ r[Len(q) + 1] = g /\ \A k \in 1 .. Len(q) : r[k] = q[k]
  BY FramesTyped DEF Grown
<1>2. \A k \in 1 .. Len(r) : k # Len(q) + 1 => k \in 1 .. Len(q) /\ r[k] = q[k]
  BY <1>1
<1>3. Bottom(r)
  BY <1>1 DEF FramesOK, Bottom
<1>4. Joints(r)
  <2>1. ASSUME NEW k \in 2 .. Len(r) PROVE Joint(r[k - 1], r[k])
    <3>1. CASE k = Len(q) + 1
      <4>1. k - 1 = Len(q)
        BY <1>1, <3>1
      <4> QED  BY <1>1, <3>1, <4>1
    <3>2. CASE k # Len(q) + 1
      <4>1. k \in 2 .. Len(q) /\ k \in 1 .. Len(q) /\ k - 1 \in 1 .. Len(q)
        BY <1>1, <3>2
      <4> QED  BY <1>1, <4>1 DEF FramesOK, Joints
    <3> QED  BY <3>1, <3>2
  <2> QED  BY <2>1 DEF Joints
<1>5. Work(r, n, marked)
  <2>1. ASSUME NEW k \in 1 .. Len(r) PROVE Doing(r, k, n, marked)
    <3>1. CASE k = Len(q) + 1
      BY <1>1, <3>1 DEF Doing
    <3>2. CASE k # Len(q) + 1
      <4>1. k \in 1 .. Len(q) /\ \A j \in 1 .. k : j \in 1 .. Len(q)
        BY <1>1, <3>2
      <4>2. Doing(q, k, n, marked)
        BY <4>1 DEF FramesOK, Work
      <4> QED  BY <1>1, <4>1, <4>2 DEF Doing
    <3> QED  BY <3>1, <3>2
  <2> QED  BY <2>1 DEF Work
<1>6. Layered(r)
  <2>1. ASSUME NEW k \in 1 .. Len(q)
        PROVE  /\ \A j \in 1 .. k : r[j].c # Root => r[k].c # Root
               /\ r[k].c # Root => \E j \in 1 .. k : Within(r, j, k)
    <3>1. \A j \in 1 .. k : j \in 1 .. Len(q) /\ r[j] = q[j]
      BY <1>1
    <3>2. \A j \in 1 .. k : r[j].c # Root => r[k].c # Root
      BY <1>1, <3>1 DEF FramesOK, Layered
    <3>3. ASSUME NEW j \in 1 .. k, Within(q, j, k) PROVE Within(r, j, k)
      <4>1. \A m \in j .. k : m \in 1 .. k
        OBVIOUS
      <4>2. \A m \in j + 1 .. k : m \in 1 .. k
        OBVIOUS
      <4> QED  BY <1>1, <3>1, <3>3, <4>1, <4>2 DEF Within
    <3> QED  BY <1>1, <3>2, <3>3 DEF FramesOK, Layered
  <2> DEFINE t == Len(q) + 1
  <2>2. t \in 1 .. Len(r) /\ r[t] = g /\ t \in Nat
    BY <1>1
  <2>3. CASE g.kind = "child"
    <3>1. g.c # Root
      BY <2>3 DEF Joint
    <3>2. Within(r, t, t)
      BY <2>2, <2>3 DEF Within
    <3>3. ASSUME NEW k \in 1 .. Len(r)
          PROVE  /\ \A j \in 1 .. k : r[j].c # Root => r[k].c # Root
                 /\ r[k].c # Root => \E j \in 1 .. k : Within(r, j, k)
      <4>1. CASE k = t
        BY <2>2, <3>1, <3>2, <4>1
      <4>2. CASE k # t
        BY <1>2, <2>1, <4>2
      <4> QED  BY <4>1, <4>2
    <3> QED  BY <3>3 DEF Layered
  <2>4. CASE g.kind # "child"
    <3>1. g.c = r[Len(q)].c
      BY <1>1, <2>4 DEF Joint
    <3>2. \A j \in 1 .. Len(q) : r[j].c # Root => g.c # Root
      BY <1>1, <2>1, <3>1
    <3>3. ASSUME g.c # Root PROVE \E j \in 1 .. t : Within(r, j, t)
      <4>1. PICK j \in 1 .. Len(q) : Within(r, j, Len(q))
        BY <1>1, <2>1, <3>1, <3>3
      <4>2. ASSUME NEW m \in j .. t PROVE r[m].c = r[t].c
        <5>1. m = t \/ m \in j .. Len(q)
          BY <1>1
        <5> QED  BY <2>2, <3>1, <4>1, <5>1 DEF Within
      <4>3. ASSUME NEW m \in j + 1 .. t PROVE r[m].kind # "child"
        <5>1. m = t \/ m \in j + 1 .. Len(q)
          BY <1>1
        <5> QED  BY <2>2, <2>4, <4>1, <5>1 DEF Within
      <4>4. j \in 1 .. t /\ Within(r, j, t)
        BY <1>1, <4>1, <4>2, <4>3 DEF Within
      <4> QED  BY <4>4
    <3>4. ASSUME NEW k \in 1 .. Len(r)
          PROVE  /\ \A j \in 1 .. k : r[j].c # Root => r[k].c # Root
                 /\ r[k].c # Root => \E j \in 1 .. k : Within(r, j, k)
      <4>1. CASE k = t
        <5>1. \A j \in 1 .. k : j = t \/ j \in 1 .. Len(q)
          BY <1>1, <4>1
        <5> QED  BY <2>2, <3>2, <3>3, <4>1, <5>1
      <4>2. CASE k # t
        BY <1>2, <2>1, <4>2
      <4> QED  BY <4>1, <4>2
    <3> QED  BY <3>4 DEF Layered
  <2> QED  BY <2>3, <2>4
<1>7. Distinct(r)
  <2>1. ASSUME NEW j \in 1 .. Len(r), NEW k \in 1 .. Len(r), j # k, r[j].kind = "child", r[k].kind = "child"
        PROVE  r[j].c # r[k].c
    <3>1. CASE j = Len(q) + 1
      <4>1. k \in 1 .. Len(q) /\ r[k] = q[k]
        BY <1>2, <2>1, <3>1
      <4> QED  BY <1>1, <2>1, <3>1, <4>1
    <3>2. CASE k = Len(q) + 1
      <4>1. j \in 1 .. Len(q) /\ r[j] = q[j]
        BY <1>2, <2>1, <3>2
      <4> QED  BY <1>1, <2>1, <3>2, <4>1
    <3>3. CASE j # Len(q) + 1 /\ k # Len(q) + 1
      <4>1. j \in 1 .. Len(q) /\ r[j] = q[j] /\ k \in 1 .. Len(q) /\ r[k] = q[k]
        BY <1>2, <3>3
      <4> QED  BY <2>1, <4>1 DEF FramesOK, Distinct
    <3> QED  BY <3>1, <3>2, <3>3
  <2> QED  BY <2>1 DEF Distinct
<1> QED  BY <1>3, <1>4, <1>5, <1>6, <1>7 DEF FramesOK

\* More contexts are registered, the root is marked.
LEMMA MoreOK ==
  ASSUME NEW q \in Seq(TaskFrame), NEW n \in Nat, NEW m \in Nat, n <= m, NEW marked, NEW more, marked => more,
         FramesOK(q, n, marked)
  PROVE  FramesOK(q, m, more)
<1>1. ASSUME NEW k \in 1 .. Len(q) PROVE Doing(q, k, m, more)
  <2>1. Doing(q, k, n, marked)
    BY DEF FramesOK, Work
  <2>2. q[k].c \in Nat
    BY FramesTyped, FrameTyped, SizesAre
  <2>3. q[k].c = Root \/ q[k].c < m
    BY <2>1, <2>2 DEF Doing
  <2>4. q[k].act = "hook" => q[k].next \in 1 .. m - 1
    BY <2>1 DEF Doing
  <2> QED  BY <2>1, <2>3, <2>4 DEF Doing
<1>2. Work(q, m, more)
  BY <1>1 DEF Work
<1> QED  BY <1>2 DEF FramesOK

LEMMA AppendIs ==
  ASSUME NEW q \in Seq(TaskFrame), NEW g \in TaskFrame
  PROVE  Append(q, g) \in Seq(TaskFrame) /\ Grown(q, Append(q, g), g) /\ Append(q, g) # <<>>
<1>1. Append(q, g) \in Seq(TaskFrame) /\ Len(Append(q, g)) = Len(q) + 1
  OBVIOUS
<1>2. Append(q, g)[Len(q) + 1] = g /\ \A k \in 1 .. Len(q) : Append(q, g)[k] = q[k]
  OBVIOUS
<1>3. Append(q, g) # <<>>
  BY <1>1, FramesTyped
<1> QED  BY <1>1, <1>2, <1>3 DEF Grown

LEMMA SubSeqIs ==
  ASSUME NEW q \in Seq(TaskFrame), NEW p \in 0 .. Len(q)
  PROVE  SubSeq(q, 1, p) \in Seq(TaskFrame) /\ Cut(q, SubSeq(q, 1, p), p)
<1>1. Len(q) \in Nat /\ \A k \in 1 .. Len(q) : q[k] \in TaskFrame
  OBVIOUS
<1>2. p \in Nat /\ \A k \in 1 .. p : k \in 1 .. Len(q)
  BY <1>1
<1>3. SubSeq(q, 1, p) \in Seq(TaskFrame)
  BY <1>1, <1>2
<1>4. Len(SubSeq(q, 1, p)) = p
  BY <1>1, <1>2
<1>5. ASSUME NEW k \in 1 .. p PROVE SubSeq(q, 1, p)[k] = q[k]
  BY <1>1, <1>2
<1> QED  BY <1>3, <1>4, <1>5 DEF Cut

LEMMA FrontFrame ==
  ASSUME NEW q \in Seq(TaskFrame), q # <<>>
  PROVE  /\ Front(q) \in Seq(TaskFrame) /\ Cut(q, Front(q), Len(q) - 1) /\ Last(q) = q[Len(q)]
         /\ Last(q) \in TaskFrame /\ Len(q) - 1 \in Nat
<1> DEFINE p == Len(q) - 1
<1>1. p \in 0 .. Len(q) /\ p \in Nat /\ q[Len(q)] \in TaskFrame
  BY FramesTyped
<1>2. Front(q) = SubSeq(q, 1, p)
  BY DEF Front
<1> HIDE DEF p
<1>3. Front(q) \in Seq(TaskFrame) /\ Cut(q, Front(q), p)
  BY <1>1, <1>2, SubSeqIs
<1> QED  BY <1>1, <1>3 DEF p, Last

LEMMA SetTopIs ==
  ASSUME NEW q \in Seq(TaskFrame), q # <<>>, NEW f \in TaskFrame
  PROVE  /\ Append(Front(q), f) \in Seq(TaskFrame) /\ Retop(q, Append(Front(q), f), f)
         /\ Append(Front(q), f) # <<>>
<1> DEFINE p == Front(q)
<1>1. p \in Seq(TaskFrame) /\ Cut(q, p, Len(q) - 1) /\ Len(q) - 1 \in Nat /\ Len(q) \in Nat
  BY FrontFrame, FramesTyped
<1> HIDE DEF p
<1>2. Append(p, f) \in Seq(TaskFrame) /\ Grown(p, Append(p, f), f) /\ Append(p, f) # <<>>
  BY <1>1, AppendIs
<1> DEFINE r == Append(p, f)
<1> HIDE DEF r
<1>3. Len(p) = Len(q) - 1 /\ Len(r) = Len(q) /\ r[Len(q)] = f
  BY <1>1, <1>2 DEF Cut, Grown, r
<1>4. ASSUME NEW k \in 1 .. Len(q), k # Len(q) PROVE r[k] = q[k]
  <2>1. k \in 1 .. Len(p)
    BY <1>1, <1>3, <1>4
  <2> QED  BY <1>2, <1>3, <2>1, <1>1 DEF Cut, Grown, r
<1> QED  BY <1>2, <1>3, <1>4 DEF Retop, r, p

-----------------------------------------------------------------------------
(* Where a state is *)

LEMMA TopTask ==
  ASSUME NEW v, Core(v), v.frames # <<>>
  PROVE  /\ v.frames \in Seq(TaskFrame) /\ Top(v) = v.frames[Len(v.frames)] /\ Top(v) \in TaskFrame
         /\ Top(v).c = v.cur /\ Top(v).c \in Ctx /\ Top(v).kind \in Kinds /\ Top(v).act \in Acts
         /\ Len(v.frames) \in 1 .. Len(v.frames) /\ Len(v.frames) \in Nat
<1>1. v.frames \in Seq(TaskFrame)
  BY DEF Core, WellTyped
<1>2. Top(v) = v.frames[Len(v.frames)] /\ Top(v) \in TaskFrame
  BY <1>1, FrontFrame DEF Top
<1>3. Len(v.frames) \in 1 .. Len(v.frames) /\ Len(v.frames) \in Nat
  BY <1>1, FramesTyped
<1> QED  BY <1>1, <1>2, <1>3, FrameTyped DEF Core, Turn

LEMMA OneOrMore ==
  ASSUME NEW n \in Nat, n \in 1 .. n
  PROVE  n = 1 \/ (n \in 2 .. n /\ n - 1 \in 1 .. n)
OBVIOUS

\* The program's own entry is the lowest frame; where the root is on top, no
\* child is on the stack.
LEMMA RootOnTop ==
  ASSUME NEW v, Core(v), v.frames # <<>>
  PROVE  /\ Top(v).kind \in {"root", "after"} => Len(v.frames) = 1 /\ Top(v) = v.frames[1]
         /\ Top(v).c = Root => \A k \in 1 .. Len(v.frames) : v.frames[k].c = Root /\ v.frames[k].kind # "child"
         /\ Top(v).act # "sweep" => Top(v).kind # "after"
<1> DEFINE q == v.frames
<1>1. q \in Seq(TaskFrame) /\ Top(v) = q[Len(q)] /\ Len(q) \in 1 .. Len(q) /\ Len(q) \in Nat
  BY TopTask
<1>2. Joints(q) /\ Layered(q) /\ Bottom(q)
  BY DEF Core, FramesOK
<1>3. ASSUME NEW k \in 2 .. Len(q) PROVE q[k].kind \in {"child", "call", "cmd"} /\ (q[k].kind = "child" => q[k].c # Root)
  BY <1>2 DEF Joints, Joint
<1>4. Len(q) = 1 \/ Len(q) \in 2 .. Len(q)
  BY <1>1, OneOrMore
<1>5. Top(v).kind \in {"root", "after"} => Len(q) = 1 /\ Top(v) = q[1]
  BY <1>1, <1>3, <1>4
<1>6. ASSUME Top(v).c = Root, NEW k \in 1 .. Len(q) PROVE q[k].c = Root /\ q[k].kind # "child"
  <2>1. q[k].c = Root
    BY <1>1, <1>2, <1>6 DEF Layered
  <2>2. k = 1 \/ k \in 2 .. Len(q)
    BY <1>1
  <2> QED  BY <1>2, <1>3, <2>1, <2>2 DEF Bottom
<1>7. Top(v).act # "sweep" => Top(v).kind # "after"
  BY <1>2, <1>5 DEF Bottom
<1> QED  BY <1>5, <1>6, <1>7

\* A frame above the lowest.
LEMMA Above ==
  ASSUME NEW v, Core(v), v.frames # <<>>, Top(v).kind \notin {"root", "after"}
  PROVE  /\ Len(v.frames) \in 2 .. Len(v.frames) /\ Len(v.frames) - 1 \in 1 .. Len(v.frames)
         /\ Joint(v.frames[Len(v.frames) - 1], Top(v))
<1>1. Len(v.frames) \in 1 .. Len(v.frames) /\ Len(v.frames) \in Nat /\ Top(v) = v.frames[Len(v.frames)]
  BY TopTask
<1>2. Len(v.frames) # 1
  BY <1>1 DEF Core, FramesOK, Bottom
<1>3. Len(v.frames) \in 2 .. Len(v.frames) /\ Len(v.frames) - 1 \in 1 .. Len(v.frames)
  BY <1>1, <1>2, OneOrMore
<1> QED  BY <1>1, <1>3 DEF Core, FramesOK, Joints

\* A context of which no frame is on the stack.
Absent(v, i) == \A k \in 1 .. Len(v.frames) : v.frames[k].c # i
LEMMA CandidateAbsent ==
  ASSUME NEW v, Core(v), v.frames # <<>>, Top(v).act \in {"wait", "sweep"}, NEW i \in Ctx, Candidate(v, i)
  PROVE  Absent(v, i) /\ i # Root
<1> DEFINE q == v.frames
<1>1. /\ q \in Seq(TaskFrame) /\ Top(v) = q[Len(q)] /\ Len(q) \in 1 .. Len(q) /\ Len(q) \in Nat
      /\ Top(v).c = v.cur
  BY TopTask
<1>2. i # v.cur /\ ~v.ctx[i].finished /\ ~v.ctx[i].onStack
  BY DEF Candidate
<1>3. i # Root
  <2>1. SUFFICES ASSUME i = Root PROVE FALSE
    OBVIOUS
  <2>2. Doing(q, Len(q), v.nctx, v.ctx[Root].onStack)
    BY <1>1 DEF Core, FramesOK, Work
  <2>3. q[1].kind = "after"
    BY <1>1, <1>2, <2>1, <2>2 DEF Doing
  <2>4. v.ctx[Root].finished
    BY <2>3 DEF Core, Contexts68
  <2> QED  BY <1>2, <2>1, <2>4
<1>4. ASSUME NEW k \in 1 .. Len(q), q[k].c = i PROVE FALSE
  <2>1. PICK j \in 1 .. k : Within(q, j, k)
    BY <1>3, <1>4 DEF Core, FramesOK, Layered
  <2>2. j \in 1 .. Len(q) /\ q[j].kind = "child" /\ q[j].c = i
    BY <1>1, <1>4, <2>1 DEF Within
  <2>3. HasChild(q, i)
    BY <2>2 DEF HasChild
  <2>4. v.ctx[i].onStack
    BY <2>3 DEF Core, Contexts68
  <2> QED  BY <1>2, <2>4
<1> QED  BY <1>3, <1>4 DEF Absent

\* A context that cannot be unwound is the root.
LEMMA NoUnwindIsRoot ==
  ASSUME NEW v, Core(v), v.frames # <<>>
  PROVE  ~v.ctx[v.cur].canUnwind => v.cur = Root
<1> DEFINE q == v.frames
<1>1. q \in Seq(TaskFrame) /\ Len(q) \in 1 .. Len(q) /\ Len(q) \in Nat /\ q[Len(q)].c = v.cur /\ v.cur \in Ctx
  BY TopTask
<1>2. ASSUME v.cur # Root PROVE HasChild(q, v.cur)
  <2>1. PICK j \in 1 .. Len(q) : Within(q, j, Len(q))
    BY <1>1, <1>2 DEF Core, FramesOK, Layered
  <2>2. q[j].kind = "child" /\ q[j].c = v.cur
    BY <1>1, <2>1 DEF Within
  <2> QED  BY <2>2 DEF HasChild
<1> QED  BY <1>1, <1>2 DEF Core, Contexts68

LEMMA ExecutingIs ==
  ASSUME NEW v, TaskInv(v), Executing(v)
  PROVE  /\ Core(v) /\ v.frames # <<>> /\ Top(v).act = "run" /\ v.err = FALSE /\ v.dom = 0 /\ Top(v).kind # "after"
         /\ v.status # "ready"
<1>1. Core(v) /\ v.frames # <<>> /\ Top(v).act = "run" /\ v.err = FALSE
  BY DEF TaskInv, Executing, Core, WellTyped
<1>2. v.dom = 0
  BY <1>1, TopTask DEF TaskInv, Domain
<1> QED  BY <1>1, <1>2, RootOnTop DEF Core, Resting

-----------------------------------------------------------------------------
(* Steps that move nothing on the stack *)

AlikeTasks(v, h) ==
  /\ HasFields(h, VmFields) /\ h.frames = v.frames /\ h.nctx = v.nctx /\ h.cur = v.cur /\ h.thisTask = v.thisTask
  /\ h.cmdUnwind = v.cmdUnwind /\ h.status = v.status /\ h.rootFinished = v.rootFinished
AlikeCtx(x, y) ==
  /\ HasFields(y, CtxFields) /\ y.live = x.live /\ y.onStack = x.onStack /\ y.canUnwind = x.canUnwind
  /\ y.finished \in BOOLEAN /\ (x.finished => y.finished)

LEMMA AlikeKeeps ==
  ASSUME NEW v, Core(v), NEW h, AlikeTasks(v, h), h.err \in BOOLEAN, h.dom = v.dom, h.err = v.err \/ (v.status # "ready"),
         h.ctx = [c \in Ctx |-> h.ctx[c]], \A c \in Ctx : AlikeCtx(v.ctx[c], h.ctx[c])
  PROVE  Core(h)
<1>1. \A c \in Ctx : TypedCtx(h.ctx[c])
  BY DEF Core, WellTyped, TypedCtx, AlikeCtx
<1>2. WellTyped(h)
  BY <1>1 DEF Core, WellTyped, AlikeTasks
<1>3. FramesOK(h.frames, h.nctx, h.ctx[Root].onStack)
  BY SizesAre DEF Core, AlikeTasks, AlikeCtx
<1>4. Contexts68(h)
  BY SizesAre DEF Core, Contexts68, AlikeTasks, AlikeCtx
<1>5. Turn(h) /\ Command(h)
  BY DEF Core, Turn, Command, AlikeTasks
<1>6. Resting(h)
  BY DEF Core, Resting, AlikeTasks
<1> QED  BY <1>2, <1>3, <1>4, <1>5, <1>6 DEF Core

\* Signals, messages, polls and the like.
LEMMA SameTasks ==
  ASSUME NEW v, TaskInv(v), NEW h, AlikeTasks(v, h), h.err = v.err, h.dom = v.dom,
         h.ctx = [c \in Ctx |-> h.ctx[c]], \A c \in Ctx : AlikeCtx(v.ctx[c], h.ctx[c])
  PROVE  TaskInv(h)
<1>1. Core(h)
  BY AlikeKeeps DEF TaskInv, Core, WellTyped
<1> QED  BY <1>1 DEF TaskInv, Domain, AlikeTasks
LEMMA SameCtx ==
  ASSUME NEW v, Core(v), NEW h, h.ctx = v.ctx
  PROVE  h.ctx = [c \in Ctx |-> h.ctx[c]] /\ \A c \in Ctx : AlikeCtx(v.ctx[c], h.ctx[c])
BY DEF Core, WellTyped, TypedCtx, AlikeCtx

-----------------------------------------------------------------------------
(* What the operators change *)

Same(v, h, names) == HasFields(h, VmFields) /\ \A x \in VmFields \ names : h[x] = v[x]

LEMMA SetTopChanges ==
  ASSUME NEW v, HasFields(v, VmFields), NEW f
  PROVE  Same(v, SetTop(v, f), {"frames"}) /\ SetTop(v, f).frames = Append(Front(v.frames), f)
BY DEF SetTop, Same, HasFields, VmFields

EnterFields == {"sig", "ctx", "cur", "thisTask", "eng", "poll", "frames", "dom"}
LEMMA EnterChanges ==
  ASSUME NEW v, HasFields(v, VmFields), v.ctx = [c \in Ctx |-> v.ctx[c]], NEW i \in Ctx, HasFields(v.ctx[i], CtxFields)
  PROVE  /\ Same(v, Enter(v, i), EnterFields) /\ Enter(v, i).cur = i /\ Enter(v, i).thisTask = i
         /\ Enter(v, i).frames = Append(v.frames, Frame(i, "child", v.dom)) /\ Enter(v, i).dom = 0
         /\ Enter(v, i).ctx = [c \in Ctx |-> IF c = i THEN [v.ctx[i] EXCEPT !.blocked = {}, !.onStack = TRUE, !.canUnwind = TRUE]
                                             ELSE v.ctx[c]]
<1> DEFINE h == Enter(v, i)
<1>1. Same(v, h, EnterFields)
  <2> DEFINE S == [v.sig EXCEPT ![i] = @ \ Pending(v, i)]
             C == [v.ctx EXCEPT ![i].blocked = {}, ![i].onStack = TRUE, ![i].canUnwind = TRUE]
             P == [v.poll EXCEPT ![i] = "context"]
             Q == Append(v.frames, Frame(i, "child", v.dom))
  <2>1. h = [v EXCEPT !.sig = S, !.ctx = C, !.cur = i, !.thisTask = i, !.eng = i, !.poll = P, !.frames = Q, !.dom = 0]
    BY DEF Enter
  <2> HIDE DEF h, S, C, P, Q
  <2> QED  BY <2>1 DEF Same, HasFields, VmFields, EnterFields
<1>2. h.cur = i /\ h.thisTask = i /\ h.dom = 0
  BY DEF Enter, HasFields, VmFields
<1>3. h.frames = Append(v.frames, Frame(i, "child", v.dom))
  BY DEF Enter, HasFields, VmFields
<1>4. h.ctx = [c \in Ctx |-> IF c = i THEN [v.ctx[i] EXCEPT !.blocked = {}, !.onStack = TRUE, !.canUnwind = TRUE] ELSE v.ctx[c]]
  BY DEF Enter, HasFields, VmFields
<1> QED  BY <1>1, <1>2, <1>3, <1>4

Under(v) == v.frames[Len(v.frames) - 1]      \* the frame below the top
LeaveFields == {"ctx", "cur", "thisTask", "eng", "poll", "frames", "dom", "err"}
LeaveTells(v, h, domain, failed) ==
  /\ Same(v, h, LeaveFields) /\ h.cur = Under(v).c /\ h.thisTask = Under(v).c
  /\ h.frames = Front(v.frames) /\ h.dom = domain /\ h.err = failed
  /\ h.ctx = [c \in Ctx |-> IF c = Top(v).c THEN [v.ctx[c] EXCEPT !.onStack = FALSE, !.canUnwind = FALSE] ELSE v.ctx[c]]
LEMMA LeaveChanges ==
  ASSUME NEW v, HasFields(v, VmFields), v.ctx = [c \in Ctx |-> v.ctx[c]], Top(v).c \in Ctx,
         HasFields(v.ctx[Top(v).c], CtxFields), NEW domain, NEW failed
  PROVE  LeaveTells(v, Leave(v, domain, failed), domain, failed)
<1> DEFINE h == Leave(v, domain, failed)
           i == Top(v).c
           o == Under(v).c
           C == [v.ctx EXCEPT ![i].onStack = FALSE, ![i].canUnwind = FALSE]
           P == [v.poll EXCEPT ![o] = "quantum"]
           Q == Front(v.frames)
<1>1. h = [v EXCEPT !.ctx = C, !.cur = o, !.thisTask = o, !.eng = o, !.poll = P, !.frames = Q, !.dom = domain,
                    !.err = failed]
  BY DEF Leave, Under
<1>2. C = [c \in Ctx |-> IF c = i THEN [v.ctx[c] EXCEPT !.onStack = FALSE, !.canUnwind = FALSE] ELSE v.ctx[c]]
  <2> DEFINE X == v.ctx
  <2>1. X = [c \in Ctx |-> X[c]] /\ i \in Ctx
    OBVIOUS
  <2> HIDE DEF X, i
  <2> QED  BY <2>1
<1>3. Same(v, h, LeaveFields) /\ h.cur = o /\ h.thisTask = o /\ h.frames = Q /\ h.dom = domain /\ h.err = failed /\ h.ctx = C
  <2> HIDE DEF h, C, P, Q, o
  <2> QED  BY <1>1 DEF Same, HasFields, VmFields, LeaveFields
<1> QED  BY <1>2, <1>3 DEF LeaveTells

PopFields == {"frames", "err", "dom", "depth", "cmdUnwind", "poll"}
LEMMA PopCallChanges ==
  ASSUME NEW v, HasFields(v, VmFields), NEW failed
  PROVE  LET h == PopCall(v, failed)
         IN  /\ Same(v, h, PopFields) /\ h.frames = Front(v.frames) /\ h.err = failed
             /\ h.dom = IF Under(v).act = "hook" THEN Top(v).saved ELSE Top(v).saved - 1
             /\ h.cmdUnwind = IF Top(v).kind = "cmd" THEN FALSE ELSE v.cmdUnwind
<1> DEFINE Q == Front(v.frames)
           D == IF Under(v).act = "hook" THEN Top(v).saved ELSE Top(v).saved - 1
           P == IF Top(v).kind = "call" THEN v.depth - 1 ELSE v.depth
           U == IF Top(v).kind = "cmd" THEN FALSE ELSE v.cmdUnwind
           w == [v EXCEPT !.frames = Q, !.err = failed, !.dom = D, !.depth = P, !.cmdUnwind = U]
           L == [w.poll EXCEPT ![w.eng] = IF w.depth > 0 THEN "nested" ELSE "quantum"]
           h == PopCall(v, failed)
<1>1. h = [w EXCEPT !.poll = L]
  BY DEF PopCall, RestorePoll, Under
<1>2. Same(v, w, PopFields) /\ w.frames = Q /\ w.err = failed /\ w.dom = D /\ w.cmdUnwind = U
  <2> HIDE DEF Q, D, P, U
  <2> QED  BY DEF Same, HasFields, VmFields, PopFields
<1> HIDE DEF w, L, h
<1>3. Same(w, h, {"poll"})
  BY <1>1, <1>2 DEF Same, HasFields, VmFields
<1>4. Same(v, h, PopFields) /\ h.frames = Q /\ h.err = failed /\ h.dom = D /\ h.cmdUnwind = U
  <2> HIDE DEF Q, D, U
  <2> QED  BY <1>2, <1>3 DEF Same, VmFields, PopFields
<1> QED  BY <1>4 DEF h

LEMMA ResumeChanges ==
  ASSUME NEW v, HasFields(v, VmFields)
  PROVE  /\ Same(v, Resume(v), {"frames", "dom"}) /\ Resume(v).dom = v.dom - 1
         /\ Resume(v).frames = Append(Front(v.frames), [Top(v) EXCEPT !.act = "run", !.mask = {}, !.next = 0, !.progress = FALSE])
<1> DEFINE f == [Top(v) EXCEPT !.act = "run", !.mask = {}, !.next = 0, !.progress = FALSE]
           w == SetTop(v, f)
<1>1. Resume(v) = [w EXCEPT !.dom = @ - 1]
  BY DEF Resume
<1> HIDE DEF f
<1>2. Same(v, w, {"frames"}) /\ w.frames = Append(Front(v.frames), f)
  BY SetTopChanges
<1> HIDE DEF w
<1> DEFINE h == Resume(v)
<1>3. Same(w, h, {"dom"}) /\ h.dom = w.dom - 1
  BY <1>1, <1>2 DEF Same, HasFields, VmFields
<1>4. Same(v, h, {"frames", "dom"}) /\ h.dom = v.dom - 1 /\ h.frames = Append(Front(v.frames), f)
  <2> HIDE DEF h
  <2> QED  BY <1>2, <1>3 DEF Same, VmFields
<1> QED  BY <1>4 DEF f

\* The ways a quantum begins and ends.
LEMMA EndingsChange ==
  ASSUME NEW v, HasFields(v, VmFields), v.ctx = [c \in Ctx |-> v.ctx[c]], HasFields(v.ctx[Root], CtxFields)
  PROVE  /\ LET h == EndAfter(v)
            IN  /\ Same(v, h, {"frames", "err", "status"}) /\ h.frames = <<>> /\ h.err = FALSE
         /\ LET h == YieldRoot(v)
            IN  /\ Same(v, h, {"frames", "ctx", "status"}) /\ h.frames = <<>>
                /\ h.ctx = [c \in Ctx |-> IF c = Root THEN [v.ctx[Root] EXCEPT !.onStack = FALSE] ELSE v.ctx[c]]
<1>1. LET h == EndAfter(v) IN Same(v, h, {"frames", "err", "status"}) /\ h.frames = <<>> /\ h.err = FALSE
  <2> DEFINE h == EndAfter(v)
             S == CASE v.kill -> "killed" [] v.err -> "failed" [] LiveChildren(v) = {} -> "done" [] OTHER -> "ready"
  <2>1. h = [v EXCEPT !.frames = <<>>, !.err = FALSE, !.status = S]
    BY DEF EndAfter
  <2>2. Same(v, h, {"frames", "err", "status"}) /\ h.frames = <<>> /\ h.err = FALSE
    <3> HIDE DEF h, S
    <3> QED  BY <2>1 DEF Same, HasFields, VmFields
  <2> QED  BY <2>2
<1>2. LET h == YieldRoot(v)
      IN  /\ Same(v, h, {"frames", "ctx", "status"}) /\ h.frames = <<>>
          /\ h.ctx = [c \in Ctx |-> IF c = Root THEN [v.ctx[Root] EXCEPT !.onStack = FALSE] ELSE v.ctx[c]]
  <2> DEFINE h == YieldRoot(v)
             C == [v.ctx EXCEPT ![Root].onStack = FALSE]
  <2>1. h = [v EXCEPT !.frames = <<>>, !.ctx = C, !.status = "ready"]
    BY DEF YieldRoot
  <2>2. C = [c \in Ctx |-> IF c = Root THEN [v.ctx[Root] EXCEPT !.onStack = FALSE] ELSE v.ctx[c]]
    <3> DEFINE X == v.ctx
    <3>1. X = [c \in Ctx |-> X[c]]
      OBVIOUS
    <3> HIDE DEF X
    <3> QED  BY <3>1
  <2>3. Same(v, h, {"frames", "ctx", "status"}) /\ h.frames = <<>> /\ h.ctx = C
    <3> HIDE DEF h, C
    <3> QED  BY <2>1 DEF Same, HasFields, VmFields
  <2> QED  BY <2>2, <2>3
<1> QED  BY <1>1, <1>2

LEMMA EndRootChanges ==
  ASSUME NEW v, HasFields(v, VmFields), v.ctx = [c \in Ctx |-> v.ctx[c]], \A c \in Ctx : HasFields(v.ctx[c], CtxFields)
  PROVE  LET h == EndRoot(v)
         IN  /\ Same(v, h, {"frames", "ctx", "status", "rootFinished"}) /\ h.frames = <<>>
             /\ \/ /\ h.status = "done" /\ h.rootFinished = v.rootFinished
                   /\ h.ctx = [c \in Ctx |-> IF c = Root THEN [v.ctx[Root] EXCEPT !.onStack = FALSE] ELSE v.ctx[c]]
                \/ /\ h.status = "ready" /\ h.rootFinished = TRUE
                   /\ h.ctx = [c \in Ctx |-> IF c = Root THEN [v.ctx[Root] EXCEPT !.onStack = FALSE, !.finished = TRUE]
                                             ELSE v.ctx[c]]
<1> DEFINE C == [c \in Ctx |-> IF c = Root THEN [v.ctx[Root] EXCEPT !.onStack = FALSE] ELSE v.ctx[c]]
           E == [c \in Ctx |-> IF c = Root THEN [v.ctx[Root] EXCEPT !.onStack = FALSE, !.finished = TRUE] ELSE v.ctx[c]]
           w == [v EXCEPT !.frames = <<>>, !.ctx[Root].onStack = FALSE]
           h == EndRoot(v)
<1>1. [v.ctx EXCEPT ![Root].onStack = FALSE] = C
  <2> DEFINE X == v.ctx
  <2>1. X = [c \in Ctx |-> X[c]]
    OBVIOUS
  <2> HIDE DEF X
  <2> QED  BY <2>1
<1>2. w = [v EXCEPT !.frames = <<>>, !.ctx = C]
  BY <1>1 DEF HasFields, VmFields
<1>3. [C EXCEPT ![Root].finished = TRUE] = E
  <2>1. C[Root] = [v.ctx[Root] EXCEPT !.onStack = FALSE] /\ \A c \in Ctx : c # Root => C[c] = v.ctx[c]
    BY SizesAre
  <2>2. [C[Root] EXCEPT !.finished = TRUE] = [v.ctx[Root] EXCEPT !.onStack = FALSE, !.finished = TRUE]
    BY <2>1, SizesAre DEF HasFields, CtxFields
  <2>3. C = [c \in Ctx |-> C[c]]
    OBVIOUS
  <2> HIDE DEF C
  <2>4. [C EXCEPT ![Root].finished = TRUE] = [c \in Ctx |-> IF c = Root THEN [C[Root] EXCEPT !.finished = TRUE] ELSE C[c]]
    BY <2>3
  <2> QED  BY <2>1, <2>2, <2>4
<1>4. CASE LiveChildren(v) = {}
  <2>1. h = [w EXCEPT !.status = "done"]
    BY <1>4 DEF EndRoot
  <2>2. Same(v, h, {"frames", "ctx", "status", "rootFinished"}) /\ h.frames = <<>> /\ h.status = "done"
        /\ h.rootFinished = v.rootFinished /\ h.ctx = C
    <3> HIDE DEF h, C, w
    <3> QED  BY <1>2, <2>1 DEF Same, HasFields, VmFields
  <2> QED  BY <2>2
<1>5. CASE LiveChildren(v) # {}
  <2>1. h = [w EXCEPT !.status = "ready", !.rootFinished = TRUE, !.ctx[Root].finished = TRUE]
    BY <1>5 DEF EndRoot
  <2>2. w.ctx = C
    <3> HIDE DEF w, C
    <3> QED  BY <1>2 DEF HasFields, VmFields
  <2>3. h = [w EXCEPT !.status = "ready", !.rootFinished = TRUE, !.ctx = E]
    <3> HIDE DEF w, C, E
    <3> QED  BY <1>3, <2>1, <2>2
  <2>4. Same(v, h, {"frames", "ctx", "status", "rootFinished"}) /\ h.frames = <<>> /\ h.status = "ready"
        /\ h.rootFinished = TRUE /\ h.ctx = E
    <3> HIDE DEF h, C, w, E
    <3> QED  BY <1>2, <2>3 DEF Same, HasFields, VmFields
  <2> QED  BY <2>4
<1> QED  BY <1>4, <1>5

LEMMA FailRootChanges ==
  ASSUME NEW v, HasFields(v, VmFields), v.ctx = [c \in Ctx |-> v.ctx[c]], HasFields(v.ctx[Root], CtxFields),
         Top(v).kind \notin {"child", "call", "cmd"}
  PROVE  LET h == FailTop(v)
         IN  /\ Same(v, h, {"frames", "err", "ctx", "status"}) /\ h.frames = <<>> /\ h.err = FALSE /\ h.status # "ready"
             /\ h.ctx = [c \in Ctx |-> IF c = Root THEN [v.ctx[Root] EXCEPT !.onStack = FALSE] ELSE v.ctx[c]]
<1> DEFINE h == FailTop(v)
           C == [v.ctx EXCEPT ![Root].onStack = FALSE]
           S == IF v.kill THEN "killed" ELSE "failed"
<1>1. h = [v EXCEPT !.frames = <<>>, !.err = FALSE, !.ctx = C, !.status = S]
  BY DEF FailTop
<1>2. C = [c \in Ctx |-> IF c = Root THEN [v.ctx[Root] EXCEPT !.onStack = FALSE] ELSE v.ctx[c]]
  <2> DEFINE X == v.ctx
  <2>1. X = [c \in Ctx |-> X[c]]
    OBVIOUS
  <2> HIDE DEF X
  <2> QED  BY <2>1
<1>3. S # "ready"
  OBVIOUS
<1>4. Same(v, h, {"frames", "err", "ctx", "status"}) /\ h.frames = <<>> /\ h.err = FALSE /\ h.status = S /\ h.ctx = C
  <2> HIDE DEF h, C, S
  <2> QED  BY <1>1 DEF Same, HasFields, VmFields
<1> QED  BY <1>2, <1>3, <1>4

LEMMA StartChanges ==
  ASSUME NEW v, HasFields(v, VmFields), v.ctx = [c \in Ctx |-> v.ctx[c]], HasFields(v.ctx[Root], CtxFields)
  PROVE  LET h == StartQuantum(v)
         IN  IF v.rootFinished
               THEN /\ Same(v, h, {"eng", "poll", "status", "frames"}) /\ h.status = "running"
                    /\ h.frames = <<[Frame(Root, "after", v.dom) EXCEPT !.act = "sweep"]>>
               ELSE /\ Same(v, h, {"eng", "poll", "status", "frames", "ctx"}) /\ h.status = "running"
                    /\ h.frames = <<Frame(Root, "root", v.dom)>>
                    /\ h.ctx = [c \in Ctx |-> IF c = Root THEN [v.ctx[Root] EXCEPT !.onStack = v.nctx > 0] ELSE v.ctx[c]]
<1> DEFINE P == [v.poll EXCEPT ![Root] = "quantum"]
           w == [v EXCEPT !.eng = Root, !.poll = P, !.status = "running"]
           h == StartQuantum(v)
           A == <<[Frame(Root, "after", v.dom) EXCEPT !.act = "sweep"]>>
           B == <<Frame(Root, "root", v.dom)>>
           C == [v.ctx EXCEPT ![Root].onStack = v.nctx > 0]
<1>1. h = IF v.rootFinished THEN [w EXCEPT !.frames = A] ELSE [w EXCEPT !.frames = B, !.ctx[Root].onStack = v.nctx > 0]
  BY DEF StartQuantum
<1>2. w.ctx = v.ctx /\ w.nctx = v.nctx /\ Same(v, w, {"eng", "poll", "status"}) /\ w.status = "running"
  <2> HIDE DEF P
  <2> QED  BY DEF Same, HasFields, VmFields
<1>3. C = [c \in Ctx |-> IF c = Root THEN [v.ctx[Root] EXCEPT !.onStack = v.nctx > 0] ELSE v.ctx[c]]
  <2> DEFINE X == v.ctx
             N == v.nctx > 0
  <2>1. X = [c \in Ctx |-> X[c]]
    OBVIOUS
  <2> HIDE DEF X, N
  <2>2. [X EXCEPT ![Root].onStack = N] = [c \in Ctx |-> IF c = Root THEN [X[Root] EXCEPT !.onStack = N] ELSE X[c]]
    BY <2>1
  <2> QED  BY <2>2 DEF X, N
<1>4. ASSUME v.rootFinished PROVE Same(v, h, {"eng", "poll", "status", "frames"}) /\ h.status = "running" /\ h.frames = A
  <2> HIDE DEF h, w, A
  <2> QED  BY <1>1, <1>2, <1>4 DEF Same, HasFields, VmFields
<1>5. ASSUME ~v.rootFinished
      PROVE  Same(v, h, {"eng", "poll", "status", "frames", "ctx"}) /\ h.status = "running" /\ h.frames = B /\ h.ctx = C
  <2>1. h = [w EXCEPT !.frames = B, !.ctx = C]
    <3> HIDE DEF h, w, B
    <3> QED  BY <1>1, <1>2, <1>5
  <2> HIDE DEF h, w, B, C
  <2> QED  BY <1>2, <2>1 DEF Same, HasFields, VmFields
<1> QED  BY <1>3, <1>4, <1>5

\* Calls and new contexts.
CallFields == {"depth", "eng", "poll", "frames", "dom", "cmdUnwind"}
CallTells(v, h, kind, domain, within) ==
  /\ Same(v, h, CallFields) /\ h.dom = 0 /\ h.cmdUnwind = within /\ h.frames = Append(v.frames, Frame(v.cur, kind, domain))
LEMMA CalledChanges ==
  ASSUME NEW v, HasFields(v, VmFields), NEW hook, NEW domain, v.depth # MaxCalls
  PROVE  CallTells(v, Called(v, hook, domain), "call", domain, v.cmdUnwind)
<1> DEFINE e == IF hook THEN Root ELSE v.cur
           P == [v.poll EXCEPT ![e] = "nested"]
           Q == Append(v.frames, Frame(v.cur, "call", domain))
           d == v.depth + 1
           h == Called(v, hook, domain)
<1>1. h = [v EXCEPT !.depth = d, !.eng = e, !.poll = P, !.frames = Q, !.dom = 0]
  BY DEF Called
<1>2. Same(v, h, CallFields) /\ h.dom = 0 /\ h.cmdUnwind = v.cmdUnwind /\ h.frames = Q
  <2> HIDE DEF h, e, P, Q, d
  <2> QED  BY <1>1 DEF Same, HasFields, VmFields, CallFields
<1> QED  BY <1>2 DEF CallTells
LEMMA RunCommandChanges ==
  ASSUME NEW v, HasFields(v, VmFields), NEW h \in RunCommand(v)
  PROVE  CallTells(v, h, "cmd", v.dom + 1, TRUE)
<1> DEFINE P == [v.poll EXCEPT ![v.cur] = "nested"]
           Q == Append(v.frames, Frame(v.cur, "cmd", v.dom + 1))
<1>1. h = [v EXCEPT !.eng = v.cur, !.poll = P, !.cmdUnwind = TRUE, !.frames = Q, !.dom = 0]
  BY DEF RunCommand
<1>2. Same(v, h, CallFields) /\ h.dom = 0 /\ h.cmdUnwind = TRUE /\ h.frames = Q
  <2> HIDE DEF P, Q
  <2> QED  BY <1>1 DEF Same, HasFields, VmFields, CallFields
<1> QED  BY <1>2 DEF CallTells

LEMMA AdoptChanges ==
  ASSUME NEW v, HasFields(v, VmFields), v.ctx = [c \in Ctx |-> v.ctx[c]], HasFields(v.ctx[Root], CtxFields), v.nctx \in Nat
  PROVE  LET h == Adopt(v)
         IN  IF v.nctx > 0 THEN h = v
             ELSE /\ Same(v, h, {"nctx", "cur", "ctx"}) /\ h.nctx = 1 /\ h.cur = Root
                  /\ h.ctx = [c \in Ctx |-> IF c = Root THEN [v.ctx[Root] EXCEPT !.live = TRUE] ELSE v.ctx[c]]
<1>1. ASSUME ~(v.nctx > 0)
      PROVE  LET h == Adopt(v)
             IN  /\ Same(v, h, {"nctx", "cur", "ctx"}) /\ h.nctx = 1 /\ h.cur = Root
                 /\ h.ctx = [c \in Ctx |-> IF c = Root THEN [v.ctx[Root] EXCEPT !.live = TRUE] ELSE v.ctx[c]]
  <2> DEFINE h == Adopt(v)
             C == [v.ctx EXCEPT ![Root].live = TRUE]
  <2>1. h = [v EXCEPT !.nctx = 1, !.cur = Root, !.ctx = C]
    BY <1>1 DEF Adopt
  <2>2. C = [c \in Ctx |-> IF c = Root THEN [v.ctx[Root] EXCEPT !.live = TRUE] ELSE v.ctx[c]]
    <3> DEFINE X == v.ctx
    <3>1. X = [c \in Ctx |-> X[c]]
      OBVIOUS
    <3> HIDE DEF X
    <3> QED  BY <3>1
  <2>3. Same(v, h, {"nctx", "cur", "ctx"}) /\ h.nctx = 1 /\ h.cur = Root /\ h.ctx = C
    <3> HIDE DEF h, C
    <3> QED  BY <2>1 DEF Same, HasFields, VmFields
  <2> QED  BY <2>2, <2>3
<1>2. v.nctx > 0 => Adopt(v) = v
  BY DEF Adopt
<1> QED  BY <1>1, <1>2

Slot(act, n, message, f) == [f EXCEPT !.act = act, !.next = n, !.progress = message]
NewFields == {"frames", "ctx", "sig", "nctx", "dom"}
LEMMA NewContextChanges ==
  ASSUME NEW v, HasFields(v, VmFields), v.ctx = [c \in Ctx |-> v.ctx[c]], v.nctx \in Ctx, NEW act, NEW message
  PROVE  LET h == NewContext(v, act, message)
         IN  /\ Same(v, h, NewFields) /\ h.frames = Append(Front(v.frames), Slot(act, v.nctx, message, Top(v)))
             /\ h.nctx = v.nctx + 1 /\ h.dom = v.dom + 1
             /\ h.ctx = [c \in Ctx |-> IF c = v.nctx THEN [NoContext EXCEPT !.live = TRUE] ELSE v.ctx[c]]
<1> DEFINE f == Slot(act, v.nctx, message, Top(v))
           w == SetTop(v, f)
           n == v.nctx
           C == [v.ctx EXCEPT ![n] = [NoContext EXCEPT !.live = TRUE]]
           S == [v.sig EXCEPT ![n] = {}]
           h == NewContext(v, act, message)
<1>1. Same(v, w, {"frames"}) /\ w.frames = Append(Front(v.frames), f)
  BY SetTopChanges
<1>2. h = [w EXCEPT !.ctx[n] = [NoContext EXCEPT !.live = TRUE], !.sig[n] = {}, !.nctx = @ + 1, !.dom = @ + 1]
  BY DEF NewContext, Slot
<1>3. w.ctx = v.ctx /\ w.sig = v.sig /\ w.nctx = n /\ w.dom = v.dom
  <2> HIDE DEF w
  <2> QED  BY <1>1 DEF Same, VmFields
<1> DEFINE m == n + 1
           d == v.dom + 1
<1>4. h = [w EXCEPT !.ctx = C, !.sig = S, !.nctx = m, !.dom = d]
  <2> HIDE DEF w, h
  <2> QED  BY <1>2, <1>3
<1>5. C = [c \in Ctx |-> IF c = n THEN [NoContext EXCEPT !.live = TRUE] ELSE v.ctx[c]]
  <2> DEFINE X == v.ctx
             Y == [NoContext EXCEPT !.live = TRUE]
  <2>1. X = [c \in Ctx |-> X[c]]
    OBVIOUS
  <2> HIDE DEF X, Y, n
  <2>2. [X EXCEPT ![n] = Y] = [c \in Ctx |-> IF c = n THEN Y ELSE X[c]]
    BY <2>1
  <2> QED  BY <2>2 DEF X, Y
<1>6. Same(v, h, NewFields) /\ h.frames = Append(Front(v.frames), f) /\ h.nctx = m /\ h.dom = d /\ h.ctx = C
  <2> HIDE DEF f, w, n, C, S, h, m, d
  <2> QED  BY <1>1, <1>4 DEF Same, HasFields, VmFields, NewFields
<1> QED  BY <1>5, <1>6

-----------------------------------------------------------------------------
(* The operators keep the invariant *)

LEMMA CoreIs ==
  ASSUME NEW v, Core(v)
  PROVE  /\ HasFields(v, VmFields) /\ v.ctx = [c \in Ctx |-> v.ctx[c]] /\ \A c \in Ctx : HasFields(v.ctx[c], CtxFields)
         /\ v.frames \in Seq(TaskFrame) /\ v.nctx \in Nat /\ v.dom \in Nat /\ v.err \in BOOLEAN
         /\ FramesOK(v.frames, v.nctx, v.ctx[Root].onStack)
BY SizesAre DEF Core, WellTyped, TypedCtx

LEMMA NewFrameIs ==
  ASSUME NEW c \in Ctx, NEW kind \in Kinds, NEW saved \in Nat
  PROVE  /\ Frame(c, kind, saved) \in TaskFrame /\ Frame(c, kind, saved).c = c /\ Frame(c, kind, saved).kind = kind
         /\ Frame(c, kind, saved).act = "run" /\ Frame(c, kind, saved).saved = saved
BY DEF Frame, TaskFrame, Acts

LEMMA CtxUpdates ==
  ASSUME NEW x, HasFields(x, CtxFields)
  PROVE  /\ LET y == [x EXCEPT !.blocked = {}, !.onStack = TRUE, !.canUnwind = TRUE]
            IN  /\ HasFields(y, CtxFields) /\ y.canUnwind = TRUE /\ y.onStack = TRUE /\ y.live = x.live
                /\ y.finished = x.finished
         /\ LET y == [x EXCEPT !.onStack = FALSE, !.canUnwind = FALSE]
            IN  /\ HasFields(y, CtxFields) /\ y.canUnwind = FALSE /\ y.onStack = FALSE /\ y.live = x.live
                /\ y.finished = x.finished
         /\ LET y == [x EXCEPT !.onStack = FALSE]
            IN  /\ HasFields(y, CtxFields) /\ y.canUnwind = x.canUnwind /\ y.onStack = FALSE /\ y.live = x.live
                /\ y.finished = x.finished
         /\ LET y == [x EXCEPT !.onStack = FALSE, !.finished = TRUE]
            IN  /\ HasFields(y, CtxFields) /\ y.canUnwind = x.canUnwind /\ y.onStack = FALSE /\ y.live = x.live
                /\ y.finished = TRUE
         /\ LET y == [x EXCEPT !.live = TRUE]
            IN  /\ HasFields(y, CtxFields) /\ y.canUnwind = x.canUnwind /\ y.onStack = x.onStack /\ y.live = TRUE
                /\ y.finished = x.finished
BY DEF HasFields, CtxFields

LEMMA SetTopKeeps ==
  ASSUME NEW v, Core(v), v.frames # <<>>, NEW f \in TaskFrame,
         f.c = Top(v).c, f.kind = Top(v).kind, f.saved = Top(v).saved, Top(v).kind = "after" => f.act = "sweep",
         f.act = "wait" => f.c = Root,
         f.act = "sweep" /\ f.c # Root => v.frames[1].kind = "after" \/ v.ctx[Root].onStack,
         f.act = "hook" => f.next \in 1 .. v.nctx - 1 /\ Absent(v, f.next)
  PROVE  LET h == SetTop(v, f)
         IN  /\ Core(h) /\ h.frames # <<>> /\ Top(h) = f /\ Same(v, h, {"frames"}) /\ \A i : Absent(v, i) => Absent(h, i)
             /\ Len(h.frames) = Len(v.frames) /\ h.frames[Len(h.frames)] = f
<1> DEFINE h == SetTop(v, f)
           q == v.frames
           r == h.frames
<1>1. Same(v, h, {"frames"}) /\ r = Append(Front(q), f)
  BY CoreIs, SetTopChanges
<1>2. r \in Seq(TaskFrame) /\ Retop(q, r, f) /\ r # <<>>
  BY <1>1, SetTopIs, CoreIs
<1>3. /\ q \in Seq(TaskFrame) /\ Top(v) = q[Len(q)] /\ Len(q) \in 1 .. Len(q) /\ 1 \in 1 .. Len(q) /\ Len(q) \in Nat
      /\ Top(v).c = v.cur
  BY TopTask, FramesTyped
<1> HIDE DEF h
<1>4. /\ h.nctx = v.nctx /\ h.ctx = v.ctx /\ h.cur = v.cur /\ h.thisTask = v.thisTask /\ h.cmdUnwind = v.cmdUnwind
      /\ h.status = v.status /\ h.rootFinished = v.rootFinished /\ h.err = v.err /\ h.dom = v.dom /\ HasFields(h, VmFields)
  BY <1>1 DEF Same, VmFields
<1>5. /\ Len(r) = Len(q) /\ r[Len(q)] = f
      /\ \A k \in 1 .. Len(q) : r[k].c = q[k].c /\ r[k].kind = q[k].kind
  BY <1>2, <1>3 DEF Retop
<1>6. FramesOK(h.frames, h.nctx, h.ctx[Root].onStack)
  <2> DEFINE n == v.nctx
             marked == v.ctx[Root].onStack
             t == Top(v)
  <2>1. FramesOK(q, n, marked) /\ t = q[Len(q)]
    BY <1>3 DEF Core
  <2>2. f.act = "hook" => f.next \in 1 .. n - 1 /\ \A j \in 1 .. Len(q) : q[j].c # f.next
    BY DEF Absent
  <2>3. f.c = t.c /\ f.kind = t.kind /\ f.saved = t.saved
        /\ (t.kind = "after" => f.act = "sweep") /\ (f.act = "sweep" /\ f.c # Root => q[1].kind = "after" \/ marked)
    OBVIOUS
  <2> HIDE DEF q, r, n, marked, t
  <2>4. FramesOK(r, n, marked)
    BY <1>2, <1>3, <2>1, <2>2, <2>3, RetopOK
  <2> QED  BY <1>4, <2>4 DEF r, n, marked
<1>7. \A c : HasChild(r, c) = HasChild(q, c)
  BY <1>5 DEF HasChild
<1>8. HasCmd(r) = HasCmd(q) /\ r[1].kind = q[1].kind
  BY <1>3, <1>5 DEF HasCmd
<1>9. WellTyped(h)
  BY <1>2, <1>4 DEF Core, WellTyped
<1>10. Contexts68(h)
  BY <1>2, <1>4, <1>7, <1>8 DEF Core, Contexts68
<1>11. Turn(h)
  BY <1>2, <1>3, <1>4, <1>5 DEF Core, Turn
<1>12. Command(h) /\ Resting(h)
  BY <1>2, <1>4, <1>8 DEF Core, Command, Resting
<1>13. Core(h)
  BY <1>6, <1>9, <1>10, <1>11, <1>12 DEF Core
<1>14. Top(h) = f
  BY <1>2, <1>5, FrontFrame DEF Top
<1>15. \A i : Absent(v, i) => Absent(h, i)
  BY <1>5 DEF Absent
<1> QED  BY <1>1, <1>2, <1>5, <1>13, <1>14, <1>15 DEF h

LEMMA EnterKeeps ==
  ASSUME NEW v, Core(v), v.frames # <<>>, NEW i \in Ctx, Absent(v, i), i # Root, i < v.nctx,
         Top(v).act \in {"wait", "sweep", "create"}, Top(v).kind # "after" => v.dom = 1
  PROVE  TaskInv(Enter(v, i))
<1> DEFINE h == Enter(v, i)
           q == v.frames
           r == h.frames
           g == Frame(i, "child", v.dom)
           y == [v.ctx[i] EXCEPT !.blocked = {}, !.onStack = TRUE, !.canUnwind = TRUE]
<1>1. /\ Same(v, h, EnterFields) /\ h.cur = i /\ h.thisTask = i /\ r = Append(q, g) /\ h.dom = 0
      /\ h.ctx = [c \in Ctx |-> IF c = i THEN y ELSE v.ctx[c]]
  <2>1. HasFields(v, VmFields) /\ v.ctx = [c \in Ctx |-> v.ctx[c]] /\ HasFields(v.ctx[i], CtxFields)
    BY CoreIs
  <2> QED  BY ONLY <2>1, i \in Ctx, EnterChanges
<1>2. g \in TaskFrame /\ g.c = i /\ g.kind = "child" /\ g.act = "run" /\ g.saved = v.dom
  <2>1. "child" \in Kinds /\ v.dom \in Nat
    BY CoreIs DEF Kinds
  <2> QED  BY <2>1, NewFrameIs
<1>3. /\ q \in Seq(TaskFrame) /\ Top(v) = q[Len(q)] /\ Len(q) \in 1 .. Len(q) /\ 1 \in 1 .. Len(q) /\ Len(q) \in Nat
      /\ Top(v).c = v.cur
  BY TopTask, FramesTyped
<1>4. y.canUnwind = TRUE /\ y.onStack = TRUE /\ y.live = v.ctx[i].live /\ y.finished = v.ctx[i].finished /\ HasFields(y, CtxFields)
  <2>1. HasFields(v.ctx[i], CtxFields)
    BY CoreIs
  <2> QED  BY ONLY <2>1, CtxUpdates
<1> HIDE DEF h, g, y
<1>5. r \in Seq(TaskFrame) /\ Grown(q, r, g) /\ r # <<>>
  BY <1>1, <1>2, <1>3, AppendIs
<1>6. /\ h.nctx = v.nctx /\ h.cmdUnwind = v.cmdUnwind /\ h.status = v.status /\ h.rootFinished = v.rootFinished
      /\ h.err = v.err /\ HasFields(h, VmFields)
  BY <1>1 DEF Same, VmFields, EnterFields
<1>7. \A c \in Ctx : h.ctx[c] = IF c = i THEN y ELSE v.ctx[c]
  BY <1>1
<1>8. h.ctx[Root].onStack = v.ctx[Root].onStack /\ h.ctx[Root].finished = v.ctx[Root].finished /\ h.ctx[Root].live = v.ctx[Root].live
  BY <1>7, SizesAre
<1>9. Joint(q[Len(q)], g)
  BY <1>2, <1>3 DEF Joint
<1>10. FramesOK(r, h.nctx, h.ctx[Root].onStack)
  <2> DEFINE n == v.nctx
             marked == v.ctx[Root].onStack
  <2>1. FramesOK(q, n, marked) /\ g.c < n /\ \A k \in 1 .. Len(q) : q[k].c # g.c
    BY <1>2 DEF Core, Absent
  <2> HIDE DEF q, r, n, marked
  <2>2. FramesOK(r, n, marked)
    BY <1>2, <1>3, <1>5, <1>9, <2>1, GrownOK DEF q
  <2> QED  BY <1>6, <1>8, <2>2 DEF n, marked
<1>11. Len(r) = Len(q) + 1 /\ r[Len(r)] = g /\ (\A k \in 1 .. Len(q) : r[k] = q[k] /\ k \in 1 .. Len(r))
       /\ Len(r) \in 1 .. Len(r) /\ \A k \in 1 .. Len(r) : k # Len(r) => k \in 1 .. Len(q)
  <2> DEFINE p == Len(q)
             s == Len(r)
  <2>1. p \in Nat /\ s = p + 1 /\ r[s] = g /\ \A k \in 1 .. p : r[k] = q[k]
    BY <1>3, <1>5 DEF Grown
  <2> HIDE DEF p, s
  <2>2. s \in 1 .. s /\ (\A k \in 1 .. p : k \in 1 .. s) /\ \A k \in 1 .. s : k # s => k \in 1 .. p
    BY <2>1
  <2> QED  BY <2>1, <2>2 DEF p, s
<1>12. HasChild(r, i) /\ \A c : c # i => HasChild(r, c) = HasChild(q, c)
  <2>1. HasChild(r, i)
    BY <1>2, <1>11 DEF HasChild
  <2>2. ASSUME NEW c, c # i PROVE HasChild(r, c) = HasChild(q, c)
    <3>1. ASSUME HasChild(r, c) PROVE HasChild(q, c)
      BY <1>2, <1>11, <2>2, <3>1 DEF HasChild
    <3>2. ASSUME HasChild(q, c) PROVE HasChild(r, c)
      BY <1>11, <3>2 DEF HasChild
    <3> QED  BY <3>1, <3>2 DEF HasChild
  <2> QED  BY <2>1, <2>2
<1>13. HasCmd(q) => HasCmd(r)
  BY <1>11 DEF HasCmd
<1>14. \A c \in Ctx : TypedCtx(h.ctx[c])
  BY <1>4, <1>7 DEF Core, WellTyped, TypedCtx
<1>15. WellTyped(h)
  <2>1. h.ctx = [c \in Ctx |-> h.ctx[c]]
    BY <1>1
  <2> QED  BY <1>1, <1>5, <1>6, <1>14, <2>1 DEF Core, WellTyped
<1>16. Contexts68(h)
  <2>1. ASSUME NEW c \in Ctx
        PROVE  /\ h.ctx[c].canUnwind = HasChild(r, c) /\ (h.ctx[c].canUnwind => h.ctx[c].onStack)
               /\ h.ctx[c].live => c < h.nctx
    <3>1. CASE c = i
      <4>1. HasChild(r, c) = TRUE
        BY <1>12, <3>1 DEF HasChild
      <4> QED  BY <1>4, <1>6, <1>7, <3>1, <4>1
    <3>2. CASE c # i
      BY <1>6, <1>7, <1>12, <3>2 DEF Core, Contexts68
    <3> QED  BY <3>1, <3>2
  <2>2. r[1] = q[1]
    BY <1>3, <1>11
  <2> QED  BY <1>6, <1>8, <2>1, <2>2 DEF Core, Contexts68
<1>17. Turn(h)
  BY <1>1, <1>2, <1>5, <1>11 DEF Turn
<1>18. Command(h) /\ Resting(h)
  BY <1>3, <1>5, <1>6, <1>11, <1>13 DEF Core, Command, Resting
<1>19. Core(h)
  BY <1>10, <1>15, <1>16, <1>17, <1>18 DEF Core
<1>20. Domain(h)
  BY <1>1, <1>2, <1>11 DEF Domain
<1> QED  BY <1>19, <1>20 DEF TaskInv, h

\* The stack without its top frame.
LEMMA BelowIs ==
  ASSUME NEW v, Core(v), v.frames # <<>>, Top(v).kind \in {"child", "call", "cmd"}
  PROVE  LET q == v.frames
             r == Front(q)
         IN  /\ r \in Seq(TaskFrame) /\ r # <<>> /\ r[Len(r)] = Under(v) /\ r[1] = q[1] /\ Joint(Under(v), Top(v))
             /\ \A n, marked : FramesOK(q, n, marked) => FramesOK(r, n, marked)
             /\ \A c \in Ctx : c # Top(v).c \/ Top(v).kind # "child" => HasChild(r, c) = HasChild(q, c)
             /\ Top(v).kind = "child" => ~HasChild(r, Top(v).c)
             /\ Top(v).kind # "cmd" => HasCmd(r) = HasCmd(q)
             /\ Len(r) \in 1 .. Len(r) /\ Under(v) \in TaskFrame
<1> DEFINE q == v.frames
           r == Front(q)
           s == Len(q)
           p == s - 1
<1>1. q \in Seq(TaskFrame) /\ s \in Nat /\ Top(v) = q[s]
  BY TopTask
<1>2. s \in 2 .. s /\ p \in 1 .. s /\ Joint(q[p], Top(v))
  <2>1. Top(v).kind \notin {"root", "after"}
    OBVIOUS
  <2> QED  BY <2>1, Above
<1>3. r \in Seq(TaskFrame) /\ Cut(q, r, p)
  BY FrontFrame, <1>1
<1> HIDE DEF q, r, s
<1>4. Len(r) = p /\ \A k \in 1 .. p : r[k] = q[k]
  BY <1>3 DEF Cut
<1>5. /\ p \in Nat /\ p \in 1 .. p /\ 1 \in 1 .. p /\ p # 0 /\ (\A k \in 1 .. p : k \in 1 .. s /\ k # s)
      /\ \A k \in 1 .. s : k # s => k \in 1 .. p
  BY <1>1, <1>2
<1> HIDE DEF p
<1>6. r # <<>> /\ r[Len(r)] = Under(v) /\ r[1] = q[1] /\ Joint(Under(v), Top(v)) /\ Len(r) \in 1 .. Len(r)
  <2>1. Under(v) = q[p]
    BY DEF Under, q, p, s
  <2>2. r # <<>>
    BY <1>3, <1>4, <1>5, FramesTyped
  <2> QED  BY <1>2, <1>4, <1>5, <2>1, <2>2
<1>7. ASSUME NEW n, NEW marked, FramesOK(q, n, marked) PROVE FramesOK(r, n, marked)
  BY <1>1, <1>3, <1>7, CutOK
<1>8. ASSUME NEW c \in Ctx, c # Top(v).c \/ Top(v).kind # "child" PROVE HasChild(r, c) = HasChild(q, c)
  <2>1. HasChild(r, c) => HasChild(q, c)
    BY <1>4, <1>5 DEF HasChild, s
  <2>2. HasChild(q, c) => HasChild(r, c)
    BY <1>1, <1>4, <1>5, <1>8 DEF HasChild, s
  <2> QED  BY <2>1, <2>2 DEF HasChild
<1>9. ASSUME Top(v).kind = "child" PROVE ~HasChild(r, Top(v).c)
  <2>1. Distinct(q)
    BY DEF Core, FramesOK, q
  <2>2. s \in 1 .. s
    BY <1>1, <1>2
  <2> QED  BY <1>1, <1>4, <1>5, <1>9, <2>1, <2>2 DEF HasChild, Distinct, s
<1>10. ASSUME Top(v).kind # "cmd" PROVE HasCmd(r) = HasCmd(q)
  <2>1. HasCmd(r) => HasCmd(q)
    BY <1>4, <1>5 DEF HasCmd, s
  <2>2. HasCmd(q) => HasCmd(r)
    BY <1>1, <1>4, <1>5, <1>10 DEF HasCmd, s
  <2> QED  BY <2>1, <2>2 DEF HasCmd
<1>11. Under(v) \in TaskFrame
  BY <1>3, <1>6, FramesTyped
<1> QED  BY <1>3, <1>6, <1>7, <1>8, <1>9, <1>10, <1>11 DEF q, r

\* run_context_nested returns.
LEMMA LeaveKeeps ==
  ASSUME NEW v, Core(v), v.frames # <<>>, Top(v).kind = "child", NEW domain \in Nat, NEW failed \in BOOLEAN,
         Under(v).kind # "after" => domain = 1
  PROVE  TaskInv(Leave(v, domain, failed))
<1> DEFINE h == Leave(v, domain, failed)
           r == Front(v.frames)
           i == Top(v).c
           o == Under(v)
           y == [v.ctx[i] EXCEPT !.onStack = FALSE, !.canUnwind = FALSE]
<1>1. i \in Ctx /\ HasFields(v, VmFields) /\ v.ctx = [c \in Ctx |-> v.ctx[c]] /\ HasFields(v.ctx[i], CtxFields)
  BY CoreIs, TopTask
<1>2. /\ Same(v, h, LeaveFields) /\ h.cur = o.c /\ h.thisTask = o.c /\ h.frames = r /\ h.dom = domain /\ h.err = failed
      /\ h.ctx = [c \in Ctx |-> IF c = i THEN [v.ctx[c] EXCEPT !.onStack = FALSE, !.canUnwind = FALSE] ELSE v.ctx[c]]
  <2>1. Top(v).c \in Ctx /\ HasFields(v.ctx[Top(v).c], CtxFields)
    BY <1>1
  <2> HIDE DEF h
  <2>2. h = Leave(v, domain, failed) => LeaveTells(v, h, domain, failed)
    BY <1>1, <2>1, LeaveChanges
  <2> QED  BY <2>2 DEF h, LeaveTells
<1>3. /\ r \in Seq(TaskFrame) /\ r # <<>> /\ r[Len(r)] = o /\ r[1] = v.frames[1] /\ Joint(o, Top(v))
      /\ (\A n, marked : FramesOK(v.frames, n, marked) => FramesOK(r, n, marked))
      /\ (\A c \in Ctx : c # i => HasChild(r, c) = HasChild(v.frames, c)) /\ ~HasChild(r, i)
      /\ HasCmd(r) = HasCmd(v.frames)
  BY BelowIs
<1>4. HasFields(y, CtxFields) /\ y.canUnwind = FALSE /\ y.onStack = FALSE /\ y.live = v.ctx[i].live /\ y.finished = v.ctx[i].finished
  BY ONLY <1>1, CtxUpdates
<1> HIDE DEF h, r, o
<1>5. /\ h.nctx = v.nctx /\ h.cmdUnwind = v.cmdUnwind /\ h.status = v.status /\ h.rootFinished = v.rootFinished
      /\ HasFields(h, VmFields)
  BY <1>2 DEF Same, VmFields, LeaveFields
<1>6. i # Root /\ o.act \in {"wait", "sweep", "create"}
  BY <1>3 DEF Joint
<1>7. h.ctx[i] = y /\ \A c \in Ctx : c # i => h.ctx[c] = v.ctx[c]
  BY <1>1, <1>2
<1> HIDE DEF i, y
<1>8. h.ctx[Root] = v.ctx[Root]
  BY <1>6, <1>7, SizesAre
<1>9. WellTyped(h)
  <2>1. ASSUME NEW c \in Ctx PROVE TypedCtx(h.ctx[c])
    BY <1>4, <1>7 DEF Core, WellTyped, TypedCtx
  <2>2. h.ctx = [c \in Ctx |-> h.ctx[c]]
    BY <1>2
  <2> QED  BY <1>2, <1>3, <1>5, <2>1, <2>2 DEF Core, WellTyped
<1>10. FramesOK(h.frames, h.nctx, h.ctx[Root].onStack)
  BY <1>2, <1>3, <1>5, <1>8 DEF Core
<1>11. Contexts68(h)
  <2>1. ASSUME NEW c \in Ctx
        PROVE  /\ h.ctx[c].canUnwind = HasChild(r, c) /\ (h.ctx[c].canUnwind => h.ctx[c].onStack)
               /\ h.ctx[c].live => c < h.nctx
    <3>1. CASE c = i
      <4>1. HasChild(r, c) = FALSE /\ h.ctx[c].canUnwind = FALSE /\ h.ctx[c].live = v.ctx[c].live
        BY <1>3, <1>4, <1>7, <3>1 DEF HasChild
      <4> QED  BY <1>5, <4>1 DEF Core, Contexts68
    <3>2. CASE c # i
      BY <1>3, <1>5, <1>7, <3>2 DEF Core, Contexts68
    <3> QED  BY <3>1, <3>2
  <2> QED  BY <1>2, <1>3, <1>5, <1>8, <2>1 DEF Core, Contexts68
<1>12. Turn(h) /\ Command(h) /\ Resting(h)
  BY <1>2, <1>3, <1>5 DEF Core, Turn, Command, Resting
<1>13. Domain(h)
  BY <1>2, <1>3, <1>6 DEF Domain, o
<1> QED  BY <1>9, <1>10, <1>11, <1>12, <1>13 DEF TaskInv, Core, h

LEMMA LeaveChildKeeps ==
  ASSUME NEW v, Core(v), v.frames # <<>>, Top(v).kind = "child", NEW failed \in BOOLEAN
  PROVE  TaskInv(LeaveChild(v, failed))
<1>1. Joint(Under(v), Top(v))
  BY BelowIs
<1>2. Top(v).saved \in Nat /\ (Under(v).kind # "after" => Top(v).saved = 1)
  BY <1>1, TopTask, FrameTyped DEF Joint
<1> QED  BY <1>2, LeaveKeeps DEF LeaveChild

\* A callback or a command returns.
LEMMA PopCallKeeps ==
  ASSUME NEW v, Core(v), v.frames # <<>>, Top(v).kind \in {"call", "cmd"}, NEW failed \in BOOLEAN
  PROVE  TaskInv(PopCall(v, failed))
<1> DEFINE h == PopCall(v, failed)
           r == Front(v.frames)
           o == Under(v)
           t == Top(v)
<1>1. /\ Same(v, h, PopFields) /\ h.frames = r /\ h.err = failed
      /\ h.dom = IF o.act = "hook" THEN t.saved ELSE t.saved - 1
      /\ h.cmdUnwind = IF t.kind = "cmd" THEN FALSE ELSE v.cmdUnwind
  BY CoreIs, PopCallChanges
<1>2. /\ r \in Seq(TaskFrame) /\ r # <<>> /\ r[Len(r)] = o /\ r[1] = v.frames[1] /\ Joint(o, t)
      /\ (\A n, marked : FramesOK(v.frames, n, marked) => FramesOK(r, n, marked))
      /\ (\A c \in Ctx : HasChild(r, c) = HasChild(v.frames, c))
      /\ t.kind # "cmd" => HasCmd(r) = HasCmd(v.frames)
  BY BelowIs
<1>3. t.c = v.cur
  BY TopTask
<1> HIDE DEF h, r, o, t
<1>4. /\ h.nctx = v.nctx /\ h.status = v.status /\ h.rootFinished = v.rootFinished /\ h.ctx = v.ctx
      /\ h.cur = v.cur /\ h.thisTask = v.thisTask /\ HasFields(h, VmFields)
  BY <1>1 DEF Same, VmFields, PopFields
<1>5. t.saved = 1 /\ o.c = t.c /\ (o.act = "run" \/ o.act = "hook") /\ o.kind # "after"
  BY <1>2 DEF Joint, t
<1>6. h.dom = (IF o.act = "hook" THEN 1 ELSE 0) /\ h.dom \in Nat /\ h.cmdUnwind \in BOOLEAN
  <2>1. 1 - 1 = 0
    OBVIOUS
  <2>2. v.cmdUnwind \in BOOLEAN
    BY DEF Core, WellTyped
  <2>3. h.dom = IF o.act = "hook" THEN 1 ELSE 0
    BY <1>1, <1>5, <2>1
  <2>4. h.cmdUnwind \in BOOLEAN
    BY <1>1, <2>2
  <2> QED  BY <2>3, <2>4
<1>7. WellTyped(h)
  BY <1>1, <1>2, <1>4, <1>6 DEF Core, WellTyped
<1>8. FramesOK(h.frames, h.nctx, h.ctx[Root].onStack)
  BY <1>1, <1>2, <1>4 DEF Core
<1>9. Contexts68(h)
  BY <1>1, <1>2, <1>4 DEF Core, Contexts68
<1>10. Turn(h)
  BY <1>1, <1>2, <1>3, <1>4, <1>5 DEF Core, Turn
<1>11. Command(h) /\ Resting(h)
  BY <1>1, <1>2, <1>4 DEF Core, Command, Resting
<1>12. Domain(h)
  BY <1>1, <1>2, <1>5, <1>6 DEF Domain
<1> QED  BY <1>7, <1>8, <1>9, <1>10, <1>11, <1>12 DEF TaskInv, Core, h

\* The stack is empty: the program's own entry returned to its caller.
LEMMA EmptyKeeps ==
  ASSUME NEW v, Core(v), v.frames # <<>>, v.cur = Root, NEW names, NEW h, Same(v, h, names), h.frames = <<>>,
         names \subseteq {"frames", "ctx", "status", "rootFinished", "err"},
         h.err \in BOOLEAN, h.rootFinished \in BOOLEAN, h.ctx = [c \in Ctx |-> h.ctx[c]],
         \A c \in Ctx : c # Root => h.ctx[c] = v.ctx[c], HasFields(h.ctx[Root], CtxFields),
         h.ctx[Root].canUnwind = v.ctx[Root].canUnwind, h.ctx[Root].live = v.ctx[Root].live,
         h.ctx[Root].finished \in BOOLEAN, h.ctx[Root].onStack \in BOOLEAN,
         h.rootFinished => h.ctx[Root].finished, Resting(h)
  PROVE  TaskInv(h)
<1>1. /\ h.nctx = v.nctx /\ h.dom = v.dom /\ h.cur = Root /\ h.thisTask = Root /\ h.cmdUnwind = v.cmdUnwind
      /\ HasFields(h, VmFields)
  BY DEF Same, VmFields, Core, Turn
<1>2. \A c \in Ctx : v.ctx[c].canUnwind = FALSE
  <2>1. \A k \in 1 .. Len(v.frames) : v.frames[k].kind # "child"
    BY RootOnTop, TopTask
  <2>2. ASSUME NEW c \in Ctx PROVE v.ctx[c].canUnwind = FALSE
    <3>1. ~HasChild(v.frames, c)
      BY <2>1 DEF HasChild
    <3>2. v.ctx[c].canUnwind = HasChild(v.frames, c) /\ v.ctx[c].canUnwind \in BOOLEAN
      BY DEF Core, Contexts68, WellTyped, TypedCtx
    <3> QED  BY <3>1, <3>2
  <2> QED  BY <2>2
<1>3. Len(h.frames) = 0 /\ h.frames \in Seq(TaskFrame)
  OBVIOUS
<1>4. \A k : k \notin 1 .. Len(h.frames)
  BY <1>3
<1>5. \A c \in Ctx : h.ctx[c].canUnwind = FALSE /\ HasChild(h.frames, c) = FALSE
  BY <1>2, <1>4, SizesAre DEF HasChild
<1>6. WellTyped(h)
  <2>1. ASSUME NEW c \in Ctx PROVE TypedCtx(h.ctx[c])
    <3>1. TypedCtx(v.ctx[c])
      BY DEF Core, WellTyped
    <3> QED  BY <3>1, SizesAre DEF TypedCtx
  <2> QED  BY <1>1, <1>3, <2>1 DEF Core, WellTyped
<1>7. FramesOK(h.frames, h.nctx, h.ctx[Root].onStack)
  <2>1. Bottom(h.frames)
    BY DEF Bottom
  <2>2. Joints(h.frames)
    BY <1>3 DEF Joints
  <2>3. Work(h.frames, h.nctx, h.ctx[Root].onStack) /\ Layered(h.frames) /\ Distinct(h.frames)
    BY <1>4 DEF Work, Layered, Distinct
  <2> QED  BY <2>1, <2>2, <2>3 DEF FramesOK
<1>8. Contexts68(h)
  <2>1. \A c \in Ctx : h.ctx[c].live = v.ctx[c].live
    OBVIOUS
  <2> QED  BY <1>1, <1>5, <2>1, SizesAre DEF Core, Contexts68
<1>9. Turn(h) /\ Command(h) /\ Domain(h)
  BY <1>1 DEF Turn, Command, Domain
<1> QED  BY <1>6, <1>7, <1>8, <1>9 DEF TaskInv, Core

LEMMA RootCtxIs ==
  ASSUME NEW v, Core(v)
  PROVE  /\ HasFields(v.ctx[Root], CtxFields) /\ v.ctx[Root].live \in BOOLEAN /\ v.ctx[Root].finished \in BOOLEAN
         /\ v.ctx[Root].onStack \in BOOLEAN /\ v.ctx[Root].canUnwind \in BOOLEAN
         /\ v.rootFinished \in BOOLEAN /\ (v.rootFinished => v.ctx[Root].finished)
BY SizesAre DEF Core, WellTyped, TypedCtx, Contexts68

LEMMA EndAfterKeeps ==
  ASSUME NEW v, Core(v), v.frames # <<>>, Top(v).kind = "after"
  PROVE  TaskInv(EndAfter(v))
<1> DEFINE h == EndAfter(v)
<1>1. Same(v, h, {"frames", "err", "status"}) /\ h.frames = <<>> /\ h.err = FALSE
  BY CoreIs, RootCtxIs, EndingsChange
<1> HIDE DEF h
<1>2. h.ctx = v.ctx /\ h.rootFinished = v.rootFinished
  BY <1>1 DEF Same, VmFields
<1>3. v.cur = Root /\ v.rootFinished
  BY TopTask, RootOnTop DEF Core, FramesOK, Bottom, Contexts68
<1>4. Resting(h)
  BY <1>1, <1>2, <1>3 DEF Resting
<1>5. h.ctx = [c \in Ctx |-> h.ctx[c]] /\ \A c \in Ctx : c # Root => h.ctx[c] = v.ctx[c]
  BY <1>2, CoreIs
<1> QED  BY <1>1, <1>2, <1>3, <1>4, <1>5, RootCtxIs, EmptyKeeps DEF h

LEMMA YieldRootKeeps ==
  ASSUME NEW v, TaskInv(v), Executing(v), Top(v).kind = "root"
  PROVE  TaskInv(YieldRoot(v))
<1> DEFINE h == YieldRoot(v)
           y == [v.ctx[Root] EXCEPT !.onStack = FALSE]
<1>1. Core(v) /\ v.frames # <<>> /\ v.err = FALSE /\ v.dom = 0
  BY ExecutingIs
<1>2. /\ Same(v, h, {"frames", "ctx", "status"}) /\ h.frames = <<>>
      /\ h.ctx = [c \in Ctx |-> IF c = Root THEN y ELSE v.ctx[c]]
  BY <1>1, CoreIs, RootCtxIs, EndingsChange
<1>3. /\ HasFields(y, CtxFields) /\ y.canUnwind = v.ctx[Root].canUnwind /\ y.onStack = FALSE /\ y.live = v.ctx[Root].live
      /\ y.finished = v.ctx[Root].finished
  <2>1. HasFields(v.ctx[Root], CtxFields)
    BY <1>1, RootCtxIs
  <2> QED  BY ONLY <2>1, CtxUpdates
<1> HIDE DEF h, y
<1>4. h.err = FALSE /\ h.dom = 0 /\ h.rootFinished = v.rootFinished /\ h.cmdUnwind = v.cmdUnwind
  BY <1>1, <1>2 DEF Same, VmFields
<1>5. Len(v.frames) = 1 /\ Top(v) = v.frames[1] /\ v.cur = Root
  <2>1. Len(v.frames) = 1 /\ Top(v) = v.frames[1]
    BY <1>1, RootOnTop
  <2> QED  BY <1>1, <2>1, TopTask DEF Core, FramesOK, Bottom
<1>6. ~v.cmdUnwind
  <2>1. ~HasCmd(v.frames)
    BY <1>5 DEF HasCmd
  <2> QED  BY <1>1, <1>5, <2>1 DEF Core, Command
<1>7. Resting(h)
  BY <1>2, <1>4, <1>6 DEF Resting
<1>8. h.ctx[Root] = y /\ h.ctx = [c \in Ctx |-> h.ctx[c]] /\ \A c \in Ctx : c # Root => h.ctx[c] = v.ctx[c]
  BY <1>2, SizesAre
<1>9. h.ctx[Root].finished \in BOOLEAN /\ (h.rootFinished => h.ctx[Root].finished) /\ h.rootFinished \in BOOLEAN
  BY <1>1, <1>3, <1>4, <1>8, RootCtxIs
<1> QED  BY <1>1, <1>2, <1>3, <1>4, <1>5, <1>7, <1>8, <1>9, EmptyKeeps DEF h

LEMMA EndRootKeeps ==
  ASSUME NEW v, Core(v), v.frames # <<>>, v.cur = Root, v.err = FALSE
  PROVE  TaskInv(EndRoot(v))
<1> DEFINE h == EndRoot(v)
           y == [v.ctx[Root] EXCEPT !.onStack = FALSE]
           z == [v.ctx[Root] EXCEPT !.onStack = FALSE, !.finished = TRUE]
<1>1. /\ Same(v, h, {"frames", "ctx", "status", "rootFinished"}) /\ h.frames = <<>>
      /\ \/ /\ h.status = "done" /\ h.rootFinished = v.rootFinished
            /\ h.ctx = [c \in Ctx |-> IF c = Root THEN y ELSE v.ctx[c]]
         \/ /\ h.status = "ready" /\ h.rootFinished = TRUE
            /\ h.ctx = [c \in Ctx |-> IF c = Root THEN z ELSE v.ctx[c]]
  BY CoreIs, EndRootChanges
<1>2. /\ HasFields(y, CtxFields) /\ y.canUnwind = v.ctx[Root].canUnwind /\ y.onStack = FALSE /\ y.live = v.ctx[Root].live
      /\ y.finished = v.ctx[Root].finished
      /\ HasFields(z, CtxFields) /\ z.canUnwind = v.ctx[Root].canUnwind /\ z.onStack = FALSE /\ z.live = v.ctx[Root].live
      /\ z.finished = TRUE
  <2>1. HasFields(v.ctx[Root], CtxFields)
    BY RootCtxIs
  <2> QED  BY ONLY <2>1, CtxUpdates
<1> HIDE DEF h, y, z
<1>3. h.err = FALSE
  BY <1>1 DEF Same, VmFields
<1>4. h.ctx = [c \in Ctx |-> h.ctx[c]] /\ \A c \in Ctx : c # Root => h.ctx[c] = v.ctx[c]
  BY <1>1
<1>5. \/ h.status = "done" /\ h.rootFinished = v.rootFinished /\ h.ctx[Root] = y
      \/ h.status = "ready" /\ h.rootFinished = TRUE /\ h.ctx[Root] = z
  BY <1>1, SizesAre
<1>6. Resting(h)
  BY <1>1, <1>3, <1>5 DEF Resting
<1>7. /\ HasFields(h.ctx[Root], CtxFields) /\ h.ctx[Root].canUnwind = v.ctx[Root].canUnwind
      /\ h.ctx[Root].live = v.ctx[Root].live /\ h.ctx[Root].onStack = FALSE /\ h.ctx[Root].finished \in BOOLEAN
      /\ h.rootFinished => h.ctx[Root].finished
      /\ h.rootFinished \in BOOLEAN
  BY <1>2, <1>5, RootCtxIs
<1> QED  BY <1>1, <1>3, <1>4, <1>6, <1>7, EmptyKeeps DEF h

\* The top frame's code came back with an error.
LEMMA FailTopKeeps ==
  ASSUME NEW v, Core(v), v.frames # <<>>, Top(v).kind # "after"
  PROVE  TaskInv(FailTop(v))
<1>1. CASE Top(v).kind = "child"
  BY <1>1, LeaveChildKeeps DEF FailTop
<1>2. CASE Top(v).kind \in {"call", "cmd"}
  BY <1>2, PopCallKeeps DEF FailTop
<1>3. CASE Top(v).kind \notin {"child", "call", "cmd"}
  <2> DEFINE h == FailTop(v)
             y == [v.ctx[Root] EXCEPT !.onStack = FALSE]
  <2>1. HasFields(v.ctx[Root], CtxFields)
    BY RootCtxIs
  <2>2. /\ Same(v, h, {"frames", "err", "ctx", "status"}) /\ h.frames = <<>> /\ h.err = FALSE /\ h.status # "ready"
        /\ h.ctx = [c \in Ctx |-> IF c = Root THEN y ELSE v.ctx[c]]
    BY <1>3, <2>1, CoreIs, FailRootChanges
  <2>3. /\ HasFields(y, CtxFields) /\ y.canUnwind = v.ctx[Root].canUnwind /\ y.onStack = FALSE /\ y.live = v.ctx[Root].live
        /\ y.finished = v.ctx[Root].finished
    BY ONLY <2>1, CtxUpdates
  <2> HIDE DEF h, y
  <2>4. v.cur = Root
    BY <1>3, TopTask, RootOnTop DEF Kinds, Core, FramesOK, Bottom
  <2>5. h.ctx[Root] = y /\ h.ctx = [c \in Ctx |-> h.ctx[c]] /\ \A c \in Ctx : c # Root => h.ctx[c] = v.ctx[c]
    BY <2>2, SizesAre
  <2>6. Resting(h) /\ h.rootFinished = v.rootFinished
    BY <2>2 DEF Resting, Same, VmFields
  <2>7. h.ctx[Root].finished \in BOOLEAN /\ (h.rootFinished => h.ctx[Root].finished) /\ h.rootFinished \in BOOLEAN
    BY <2>3, <2>5, <2>6, RootCtxIs
  <2> QED  BY <2>2, <2>3, <2>4, <2>5, <2>6, <2>7, EmptyKeeps DEF h
<1> QED  BY <1>1, <1>2, <1>3

\* Only the domain changes.
LEMMA NewDomain ==
  ASSUME NEW v, Core(v), v.frames # <<>>, NEW h, Same(v, h, {"dom"}), h.dom = IF Top(v).act = "run" THEN 0 ELSE 1
  PROVE  TaskInv(h) /\ h.frames = v.frames /\ Top(h) = Top(v)
<1>1. /\ h.frames = v.frames /\ h.nctx = v.nctx /\ h.ctx = v.ctx /\ h.cur = v.cur /\ h.thisTask = v.thisTask
      /\ h.cmdUnwind = v.cmdUnwind /\ h.status = v.status /\ h.rootFinished = v.rootFinished /\ h.err = v.err
      /\ HasFields(h, VmFields)
  BY DEF Same, VmFields
<1>2. h.dom \in Nat
  OBVIOUS
<1>3. Core(h)
  BY <1>1, <1>2 DEF Core, WellTyped, Contexts68, Turn, Command, Resting
<1>4. Domain(h)
  BY <1>1, TopTask DEF Domain
<1> QED  BY <1>1, <1>3, <1>4 DEF TaskInv, Top

LEMMA OneFrameOK ==
  ASSUME NEW f \in TaskFrame, f.c = Root, (f.kind = "root" /\ f.act = "run") \/ (f.kind = "after" /\ f.act = "sweep"),
         NEW n, NEW marked
  PROVE  /\ <<f>> \in Seq(TaskFrame) /\ <<f>> # <<>> /\ Len(<<f>>) = 1 /\ <<f>>[1] = f /\ FramesOK(<<f>>, n, marked)
         /\ \A c : ~HasChild(<<f>>, c)
<1> DEFINE q == <<f>>
<1>1. q \in Seq(TaskFrame) /\ q # <<>> /\ Len(q) = 1 /\ q[1] = f
  OBVIOUS
<1> HIDE DEF q
<1>2. \A k \in 1 .. Len(q) : k = 1 /\ q[k] = f
  BY <1>1
<1>3. Bottom(q) /\ Joints(q)
  BY <1>1 DEF Bottom, Joints
<1>4. Work(q, n, marked)
  BY <1>1, <1>2 DEF Work, Doing
<1>5. Layered(q) /\ Distinct(q)
  <2>1. \A k \in 1 .. Len(q) : q[k].c = Root /\ q[k].kind # "child"
    BY <1>2
  <2>2. \A k \in 1 .. Len(q) : \A j \in 1 .. k : q[j].c = Root
    BY <1>1, <1>2
  <2> QED  BY <2>1, <2>2 DEF Layered, Distinct
<1>6. \A c : ~HasChild(q, c)
  BY <1>2 DEF HasChild
<1> QED  BY <1>1, <1>3, <1>4, <1>5, <1>6 DEF FramesOK, q

\* emu68k_run_quantum is entered.
LEMMA StartKeeps ==
  ASSUME NEW v, Core(v), v.status = "ready"
  PROVE  TaskInv(StartQuantum(v))
<1>1. v.frames = <<>> /\ v.err = FALSE /\ (~v.rootFinished => v.dom = 0 /\ ~v.cmdUnwind) /\ v.cur = Root /\ v.thisTask = Root
  BY CoreIs DEF Core, Resting, Turn
<1>2. \A c \in Ctx : v.ctx[c].canUnwind = FALSE
  <2>1. \A k : k \notin 1 .. Len(v.frames)
    BY <1>1
  <2> QED  BY <2>1 DEF Core, Contexts68, WellTyped, TypedCtx, HasChild
<1> DEFINE h == StartQuantum(v)
           f == IF v.rootFinished THEN [Frame(Root, "after", v.dom) EXCEPT !.act = "sweep"] ELSE Frame(Root, "root", v.dom)
           b == v.nctx > 0
           y == IF v.rootFinished THEN v.ctx[Root] ELSE [v.ctx[Root] EXCEPT !.onStack = b]
<1>3. /\ Same(v, h, {"eng", "poll", "status", "frames", "ctx"}) /\ h.status = "running" /\ h.frames = <<f>>
      /\ h.ctx = [c \in Ctx |-> IF c = Root THEN y ELSE v.ctx[c]]
  <2>1. IF v.rootFinished
          THEN /\ Same(v, h, {"eng", "poll", "status", "frames"}) /\ h.status = "running" /\ h.frames = <<f>>
          ELSE /\ Same(v, h, {"eng", "poll", "status", "frames", "ctx"}) /\ h.status = "running" /\ h.frames = <<f>>
               /\ h.ctx = [c \in Ctx |-> IF c = Root THEN y ELSE v.ctx[c]]
    <3>1. HasFields(v, VmFields) /\ v.ctx = [c \in Ctx |-> v.ctx[c]] /\ HasFields(v.ctx[Root], CtxFields)
      BY CoreIs, RootCtxIs
    <3>2. CASE v.rootFinished
      <4>1. /\ Same(v, h, {"eng", "poll", "status", "frames"}) /\ h.status = "running"
            /\ h.frames = <<[Frame(Root, "after", v.dom) EXCEPT !.act = "sweep"]>>
        BY ONLY <3>1, <3>2, StartChanges
      <4> QED  BY ONLY <3>2, <4>1
    <3>3. CASE ~v.rootFinished
      <4>1. /\ Same(v, h, {"eng", "poll", "status", "frames", "ctx"}) /\ h.status = "running"
            /\ h.frames = <<Frame(Root, "root", v.dom)>>
            /\ h.ctx = [c \in Ctx |-> IF c = Root THEN [v.ctx[Root] EXCEPT !.onStack = v.nctx > 0] ELSE v.ctx[c]]
        BY ONLY <3>1, <3>3, StartChanges
      <4>2. h.frames = <<f>>
        BY ONLY <3>3, <4>1
      <4>3. h.ctx = [c \in Ctx |-> IF c = Root THEN y ELSE v.ctx[c]]
        BY ONLY <3>3, <4>1
      <4> QED  BY ONLY <3>3, <4>1, <4>2, <4>3
    <3> QED  BY <3>2, <3>3
  <2>2. v.rootFinished => h.ctx = v.ctx /\ v.ctx = [c \in Ctx |-> IF c = Root THEN y ELSE v.ctx[c]]
    <3> HIDE DEF h
    <3> QED  BY <2>1, CoreIs DEF Same, VmFields
  <2> HIDE DEF h, f, y
  <2> QED  BY <2>1, <2>2 DEF Same
<1>4. f \in TaskFrame /\ f.c = Root /\ f.act = (IF v.rootFinished THEN "sweep" ELSE "run")
      /\ f.kind = (IF v.rootFinished THEN "after" ELSE "root")
  <2> DEFINE s == v.dom
  <2>1. s \in Nat
    BY CoreIs
  <2> HIDE DEF s
  <2>2. Frame(Root, "root", s) \in TaskFrame /\ [Frame(Root, "after", s) EXCEPT !.act = "sweep"] \in TaskFrame
    BY <2>1, SizesAre DEF Frame, TaskFrame, Kinds, Acts
  <2> QED  BY <2>2 DEF Frame, s
<1>5. /\ HasFields(y, CtxFields) /\ y.canUnwind = v.ctx[Root].canUnwind /\ y.live = v.ctx[Root].live
      /\ y.finished = v.ctx[Root].finished /\ y.onStack \in BOOLEAN
  <2> DEFINE x == v.ctx[Root]
  <2>1. HasFields(x, CtxFields) /\ x.onStack \in BOOLEAN /\ b \in BOOLEAN
    BY RootCtxIs
  <2> HIDE DEF x, b
  <2> QED  BY <2>1 DEF HasFields, CtxFields, x
<1> HIDE DEF h, f, y
<1>6. /\ h.nctx = v.nctx /\ h.dom = v.dom /\ h.cur = Root /\ h.thisTask = Root /\ h.cmdUnwind = v.cmdUnwind
      /\ HasFields(h, VmFields) /\ h.err = FALSE /\ h.rootFinished = v.rootFinished
  BY <1>1, <1>3 DEF Same, VmFields
<1>7. /\ h.frames \in Seq(TaskFrame) /\ h.frames # <<>> /\ Len(h.frames) = 1 /\ h.frames[1] = f
      /\ FramesOK(h.frames, h.nctx, h.ctx[Root].onStack) /\ \A c : ~HasChild(h.frames, c)
  <2>1. (f.kind = "root" /\ f.act = "run") \/ (f.kind = "after" /\ f.act = "sweep")
    BY <1>4
  <2> QED  BY <1>3, <1>4, <2>1, OneFrameOK
<1>8. h.ctx[Root] = y /\ h.ctx = [c \in Ctx |-> h.ctx[c]] /\ \A c \in Ctx : c # Root => h.ctx[c] = v.ctx[c]
  BY <1>3, SizesAre
<1>9. WellTyped(h)
  <2>1. ASSUME NEW c \in Ctx PROVE TypedCtx(h.ctx[c])
    BY <1>5, <1>8, RootCtxIs DEF Core, WellTyped, TypedCtx
  <2> QED  BY <1>6, <1>7, <1>8, <2>1 DEF Core, WellTyped
<1>10. Contexts68(h)
  <2>1. ASSUME NEW c \in Ctx
        PROVE  h.ctx[c].canUnwind = FALSE /\ HasChild(h.frames, c) = FALSE /\ h.ctx[c].live = v.ctx[c].live
    BY <1>2, <1>5, <1>7, <1>8, SizesAre DEF HasChild
  <2>2. h.rootFinished => h.ctx[Root].finished
    BY <1>5, <1>6, <1>8, RootCtxIs
  <2> QED  BY <1>4, <1>6, <1>7, <2>1, <2>2, SizesAre DEF Core, Contexts68
<1>11. Turn(h) /\ Resting(h) /\ Command(h) /\ Domain(h)
  BY <1>1, <1>3, <1>4, <1>6, <1>7 DEF Turn, Resting, Command, Domain
<1> QED  BY <1>7, <1>9, <1>10, <1>11 DEF TaskInv, Core, h

\* A service returns to the guest.
LEMMA ResumeKeeps ==
  ASSUME NEW v, Core(v), v.frames # <<>>, Top(v).kind # "after", v.dom = 1
  PROVE  TaskInv(Resume(v))
<1> DEFINE f == [Top(v) EXCEPT !.act = "run", !.mask = {}, !.next = 0, !.progress = FALSE]
           w == SetTop(v, f)
           h == Resume(v)
<1>1. Top(v) \in TaskFrame
  BY TopTask
<1>2. f \in TaskFrame /\ f.c = Top(v).c /\ f.kind = Top(v).kind /\ f.saved = Top(v).saved /\ f.act = "run"
  <2> DEFINE t == Top(v)
  <2> HIDE DEF t
  <2> QED  BY <1>1 DEF TaskFrame, Acts, t
<1>3. h = [w EXCEPT !.dom = @ - 1]
  BY DEF Resume
<1> HIDE DEF f
<1>4. Core(w) /\ w.frames # <<>> /\ Top(w) = f /\ Same(v, w, {"frames"})
  BY <1>2, SetTopKeeps
<1>5. w.dom = 1
  <2> HIDE DEF w
  <2> QED  BY <1>4 DEF Same, VmFields
<1> HIDE DEF w, h
<1>6. Same(w, h, {"dom"}) /\ h.dom = 0
  BY <1>3, <1>4, <1>5, CoreIs DEF Same, HasFields, VmFields
<1>7. TaskInv(h)
  BY <1>2, <1>4, <1>6, NewDomain
<1> QED  BY <1>7 DEF h

\* A callback or a command is called.
LEMMA CallKeeps ==
  ASSUME NEW v, Core(v), v.frames # <<>>, Top(v).kind # "after", NEW kind \in {"call", "cmd"},
         Top(v).act = "run" \/ (Top(v).act = "hook" /\ kind = "call"), kind = "cmd" => v.cur = Root,
         NEW h, Same(v, h, CallFields), h.dom = 0, h.frames = Append(v.frames, Frame(v.cur, kind, 1)),
         h.cmdUnwind \in BOOLEAN, h.cmdUnwind => v.cmdUnwind \/ kind = "cmd"
  PROVE  TaskInv(h)
<1> DEFINE q == v.frames
           r == h.frames
           g == Frame(v.cur, kind, 1)
<1>1. /\ q \in Seq(TaskFrame) /\ Top(v) = q[Len(q)] /\ Len(q) \in 1 .. Len(q) /\ 1 \in 1 .. Len(q) /\ Len(q) \in Nat
      /\ Top(v).c = v.cur /\ v.cur \in Ctx
  BY TopTask, FramesTyped
<1>2. g \in TaskFrame /\ g.c = v.cur /\ g.kind = kind /\ g.act = "run" /\ g.saved = 1
  <2>1. kind \in Kinds /\ 1 \in Nat
    BY DEF Kinds
  <2> QED  BY <1>1, <2>1, NewFrameIs
<1>3. r = Append(q, g)
  OBVIOUS
<1> HIDE DEF g
<1>4. r \in Seq(TaskFrame) /\ Grown(q, r, g) /\ r # <<>>
  BY <1>1, <1>2, <1>3, AppendIs
<1>5. /\ h.nctx = v.nctx /\ h.ctx = v.ctx /\ h.cur = v.cur /\ h.thisTask = v.thisTask
      /\ h.status = v.status /\ h.rootFinished = v.rootFinished /\ h.err = v.err /\ HasFields(h, VmFields)
  BY DEF Same, VmFields, CallFields
<1>6. Joint(q[Len(q)], g)
  BY <1>1, <1>2 DEF Joint
<1>7. FramesOK(r, h.nctx, h.ctx[Root].onStack)
  <2> DEFINE n == v.nctx
             marked == v.ctx[Root].onStack
  <2>1. FramesOK(q, n, marked)
    BY DEF Core
  <2>2. g.c = Root \/ g.c < n
    BY <1>1, <1>2 DEF Core, FramesOK, Work, Doing
  <2> HIDE DEF q, r, n, marked
  <2>3. FramesOK(r, n, marked)
    BY <1>1, <1>2, <1>4, <1>6, <2>1, <2>2, GrownOK DEF q
  <2> QED  BY <1>5, <2>3 DEF n, marked
<1>8. Len(r) = Len(q) + 1 /\ r[Len(r)] = g /\ (\A k \in 1 .. Len(q) : r[k] = q[k] /\ k \in 1 .. Len(r))
      /\ Len(r) \in 1 .. Len(r) /\ \A k \in 1 .. Len(r) : k # Len(r) => k \in 1 .. Len(q)
  <2> DEFINE p == Len(q)
             s == Len(r)
  <2>1. p \in Nat /\ s = p + 1 /\ r[s] = g /\ \A k \in 1 .. p : r[k] = q[k]
    BY <1>1, <1>4 DEF Grown
  <2> HIDE DEF p, s
  <2>2. s \in 1 .. s /\ (\A k \in 1 .. p : k \in 1 .. s) /\ \A k \in 1 .. s : k # s => k \in 1 .. p
    BY <2>1
  <2> QED  BY <2>1, <2>2 DEF p, s
<1>9. \A c : HasChild(r, c) = HasChild(q, c)
  <2>1. \A k \in 1 .. Len(r) : r[k].kind = "child" => k \in 1 .. Len(q) /\ r[k] = q[k]
    BY <1>2, <1>8
  <2> QED  BY <1>8, <2>1 DEF HasChild
<1>10. (HasCmd(q) => HasCmd(r)) /\ (kind = "cmd" => HasCmd(r))
  BY <1>2, <1>8 DEF HasCmd
<1>11. WellTyped(h)
  BY <1>4, <1>5 DEF Core, WellTyped
<1>12. Contexts68(h)
  <2>1. r[1] = q[1]
    BY <1>1, <1>8
  <2> QED  BY <1>5, <1>9, <2>1 DEF Core, Contexts68
<1>13. Turn(h)
  BY <1>1, <1>2, <1>4, <1>5, <1>8 DEF Core, Turn
<1>14. Command(h) /\ Resting(h)
  BY <1>1, <1>4, <1>5, <1>8, <1>10 DEF Core, Command, Resting
<1>15. Domain(h)
  BY <1>2, <1>8 DEF Domain
<1> QED  BY <1>7, <1>11, <1>12, <1>13, <1>14, <1>15 DEF TaskInv, Core

LEMMA CalledKeeps ==
  ASSUME NEW v, Core(v), v.frames # <<>>, Top(v).kind # "after", Top(v).act \in {"run", "hook"}, NEW hook
  PROVE  TaskInv(Called(v, hook, 1))
<1>1. CASE v.depth = MaxCalls
  BY <1>1, FailTopKeeps DEF Called
<1>2. CASE v.depth # MaxCalls
  <2> DEFINE h == Called(v, hook, 1)
  <2>1. Same(v, h, CallFields) /\ h.dom = 0 /\ h.cmdUnwind = v.cmdUnwind /\ h.frames = Append(v.frames, Frame(v.cur, "call", 1))
    <3>1. CallTells(v, Called(v, hook, 1), "call", 1, v.cmdUnwind)
      BY <1>2, CoreIs, CalledChanges
    <3> QED  BY <3>1 DEF CallTells
  <2> HIDE DEF h
  <2>2. h.cmdUnwind \in BOOLEAN /\ (h.cmdUnwind => v.cmdUnwind)
    BY <2>1 DEF Core, WellTyped
  <2>3. TaskInv(h)
    BY <2>1, <2>2, CallKeeps
  <2> QED  BY <2>3 DEF h
<1> QED  BY <1>1, <1>2

LEMMA RunCommandKeeps ==
  ASSUME NEW v, TaskInv(v), Executing(v), v.cur = Root, NEW h \in RunCommand(v)
  PROVE  TaskInv(h)
<1>1. Core(v) /\ v.frames # <<>> /\ Top(v).act = "run" /\ v.dom = 0 /\ Top(v).kind # "after"
  BY ExecutingIs
<1>2. Same(v, h, CallFields) /\ h.dom = 0 /\ h.cmdUnwind = TRUE /\ h.frames = Append(v.frames, Frame(v.cur, "cmd", v.dom + 1))
  BY <1>1, CoreIs, RunCommandChanges DEF CallTells
<1>3. h.frames = Append(v.frames, Frame(v.cur, "cmd", 1))
  BY <1>1, <1>2
<1> QED  BY <1>1, <1>2, <1>3, CallKeeps

\* More contexts are registered.
LEMMA MoreContexts ==
  ASSUME NEW v, Core(v), v.frames # <<>>, NEW h, Same(v, h, {"ctx", "nctx", "sig", "cur"}), h.cur = v.cur,
         h.nctx \in Nat, v.nctx <= h.nctx, h.nctx <= NCtx, h.ctx = [c \in Ctx |-> h.ctx[c]], h.ctx[Root].live,
         h.ctx[Root].onStack = v.ctx[Root].onStack, h.ctx[Root].finished = v.ctx[Root].finished,
         \A c \in Ctx : /\ TypedCtx(h.ctx[c]) /\ h.ctx[c].canUnwind = v.ctx[c].canUnwind
                        /\ h.ctx[c].canUnwind => h.ctx[c].onStack
                        /\ h.ctx[c].live => c < h.nctx
  PROVE  Core(h) /\ h.frames = v.frames /\ Top(h) = Top(v) /\ h.dom = v.dom /\ h.err = v.err
<1>1. /\ h.frames = v.frames /\ h.dom = v.dom /\ h.cur = v.cur /\ h.thisTask = v.thisTask
      /\ h.cmdUnwind = v.cmdUnwind /\ h.status = v.status /\ h.rootFinished = v.rootFinished /\ h.err = v.err
      /\ HasFields(h, VmFields)
  BY DEF Same, VmFields
<1>2. h.nctx \in 0 .. NCtx
  BY SizesAre
<1>3. FramesOK(h.frames, h.nctx, h.ctx[Root].onStack)
  <2> DEFINE q == v.frames
             n == v.nctx
             m == h.nctx
             marked == v.ctx[Root].onStack
  <2>1. FramesOK(q, n, marked) /\ n \in Nat /\ m \in Nat /\ n <= m /\ q \in Seq(TaskFrame)
    BY CoreIs
  <2> HIDE DEF q, n, m, marked
  <2>2. FramesOK(q, m, marked)
    BY <2>1, MoreOK
  <2> QED  BY <1>1, <2>2 DEF q, m, marked
<1>4. WellTyped(h)
  BY <1>1, <1>2 DEF Core, WellTyped
<1>5. Contexts68(h)
  BY <1>1 DEF Core, Contexts68
<1>6. Turn(h) /\ Command(h) /\ Resting(h)
  BY <1>1 DEF Core, Turn, Command, Resting
<1> QED  BY <1>1, <1>3, <1>4, <1>5, <1>6 DEF Core, Top

LEMMA AdoptKeeps ==
  ASSUME NEW v, TaskInv(v), Executing(v)
  PROVE  TaskInv(Adopt(v)) /\ Executing(Adopt(v)) /\ Adopt(v).nctx > 0
<1>1. Core(v) /\ v.frames # <<>> /\ Top(v).act = "run" /\ v.err = FALSE /\ v.dom = 0 /\ v.nctx \in Nat
  BY ExecutingIs, CoreIs
<1>2. CASE v.nctx > 0
  BY <1>2 DEF Adopt
<1>3. CASE ~(v.nctx > 0)
  <2> DEFINE h == Adopt(v)
             x == v.ctx[Root]
             y == [x EXCEPT !.live = TRUE]
  <2>1. /\ Same(v, h, {"nctx", "cur", "ctx"}) /\ h.nctx = 1 /\ h.cur = Root
        /\ h.ctx = [c \in Ctx |-> IF c = Root THEN y ELSE v.ctx[c]]
    BY <1>1, <1>3, CoreIs, RootCtxIs, AdoptChanges
  <2>2. HasFields(x, CtxFields)
    BY <1>1, RootCtxIs
  <2>3. /\ HasFields(y, CtxFields) /\ y.canUnwind = x.canUnwind /\ y.onStack = x.onStack /\ y.live = TRUE
        /\ y.finished = x.finished
    BY ONLY <2>2, CtxUpdates
  <2> HIDE DEF h, y
  <2>4. v.nctx = 0 /\ v.cur = Root
    <3>1. v.nctx = 0
      BY <1>1, <1>3
    <3>2. Top(v).c = Root \/ Top(v).c < v.nctx
      BY <1>1, TopTask DEF Core, FramesOK, Work, Doing
    <3>3. Top(v).c = v.cur /\ v.cur \in Nat
      BY <1>1, TopTask, SizesAre
    <3> QED  BY <3>1, <3>2, <3>3
  <2>5. /\ Same(v, h, {"ctx", "nctx", "sig", "cur"}) /\ h.cur = v.cur /\ h.nctx \in Nat /\ v.nctx <= h.nctx /\ h.nctx <= NCtx
    BY <2>1, <2>4, SizesAre DEF Same
  <2>6. h.ctx[Root] = y /\ h.ctx = [c \in Ctx |-> h.ctx[c]] /\ \A c \in Ctx : c # Root => h.ctx[c] = v.ctx[c]
    BY <2>1, SizesAre
  <2>7. ASSUME NEW c \in Ctx
        PROVE  /\ TypedCtx(h.ctx[c]) /\ h.ctx[c].canUnwind = v.ctx[c].canUnwind /\ (h.ctx[c].canUnwind => h.ctx[c].onStack)
               /\ h.ctx[c].live => c < h.nctx
    <3>1. /\ TypedCtx(v.ctx[c]) /\ (v.ctx[c].canUnwind => v.ctx[c].onStack)
          /\ v.ctx[c].live => c < v.nctx
      BY <1>1 DEF Core, WellTyped, Contexts68
    <3>2. CASE c = Root
      <4>1. TypedCtx(y)
        BY <2>3, <3>1, <3>2 DEF TypedCtx
      <4> QED  BY <2>1, <2>3, <2>6, <3>1, <3>2, <4>1 DEF Root
    <3>3. CASE c # Root
      <4>1. ~v.ctx[c].live
        BY <2>4, <3>1, SizesAre
      <4> QED  BY <2>6, <3>1, <3>3, <4>1
    <3> QED  BY <3>2, <3>3
  <2>8. Core(h) /\ h.frames = v.frames /\ Top(h) = Top(v) /\ h.dom = v.dom /\ h.err = v.err
    BY <1>1, <2>3, <2>5, <2>6, <2>7, MoreContexts
  <2>9. TaskInv(h)
    BY <1>1, <2>8, TopTask DEF TaskInv, Domain
  <2> QED  BY <1>1, <2>1, <2>8, <2>9 DEF Executing, h
<1> QED  BY <1>2, <1>3

LEMMA NextSlot ==
  ASSUME NEW n \in Nat, n > 0, n < NCtx
  PROVE  n \in Ctx /\ n # Root /\ n + 1 \in Nat /\ n <= n + 1 /\ n + 1 <= NCtx /\ n < n + 1 /\ n \in 1 .. (n + 1) - 1
BY SizesAre DEF Ctx, Root

\* The next slot is filled.
LEMMA NewContextKeeps ==
  ASSUME NEW v, TaskInv(v), Executing(v), v.nctx > 0, v.nctx < NCtx, NEW act \in {"hook", "create"}, NEW message \in BOOLEAN
  PROVE  LET h == NewContext(v, act, message)
         IN  /\ TaskInv(h) /\ h.frames # <<>> /\ Top(h).act = act /\ Top(h).kind # "after" /\ h.dom = 1
             /\ v.nctx \in Ctx /\ v.nctx # Root /\ Absent(h, v.nctx) /\ v.nctx < h.nctx
<1> DEFINE h == NewContext(v, act, message)
           n == v.nctx
           x == [NoContext EXCEPT !.live = TRUE]
           C == [c \in Ctx |-> IF c = n THEN x ELSE v.ctx[c]]
           m == n + 1
           S == h.sig
           u == [v EXCEPT !.ctx = C, !.nctx = m, !.sig = S]
           t == Top(v)
           f == Slot(act, n, message, t)
           w == SetTop(u, f)
<1>1. Core(v) /\ v.frames # <<>> /\ t.act = "run" /\ v.err = FALSE /\ v.dom = 0 /\ t.kind # "after" /\ t \in TaskFrame
  BY ExecutingIs, TopTask
<1>2. n \in Nat /\ n \in Ctx /\ n # Root /\ m \in Nat /\ n <= m /\ m <= NCtx /\ n < m /\ n \in 1 .. m - 1
  BY <1>1, CoreIs, NextSlot
<1>3. /\ Same(v, h, NewFields) /\ h.frames = Append(Front(v.frames), f) /\ h.nctx = m /\ h.dom = v.dom + 1 /\ h.ctx = C
  <2>1. HasFields(v, VmFields) /\ v.ctx = [c \in Ctx |-> v.ctx[c]] /\ v.nctx \in Ctx
    BY <1>1, <1>2, CoreIs
  <2> QED  BY ONLY <2>1, NewContextChanges
<1>4. Same(v, u, {"ctx", "nctx", "sig"}) /\ u.ctx = C /\ u.nctx = m /\ u.sig = h.sig
  <2> HIDE DEF C, m, h
  <2> QED  BY <1>1, CoreIs DEF Same, HasFields, VmFields
<1>5. TypedCtx(x) /\ x.canUnwind = FALSE /\ x.live = TRUE
  BY DEF NoContext, TypedCtx, HasFields, CtxFields
<1>6. /\ f \in TaskFrame /\ f.c = t.c /\ f.kind = t.kind /\ f.saved = t.saved /\ f.act = act /\ f.next = n
  <2> HIDE DEF t, n
  <2> QED  BY <1>1, <1>2 DEF TaskFrame, Acts, Slot
<1> HIDE DEF h, u, x, f, t
<1>7. u.cur = v.cur
  BY <1>4 DEF Same, VmFields
<1>8. \A c \in Ctx : C[c] = IF c = n THEN x ELSE v.ctx[c]
  OBVIOUS
<1>9. u.ctx[Root] = v.ctx[Root] /\ v.ctx[Root].live
  BY <1>1, <1>2, <1>4, <1>8, SizesAre DEF Core, Contexts68
<1>10. \A k \in 1 .. Len(v.frames) : v.frames[k].c # n
  <2>1. ASSUME NEW k \in 1 .. Len(v.frames) PROVE v.frames[k].c # n
    <3>1. v.frames[k].c = Root \/ v.frames[k].c < n
      BY <1>1 DEF Core, FramesOK, Work, Doing
    <3> QED  BY <1>2, <3>1
  <2> QED  BY <2>1
<1>11. ASSUME NEW c \in Ctx
       PROVE  /\ TypedCtx(u.ctx[c]) /\ u.ctx[c].canUnwind = v.ctx[c].canUnwind /\ (u.ctx[c].canUnwind => u.ctx[c].onStack)
              /\ u.ctx[c].live => c < u.nctx
  <2>1. /\ TypedCtx(v.ctx[c]) /\ (v.ctx[c].canUnwind => v.ctx[c].onStack) /\ v.ctx[c].canUnwind = HasChild(v.frames, c)
        /\ v.ctx[c].live => c < n
    BY <1>1 DEF Core, WellTyped, Contexts68
  <2>2. CASE c = n
    <3>1. ~HasChild(v.frames, n)
      BY <1>10 DEF HasChild
    <3>2. v.ctx[c].canUnwind = FALSE
      BY <2>1, <2>2, <3>1 DEF HasChild
    <3> QED  BY <1>2, <1>4, <1>5, <1>8, <2>2, <3>2
  <2>3. CASE c # n
    <3>1. c \in Nat /\ (c < n => c < m)
      BY <1>2, SizesAre
    <3> QED  BY <1>4, <1>8, <2>1, <2>3, <3>1
  <2> QED  BY <2>2, <2>3
<1>12. Core(u) /\ u.frames = v.frames /\ Top(u) = t /\ u.dom = v.dom /\ u.err = v.err
  <2>1. Same(v, u, {"ctx", "nctx", "sig", "cur"})
    BY <1>4 DEF Same
  <2>2. u.ctx = [c \in Ctx |-> u.ctx[c]]
    BY <1>4
  <2> HIDE DEF C, n, m
  <2>3. u.nctx \in Nat /\ n <= u.nctx /\ u.nctx <= NCtx
    BY <1>2, <1>4
  <2> QED  BY <1>1, <1>7, <1>9, <1>11, <2>1, <2>2, <2>3, MoreContexts DEF n, t
<1>13. Absent(u, n)
  BY <1>10, <1>12 DEF Absent
<1>14. Core(w) /\ w.frames # <<>> /\ Top(w) = f /\ Same(u, w, {"frames"}) /\ Absent(w, n)
  <2>1. f.act = "hook" => f.next \in 1 .. u.nctx - 1 /\ Absent(u, f.next)
    BY <1>2, <1>4, <1>6, <1>13
  <2> HIDE DEF n, m, C
  <2> QED  BY <1>1, <1>6, <1>12, <1>13, <2>1, SetTopKeeps
<1>15. w.frames = Append(Front(v.frames), f)
  <2>1. HasFields(u, VmFields)
    BY <1>12, CoreIs
  <2>2. w.frames = Append(Front(u.frames), f)
    BY ONLY <2>1, SetTopChanges
  <2> QED  BY ONLY <1>12, <2>2
<1> HIDE DEF w, C, m, n
<1>16. Same(w, h, {"dom"}) /\ h.dom = 1
  <2>1. h.frames = w.frames /\ HasFields(h, VmFields) /\ h.dom = 1
    BY <1>1, <1>3, <1>15 DEF Same
  <2>2. w.ctx = C /\ w.nctx = m /\ w.sig = h.sig /\ \A z \in VmFields : z \notin {"ctx", "nctx", "sig", "frames"} => w[z] = v[z]
    BY <1>4, <1>14 DEF Same, VmFields
  <2>3. \A z \in VmFields : z \notin NewFields => h[z] = v[z]
    BY <1>3 DEF Same
  <2>4. h.ctx = w.ctx /\ h.nctx = w.nctx
    BY <1>3, <2>2
  <2> QED  BY <2>1, <2>2, <2>3, <2>4 DEF Same, VmFields, NewFields
<1>17. TaskInv(h) /\ h.frames = w.frames /\ Top(h) = Top(w)
  BY <1>6, <1>14, <1>16, NewDomain
<1>18. Absent(h, n)
  BY <1>14, <1>17 DEF Absent
<1> QED  BY <1>1, <1>2, <1>3, <1>6, <1>14, <1>16, <1>17, <1>18 DEF h, n

\* emu68k_add_guest_task_context and its callers.
LEMMA SliceKeeps ==
  ASSUME NEW v, TaskInv(v), Executing(v), v.nctx > 0, v.nctx < NCtx, NEW message \in BOOLEAN
  PROVE  TaskInv(Enter(NewContext(v, "create", message), v.nctx))
<1> DEFINE h == NewContext(v, "create", message)
           n == v.nctx
<1>1. /\ TaskInv(h) /\ h.frames # <<>> /\ Top(h).act = "create" /\ Top(h).kind # "after" /\ h.dom = 1
      /\ n \in Ctx /\ n # Root /\ Absent(h, n) /\ n < h.nctx
  BY NewContextKeeps
<1> HIDE DEF h, n
<1>2. TaskInv(Enter(h, n))
  BY <1>1, EnterKeeps DEF TaskInv
<1> QED  BY <1>2 DEF h, n

LEMMA AddContextKeeps ==
  ASSUME NEW v, TaskInv(v), Executing(v), v.nctx > 0, NEW message \in BOOLEAN, NEW g \in AddContext(v, message)
  PROVE  TaskInv(g)
<1>1. Core(v) /\ v.frames # <<>> /\ Top(v).kind # "after" /\ v.nctx \in Nat
  BY ExecutingIs, CoreIs
<1>2. CASE v.nctx >= NCtx
  BY <1>1, <1>2, FailTopKeeps DEF AddContext
<1>3. CASE ~(v.nctx >= NCtx)
  <2> DEFINE w == NewContext(v, "hook", message)
  <2>1. v.nctx < NCtx
    BY <1>1, <1>3, SizesAre
  <2>2. g = Enter(NewContext(v, "create", message), v.nctx) \/ g = Called(w, TRUE, w.dom)
    BY <1>3 DEF AddContext
  <2>3. TaskInv(w) /\ w.frames # <<>> /\ Top(w).act = "hook" /\ Top(w).kind # "after" /\ w.dom = 1
    BY <2>1, NewContextKeeps
  <2> HIDE DEF w
  <2>4. TaskInv(Called(w, TRUE, w.dom))
    BY <2>3, CalledKeeps DEF TaskInv
  <2> QED  BY <2>1, <2>2, <2>4, SliceKeeps
<1> QED  BY <1>2, <1>3

-----------------------------------------------------------------------------
(* Jumps *)

\* The last frame of its kind exists where one of that kind does.
LEMMA InnermostIs ==
  ASSUME NEW q \in Seq(TaskFrame), NEW kind, \E k \in 1 .. Len(q) : q[k].kind = kind
  PROVE  LET k == Innermost(q, kind)
         IN  k \in 1 .. Len(q) /\ q[k].kind = kind /\ \A j \in 1 .. Len(q) : j > k => q[j].kind # kind
<1> DEFINE n == Len(q)
           R == OpToRel(<, Nat)
           T == {d \in Nat : d <= n /\ n - d \in 1 .. n /\ q[n - d].kind = kind}
<1>1. n \in Nat /\ DOMAIN q = 1 .. n
  OBVIOUS
<1>2. IsWellFoundedOn(R, Nat)
  BY NatLessThanWellFounded
<1> HIDE DEF n
<1>3. \A k \in 1 .. n : n - k \in Nat /\ n - k <= n /\ n - (n - k) = k
  BY <1>1
<1>4. T \subseteq Nat /\ T # {}
  <2>1. PICK k \in 1 .. n : q[k].kind = kind
    BY DEF n
  <2>2. n - k \in T
    BY <1>3, <2>1
  <2> QED  BY <2>2
<1> HIDE DEF R
<1>5. PICK d \in T : \A y \in T : ~(<<y, d>> \in R)
  BY <1>2, <1>4, WFMin
<1> DEFINE k == n - d
<1>6. k \in 1 .. n /\ q[k].kind = kind /\ d \in Nat /\ d <= n
  BY <1>5
<1>7. ASSUME NEW j \in 1 .. n, j > k, q[j].kind = kind PROVE FALSE
  <2>1. n - j \in T
    BY <1>3, <1>7
  <2>2. n - j < d /\ n - j \in Nat
    BY <1>1, <1>6, <1>7
  <2>3. <<n - j, d>> \in R
    BY <1>6, <2>2 DEF R, OpToRel
  <2> QED  BY <1>5, <2>1, <2>3
<1>8. \E m \in DOMAIN q : q[m].kind = kind /\ \A j \in DOMAIN q : j > m => q[j].kind # kind
  BY <1>1, <1>6, <1>7
<1> QED  BY <1>1, <1>8 DEF Innermost, n

\* The frames above one are discarded.
Discard(v, p) == [v EXCEPT !.frames = SubSeq(@, 1, p)]
LEMMA DiscardKeeps ==
  ASSUME NEW v, Core(v), v.frames # <<>>, NEW p \in 1 .. Len(v.frames), v.frames[p].c = v.cur,
         \A j \in 1 .. Len(v.frames) : j > p => v.frames[j].kind # "child",
         v.frames[p].kind = "cmd" \/ \A j \in 1 .. Len(v.frames) : j > p => v.frames[j].kind # "cmd"
  PROVE  LET h == Discard(v, p)
         IN  Core(h) /\ h.frames # <<>> /\ Top(h) = v.frames[p] /\ Same(v, h, {"frames"}) /\ h.frames = SubSeq(v.frames, 1, p)
<1> DEFINE h == Discard(v, p)
           q == v.frames
           r == SubSeq(q, 1, p)
<1>1. q \in Seq(TaskFrame) /\ Len(q) \in Nat /\ p \in Nat /\ p \in 0 .. Len(q) /\ p \in 1 .. p /\ 1 \in 1 .. p
  <2>1. q \in Seq(TaskFrame) /\ Len(q) \in Nat
    BY TopTask
  <2> DEFINE n == Len(q)
  <2>2. n \in Nat /\ p \in 1 .. n
    BY <2>1
  <2> HIDE DEF n
  <2>3. p \in Nat /\ p \in 0 .. n /\ p \in 1 .. p /\ 1 \in 1 .. p
    BY <2>2
  <2> QED  BY <2>1, <2>3 DEF n
<1>2. r \in Seq(TaskFrame) /\ Cut(q, r, p)
  BY <1>1, SubSeqIs
<1> HIDE DEF r
<1>3. Same(v, h, {"frames"}) /\ h.frames = r
  BY CoreIs DEF Discard, Same, HasFields, VmFields, r
<1> HIDE DEF h
<1>4. Len(r) = p /\ (\A k \in 1 .. p : r[k] = q[k] /\ k \in 1 .. Len(q)) /\ r # <<>>
      /\ \A k \in 1 .. Len(q) : k \in 1 .. p \/ k > p
  BY <1>1, <1>2, FramesTyped DEF Cut
<1>5. /\ h.nctx = v.nctx /\ h.ctx = v.ctx /\ h.cur = v.cur /\ h.thisTask = v.thisTask /\ h.cmdUnwind = v.cmdUnwind
      /\ h.status = v.status /\ h.rootFinished = v.rootFinished /\ h.err = v.err /\ h.dom = v.dom /\ HasFields(h, VmFields)
  BY <1>3 DEF Same, VmFields
<1>6. FramesOK(h.frames, h.nctx, h.ctx[Root].onStack)
  <2> DEFINE n == v.nctx
             marked == v.ctx[Root].onStack
  <2>1. FramesOK(q, n, marked)
    BY DEF Core
  <2> HIDE DEF q, n, marked
  <2>2. FramesOK(r, n, marked)
    BY <1>1, <1>2, <2>1, CutOK
  <2> QED  BY <1>3, <1>5, <2>2 DEF n, marked
<1>7. \A c : HasChild(r, c) = HasChild(q, c)
  <2>1. ASSUME NEW c, HasChild(r, c) PROVE HasChild(q, c)
    BY <1>4, <2>1 DEF HasChild
  <2>2. ASSUME NEW c, HasChild(q, c) PROVE HasChild(r, c)
    BY <1>4, <2>2 DEF HasChild
  <2> QED  BY <2>1, <2>2 DEF HasChild
<1>8. HasCmd(q) => HasCmd(r)
  BY <1>1, <1>4 DEF HasCmd
<1>9. WellTyped(h) /\ Resting(h)
  BY <1>2, <1>3, <1>5 DEF Core, WellTyped, Resting
<1>10. Contexts68(h)
  BY <1>1, <1>3, <1>4, <1>5, <1>7 DEF Core, Contexts68
<1>11. Turn(h)
  BY <1>1, <1>3, <1>4, <1>5 DEF Core, Turn
<1>12. Command(h)
  BY <1>1, <1>3, <1>4, <1>5, <1>8 DEF Core, Command
<1>13. Core(h)
  BY <1>6, <1>9, <1>10, <1>11, <1>12 DEF Core
<1>14. Top(h) = q[p]
  BY <1>1, <1>2, <1>3, <1>4, FrontFrame DEF Top
<1> QED  BY <1>3, <1>4, <1>13, <1>14 DEF h, r

\* RemTask and Exit of a context other than the root.
LEMMA UnwindKeeps ==
  ASSUME NEW v, Core(v), v.frames # <<>>, v.ctx[v.cur].canUnwind, v.dom = 0
  PROVE  TaskInv(Unwind(v))
<1> DEFINE q == v.frames
           k == Innermost(q, "child")
           h == Discard(v, k)
           d == IF k = Len(q) THEN v.dom + 1 ELSE 1
<1>1. q \in Seq(TaskFrame) /\ Len(q) \in 1 .. Len(q) /\ Len(q) \in Nat /\ q[Len(q)].c = v.cur /\ v.cur \in Ctx
  BY TopTask
<1>2. HasChild(q, v.cur)
  BY <1>1 DEF Core, Contexts68
<1>3. k \in 1 .. Len(q) /\ q[k].kind = "child" /\ \A j \in 1 .. Len(q) : j > k => q[j].kind # "child"
  <2>1. \E j \in 1 .. Len(q) : q[j].kind = "child"
    BY <1>2 DEF HasChild
  <2> QED  BY <1>1, <2>1, InnermostIs
<1> HIDE DEF k
<1>4. v.cur # Root
  <2>1. Top(v).c = Root => \A j \in 1 .. Len(q) : q[j].kind # "child"
    BY RootOnTop
  <2> QED  BY <1>3, <2>1, TopTask
<1>5. PICK j \in 1 .. Len(q) : Within(q, j, Len(q))
  BY <1>1, <1>4 DEF Core, FramesOK, Layered
<1>6. j = k
  <2>1. ~(j > k)
    BY <1>3, <1>5 DEF Within
  <2>2. ~(k > j)
    <3>1. SUFFICES ASSUME k > j PROVE FALSE
      OBVIOUS
    <3>2. k \in j + 1 .. Len(q)
      BY <1>1, <1>3, <3>1
    <3> QED  BY <1>3, <1>5, <3>2 DEF Within
  <2> QED  BY <1>1, <1>3, <1>5, <2>1, <2>2
<1>7. \A i \in k .. Len(q) : q[i].c = v.cur
  BY <1>1, <1>5, <1>6 DEF Within
<1>8. q[k].c = v.cur
  BY <1>1, <1>3, <1>7
<1>9. \A i \in 1 .. Len(q) : i > k => q[i].kind # "cmd"
  <2>1. ASSUME NEW i \in 1 .. Len(q), i > k, q[i].kind = "cmd" PROVE FALSE
    <3>1. i \in 2 .. Len(q) /\ i \in k .. Len(q)
      BY <1>1, <1>3, <2>1
    <3>2. Joint(q[i - 1], q[i])
      BY <3>1 DEF Core, FramesOK, Joints
    <3> QED  BY <1>4, <1>7, <2>1, <3>1, <3>2 DEF Joint
  <2> QED  BY <2>1
<1>10. Core(h) /\ h.frames # <<>> /\ Top(h) = q[k]
  BY <1>3, <1>8, <1>9, DiscardKeeps
<1>11. d = 1
  OBVIOUS
<1>12. Unwind(v) = Leave(h, d, FALSE)
  BY DEF Unwind, Discard, k
<1> HIDE DEF h, d
<1>13. TaskInv(Leave(h, d, FALSE))
  BY <1>3, <1>10, <1>11, LeaveKeeps
<1> QED  BY <1>12, <1>13

\* dos.Exit of the program while a command is in progress.
LEMMA UnwindCommandKeeps ==
  ASSUME NEW v, TaskInv(v), Executing(v), v.cur = Root, v.cmdUnwind
  PROVE  TaskInv(UnwindCommand(v))
<1> DEFINE q == v.frames
           k == Innermost(q, "cmd")
           h == Discard(v, k)
<1>1. Core(v) /\ q # <<>> /\ Top(v).act = "run"
  BY ExecutingIs
<1>2. q \in Seq(TaskFrame) /\ Len(q) \in 1 .. Len(q) /\ Len(q) \in Nat /\ Top(v) = q[Len(q)] /\ Top(v).c = Root
  BY <1>1, TopTask
<1>3. \A j \in 1 .. Len(q) : q[j].c = Root /\ q[j].kind # "child"
  BY <1>1, <1>2, RootOnTop
<1>4. q[1].kind = "root"
  <2>1. SUFFICES ASSUME q[1].kind = "after" PROVE FALSE
    BY <1>1 DEF Core, FramesOK, Bottom
  <2>2. q[1].act = "sweep"
    BY <1>1, <2>1 DEF Core, FramesOK, Bottom
  <2>3. Len(q) \in 2 .. Len(q) /\ 2 \in 2 .. Len(q) /\ 2 \in 1 .. Len(q) /\ 2 - 1 = 1
    BY <1>1, <1>2, <2>2
  <2>4. Joint(q[1], q[2])
    BY <1>1, <2>3 DEF Core, FramesOK, Joints
  <2> QED  BY <1>3, <2>1, <2>2, <2>3, <2>4 DEF Joint
<1>5. \E j \in 1 .. Len(q) : q[j].kind = "cmd"
  BY <1>1, <1>4 DEF Core, Command, HasCmd
<1>6. k \in 1 .. Len(q) /\ q[k].kind = "cmd"
  BY <1>2, <1>5, InnermostIs
<1> HIDE DEF k
<1>7. Core(h) /\ h.frames # <<>> /\ Top(h) = q[k]
  BY <1>1, <1>3, <1>6, DiscardKeeps
<1>8. UnwindCommand(v) = PopCall(h, FALSE)
  BY DEF UnwindCommand, Discard, k
<1> HIDE DEF h
<1>9. TaskInv(PopCall(h, FALSE))
  BY <1>6, <1>7, PopCallKeeps
<1> QED  BY <1>8, <1>9

-----------------------------------------------------------------------------
(* The services that move no frame *)

MinorFields == {"sig", "mq", "bound", "ops", "kill"}
LEMMA MinorKeeps ==
  ASSUME NEW v, Core(v), NEW h, Same(v, h, MinorFields)
  PROVE  /\ Core(h) /\ h.frames = v.frames /\ Top(h) = Top(v) /\ h.ctx = v.ctx /\ h.cur = v.cur /\ h.err = v.err
         /\ h.dom = v.dom /\ h.nctx = v.nctx /\ (TaskInv(v) => TaskInv(h)) /\ (Executing(v) => Executing(h))
<1>1. /\ h.frames = v.frames /\ h.nctx = v.nctx /\ h.ctx = v.ctx /\ h.cur = v.cur /\ h.thisTask = v.thisTask
      /\ h.cmdUnwind = v.cmdUnwind /\ h.status = v.status /\ h.rootFinished = v.rootFinished /\ h.err = v.err
      /\ h.dom = v.dom /\ HasFields(h, VmFields)
  BY DEF Same, VmFields, MinorFields
<1>2. Core(h)
  BY <1>1 DEF Core, WellTyped, Contexts68, Turn, Command, Resting
<1> QED  BY <1>1, <1>2 DEF TaskInv, Domain, Top, Executing

\* One context is marked in a way that is not about the stack.
Mark(v, t, y) == [v EXCEPT !.ctx = [v.ctx EXCEPT ![t] = y]]
MarkTells(v, h, t, y) ==
  /\ Core(h) /\ h.frames = v.frames /\ Top(h) = Top(v) /\ h.cur = v.cur /\ h.err = v.err /\ h.dom = v.dom
  /\ h.ctx = [v.ctx EXCEPT ![t] = y] /\ h.ctx[t] = y /\ (\A c \in Ctx : c # t => h.ctx[c] = v.ctx[c])
  /\ TaskInv(v) => TaskInv(h)
LEMMA MarkKeeps ==
  ASSUME NEW v, Core(v), NEW t \in Ctx, NEW y, AlikeCtx(v.ctx[t], y)
  PROVE  MarkTells(v, Mark(v, t, y), t, y)
<1> DEFINE C == [v.ctx EXCEPT ![t] = y]
           h == Mark(v, t, y)
<1>1. C[t] = y /\ (\A c \in Ctx : c # t => C[c] = v.ctx[c]) /\ C = [c \in Ctx |-> C[c]]
  BY CoreIs
<1> HIDE DEF C
<1>2. Same(v, h, {"ctx"}) /\ h.ctx = C
  BY CoreIs DEF Mark, Same, HasFields, VmFields, C
<1> HIDE DEF h
<1>3. AlikeTasks(v, h) /\ h.err = v.err /\ h.dom = v.dom /\ h.frames = v.frames /\ h.cur = v.cur
  BY <1>2 DEF AlikeTasks, Same, VmFields
<1>4. \A c \in Ctx : AlikeCtx(v.ctx[c], h.ctx[c])
  <2>1. \A c \in Ctx : AlikeCtx(v.ctx[c], v.ctx[c])
    BY CoreIs, SameCtx
  <2> QED  BY <1>1, <1>2, <2>1
<1>5. Core(h)
  BY <1>1, <1>2, <1>3, <1>4, CoreIs, AlikeKeeps
<1>6. TaskInv(v) => TaskInv(h)
  BY <1>3, <1>5 DEF TaskInv, Domain
<1> QED  BY <1>1, <1>2, <1>3, <1>5, <1>6 DEF Top, h, C, MarkTells

LEMMA MarksAlike ==
  ASSUME NEW v, Core(v), NEW t \in Ctx, NEW b
  PROVE  LET x == v.ctx[t]
         IN  /\ AlikeCtx(x, [x EXCEPT !.forbid = b]) /\ AlikeCtx(x, [x EXCEPT !.blocked = b])
             /\ AlikeCtx(x, [x EXCEPT !.finished = TRUE])
             /\ AlikeCtx(x, [x EXCEPT !.finished = TRUE, !.blocked = b])
<1> DEFINE x == v.ctx[t]
<1>1. HasFields(x, CtxFields) /\ x.finished \in BOOLEAN
  BY DEF Core, WellTyped, TypedCtx
<1> HIDE DEF x
<1> QED  BY <1>1 DEF AlikeCtx, HasFields, CtxFields, x

LEMMA DeliverIs ==
  ASSUME NEW v, Core(v), NEW cs, NEW w \in Deliver(v, cs)
  PROVE  Same(v, w, MinorFields)
<1>1. CASE w = v
  BY <1>1, CoreIs DEF Same
<1>2. CASE w # v
  <2>1. PICK t : w = [v EXCEPT !.mq[t] = @ + 1, !.sig[t] = @ \cup {"port"}]
    BY <1>2 DEF Deliver
  <2> DEFINE M == [v.mq EXCEPT ![t] = @ + 1]
             S == [v.sig EXCEPT ![t] = @ \cup {"port"}]
  <2>2. w = [v EXCEPT !.mq = M, !.sig = S]
    BY <2>1
  <2> HIDE DEF M, S
  <2> QED  BY <2>2, CoreIs DEF Same, HasFields, VmFields, MinorFields
<1> QED  BY <1>1, <1>2

\* Signals, messages, event sources.
LEMMA MessagesKeep ==
  ASSUME NEW v, TaskInv(v), NEW h \in Signal(v) \cup PutMsg(v) \cup GetMsg(v) \cup SetSignal(v) \cup BindEvent(v)
  PROVE  TaskInv(h)
<1>1. Core(v) /\ HasFields(v, VmFields)
  BY CoreIs DEF TaskInv
<1>2. CASE h \in Signal(v)
  <2>1. PICK t : h = [v EXCEPT !.sig[t] = @ \cup {"sig"}]
    BY <1>2 DEF Signal
  <2> DEFINE S == [v.sig EXCEPT ![t] = @ \cup {"sig"}]
  <2>2. h = [v EXCEPT !.sig = S]
    BY <2>1
  <2> HIDE DEF S
  <2>3. Same(v, h, MinorFields)
    BY <1>1, <2>2 DEF Same, HasFields, VmFields, MinorFields
  <2> QED  BY <1>1, <2>3, MinorKeeps
<1>3. CASE h \in PutMsg(v)
  <2>1. PICK t : h = [v EXCEPT !.mq[t] = @ + 1, !.sig[t] = @ \cup {"port"}]
    BY <1>3 DEF PutMsg
  <2> DEFINE M == [v.mq EXCEPT ![t] = @ + 1]
             S == [v.sig EXCEPT ![t] = @ \cup {"port"}]
  <2>2. h = [v EXCEPT !.mq = M, !.sig = S]
    BY <2>1
  <2> HIDE DEF M, S
  <2>3. Same(v, h, MinorFields)
    BY <1>1, <2>2 DEF Same, HasFields, VmFields, MinorFields
  <2> QED  BY <1>1, <2>3, MinorKeeps
<1>4. CASE h \in GetMsg(v)
  <2>1. PICK w \in Deliver(v, {v.cur}) : h = [w EXCEPT !.mq[v.cur] = IF @ = 0 THEN 0 ELSE @ - 1]
    BY <1>4 DEF GetMsg
  <2>2. Same(v, w, MinorFields)
    BY <1>1, DeliverIs
  <2> DEFINE M == [w.mq EXCEPT ![v.cur] = IF @ = 0 THEN 0 ELSE @ - 1]
  <2>3. h = [w EXCEPT !.mq = M]
    BY <2>1
  <2> HIDE DEF M
  <2>4. Same(v, h, MinorFields)
    BY <2>2, <2>3 DEF Same, HasFields, VmFields, MinorFields
  <2> QED  BY <1>1, <2>4, MinorKeeps
<1>5. CASE h \in SetSignal(v)
  <2>1. PICK b : h = [v EXCEPT !.sig[v.cur] = @ \ b]
    BY <1>5 DEF SetSignal
  <2> DEFINE S == [v.sig EXCEPT ![v.cur] = @ \ b]
  <2>2. h = [v EXCEPT !.sig = S]
    BY <2>1
  <2> HIDE DEF S
  <2>3. Same(v, h, MinorFields)
    BY <1>1, <2>2 DEF Same, HasFields, VmFields, MinorFields
  <2> QED  BY <1>1, <2>3, MinorKeeps
<1>6. CASE h \in BindEvent(v)
  <2>1. Same(v, h, MinorFields)
    BY <1>1, <1>6 DEF BindEvent, Same, HasFields, VmFields, MinorFields
  <2> QED  BY <1>1, <2>1, MinorKeeps
<1> QED  BY <1>2, <1>3, <1>4, <1>5, <1>6

LEMMA ForbidKeeps ==
  ASSUME NEW v, TaskInv(v), Executing(v), NEW h \in Forbid(v) \cup Permit(v)
  PROVE  TaskInv(h)
<1> DEFINE t == v.cur
<1>1. Core(v) /\ t \in Ctx
  BY ExecutingIs, TopTask
<1>2. PICK b : h = [v EXCEPT !.ctx[t].forbid = b]
  BY DEF Forbid, Permit
<1> DEFINE y == [v.ctx[t] EXCEPT !.forbid = b]
<1>3. h = Mark(v, t, y)
  BY <1>2 DEF Mark
<1>4. AlikeCtx(v.ctx[t], y)
  BY <1>1, MarksAlike
<1> HIDE DEF t, y
<1> QED  BY <1>1, <1>3, <1>4, MarkKeeps DEF MarkTells

-----------------------------------------------------------------------------
(* The services that give up the turn *)

\* The top frame begins to look for other contexts.
LEMMA WaitingKeeps ==
  ASSUME NEW v, TaskInv(v), Executing(v), NEW f \in TaskFrame,
         f.c = Top(v).c, f.kind = Top(v).kind, f.saved = Top(v).saved, f.act \in {"wait", "sweep"},
         f.act = "wait" => f.c = Root, f.act = "sweep" /\ f.c # Root => v.frames[1].kind = "after" \/ v.ctx[Root].onStack,
         NEW h, h = [SetTop(v, f) EXCEPT !.dom = @ + 1]
  PROVE  TaskInv(h)
<1> DEFINE w == SetTop(v, f)
<1>1. Core(v) /\ v.frames # <<>> /\ v.dom = 0 /\ Top(v).kind # "after"
  BY ExecutingIs
<1>2. Core(w) /\ w.frames # <<>> /\ Top(w) = f /\ Same(v, w, {"frames"})
  BY <1>1, SetTopKeeps
<1>3. h = [w EXCEPT !.dom = @ + 1]
  OBVIOUS
<1> HIDE DEF w
<1>4. w.dom = 0
  BY <1>1, <1>2 DEF Same, VmFields
<1>5. Same(w, h, {"dom"}) /\ h.dom = 1
  <2>1. HasFields(w, VmFields)
    BY <1>2, CoreIs
  <2> QED  BY ONLY <1>3, <1>4, <2>1 DEF Same, HasFields, VmFields
<1> QED  BY <1>2, <1>5, NewDomain

LEMMA WaitKeeps ==
  ASSUME NEW v, TaskInv(v), Executing(v), NEW mask \in SUBSET Bits, NEW h \in Wait(v, mask)
  PROVE  TaskInv(h)
<1> DEFINE c == v.cur
           got == v.sig[c] \cap mask
           y == [v.ctx[c] EXCEPT !.blocked = mask]
           parked == Mark(v, c, y)
           f == [Top(v) EXCEPT !.act = "wait", !.mask = mask]
<1>1. Core(v) /\ v.frames # <<>> /\ v.dom = 0 /\ Top(v).kind # "after" /\ Top(v) \in TaskFrame /\ c \in Ctx /\ Top(v).c = c
  BY ExecutingIs, TopTask
<1>2. CASE got # {}
  <2> DEFINE S == [v.sig EXCEPT ![c] = @ \ got]
  <2>1. h = [v EXCEPT !.sig = S]
    BY <1>2 DEF Wait
  <2> HIDE DEF S
  <2>2. Same(v, h, MinorFields)
    BY <1>1, <2>1, CoreIs DEF Same, HasFields, VmFields, MinorFields
  <2> QED  BY <1>1, <2>2, MinorKeeps
<1>3. CASE got = {} /\ v.ctx[c].canUnwind
  <2>1. h = IF Top(v).kind = "child" THEN LeaveChild(parked, FALSE) ELSE FailTop(parked)
    BY <1>3 DEF Wait, Mark
  <2>2. AlikeCtx(v.ctx[c], y)
    BY <1>1, MarksAlike
  <2> HIDE DEF y
  <2>3. Core(parked) /\ parked.frames = v.frames /\ Top(parked) = Top(v)
    <3>1. MarkTells(v, parked, c, y)
      BY <1>1, <2>2, MarkKeeps
    <3> QED  BY <3>1 DEF MarkTells
  <2> HIDE DEF parked
  <2>4. Top(v).kind = "child" => TaskInv(LeaveChild(parked, FALSE))
    BY <1>1, <2>3, LeaveChildKeeps
  <2>5. TaskInv(FailTop(parked))
    BY <1>1, <2>3, FailTopKeeps
  <2> QED  BY <2>1, <2>4, <2>5
<1>4. CASE got = {} /\ ~v.ctx[c].canUnwind
  <2>1. h = [SetTop(v, f) EXCEPT !.dom = @ + 1]
    BY <1>4 DEF Wait
  <2>2. c = Root
    BY <1>1, <1>4, NoUnwindIsRoot
  <2>3. f \in TaskFrame /\ f.c = Top(v).c /\ f.kind = Top(v).kind /\ f.saved = Top(v).saved /\ f.act = "wait"
    <3> DEFINE t == Top(v)
    <3> HIDE DEF t
    <3> QED  BY <1>1 DEF TaskFrame, Acts, t
  <2> HIDE DEF f
  <2> QED  BY <1>1, <2>1, <2>2, <2>3, WaitingKeeps
<1> QED  BY <1>2, <1>3, <1>4

LEMMA WaitPortKeeps ==
  ASSUME NEW v, TaskInv(v), Executing(v), NEW h \in WaitPort(v)
  PROVE  TaskInv(h)
<1>1. PICK w \in Deliver(v, {v.cur}) : h = w \/ h \in Wait(w, {"port"})
  BY DEF WaitPort
<1>2. Same(v, w, MinorFields)
  BY DeliverIs DEF TaskInv
<1>3. TaskInv(w) /\ Executing(w)
  BY <1>2, MinorKeeps DEF TaskInv
<1> QED  BY <1>1, <1>3, WaitKeeps DEF Bits

\* Reschedule: where the program runs unmarked, only the program itself.
LEMMA RescheduleKeeps ==
  ASSUME NEW v, TaskInv(v), Executing(v), NEW h \in Reschedule(v),
         v.ctx[Root].live /\ ~v.ctx[Root].onStack /\ (\E k \in DOMAIN v.frames : v.frames[k].kind = "root") => v.cur = Root
  PROVE  TaskInv(h)
<1> DEFINE f == [Top(v) EXCEPT !.act = "sweep", !.next = 0]
<1>1. /\ Core(v) /\ v.frames # <<>> /\ v.frames \in Seq(TaskFrame) /\ v.dom = 0 /\ Top(v) \in TaskFrame /\ Top(v).c = v.cur
      /\ v.cur \in Ctx
  BY ExecutingIs, TopTask
<1>2. h = [SetTop(v, f) EXCEPT !.dom = @ + 1]
  BY DEF Reschedule
<1>3. f \in TaskFrame /\ f.c = Top(v).c /\ f.kind = Top(v).kind /\ f.saved = Top(v).saved /\ f.act = "sweep"
  <2> DEFINE t == Top(v)
  <2> HIDE DEF t
  <2> QED  BY <1>1 DEF TaskFrame, Acts, t
<1>4. v.cur # Root => v.frames[1].kind = "after" \/ v.ctx[Root].onStack
  <2>1. SUFFICES ASSUME v.cur # Root, ~v.ctx[Root].onStack PROVE v.frames[1].kind = "after"
    OBVIOUS
  <2>2. v.nctx > 0
    <3>1. Top(v).c = Root \/ Top(v).c < v.nctx
      BY <1>1, TopTask DEF Core, FramesOK, Work, Doing
    <3>2. v.nctx \in Nat /\ v.cur \in Nat
      BY <1>1, CoreIs, SizesAre
    <3> QED  BY <1>1, <2>1, <3>1, <3>2
  <2>3. v.ctx[Root].live
    BY <1>1, <2>2 DEF Core, Contexts68
  <2>4. 1 \in DOMAIN v.frames
    <3>1. DOMAIN v.frames = 1 .. Len(v.frames) /\ 1 \in 1 .. Len(v.frames)
      BY <1>1, FramesTyped
    <3> QED  BY <3>1
  <2>5. v.frames[1].kind # "root"
    BY <2>1, <2>3, <2>4
  <2> QED  BY <1>1, <2>5 DEF Core, FramesOK, Bottom
<1> HIDE DEF f
<1> QED  BY <1>1, <1>2, <1>3, <1>4, WaitingKeeps

\* RemTask, Exit.
LEMMA RemTaskKeeps ==
  ASSUME NEW v, TaskInv(v), Executing(v), NEW h \in RemTask(v)
  PROVE  TaskInv(h)
<1>1. Core(v) /\ v.frames # <<>> /\ v.dom = 0 /\ v.err = FALSE
  BY ExecutingIs
<1>2. PICK t \in Ctx : LET w == [v EXCEPT !.ctx[t].finished = TRUE, !.ctx[t].blocked = {}]
                       IN  h = IF t # v.cur THEN w ELSE IF v.ctx[t].canUnwind THEN Unwind(w) ELSE EndRoot(w)
  BY DEF RemTask
<1> DEFINE y == [v.ctx[t] EXCEPT !.finished = TRUE, !.blocked = {}]
           w == Mark(v, t, y)
<1>3. h = IF t # v.cur THEN w ELSE IF v.ctx[t].canUnwind THEN Unwind(w) ELSE EndRoot(w)
  <2>1. [v EXCEPT !.ctx[t].finished = TRUE, !.ctx[t].blocked = {}] = w
    <3> DEFINE X == v.ctx
    <3>1. X = [c \in Ctx |-> X[c]] /\ HasFields(v, VmFields)
      BY <1>1, CoreIs
    <3>2. [X EXCEPT ![t].finished = TRUE, ![t].blocked = {}] = [X EXCEPT ![t] = [X[t] EXCEPT !.finished = TRUE, !.blocked = {}]]
      <4> HIDE DEF X
      <4> QED  BY <3>1
    <3> QED  BY <3>1, <3>2 DEF Mark, HasFields, VmFields
  <2> QED  BY <1>2, <2>1
<1>4. AlikeCtx(v.ctx[t], y)
  BY <1>1, MarksAlike
<1> HIDE DEF y
<1>5. /\ TaskInv(w) /\ Core(w) /\ w.frames = v.frames /\ w.cur = v.cur /\ w.err = v.err /\ w.dom = v.dom /\ w.ctx[t] = y
  <2>1. MarkTells(v, w, t, y)
    BY <1>1, <1>4, MarkKeeps
  <2> QED  BY <2>1 DEF MarkTells
<1> HIDE DEF w
<1>6. y.canUnwind = v.ctx[t].canUnwind
  BY <1>4 DEF AlikeCtx
<1>7. CASE t # v.cur
  BY <1>3, <1>5, <1>7
<1>8. CASE t = v.cur /\ v.ctx[t].canUnwind
  <2>1. TaskInv(Unwind(w))
    BY <1>1, <1>5, <1>6, <1>8, UnwindKeeps
  <2> QED  BY <1>3, <1>8, <2>1
<1>9. CASE t = v.cur /\ ~v.ctx[t].canUnwind
  <2>1. v.cur = Root
    BY <1>1, <1>9, NoUnwindIsRoot
  <2>2. TaskInv(EndRoot(w))
    BY <1>1, <1>5, <2>1, EndRootKeeps
  <2> QED  BY <1>3, <1>9, <2>2
<1> QED  BY <1>7, <1>8, <1>9

LEMMA FinishIs ==
  ASSUME NEW v, Core(v), v.frames # <<>>
  PROVE  LET w == [v EXCEPT !.ctx[v.cur].finished = TRUE]
         IN  /\ Core(w) /\ w.frames = v.frames /\ w.cur = v.cur /\ w.err = v.err /\ w.dom = v.dom /\ Top(w) = Top(v)
             /\ w.ctx[v.cur].canUnwind = v.ctx[v.cur].canUnwind
<1> DEFINE t == v.cur
           y == [v.ctx[t] EXCEPT !.finished = TRUE]
           w == Mark(v, t, y)
<1>1. t \in Ctx
  BY TopTask
<1>2. AlikeCtx(v.ctx[t], y)
  BY <1>1, MarksAlike
<1>3. [v EXCEPT !.ctx[v.cur].finished = TRUE] = w
  BY DEF Mark
<1> HIDE DEF y, t
<1>4. Core(w) /\ w.frames = v.frames /\ w.cur = v.cur /\ w.err = v.err /\ w.dom = v.dom /\ Top(w) = Top(v) /\ w.ctx[t] = y
  <2>1. MarkTells(v, w, t, y)
    BY <1>1, <1>2, MarkKeeps
  <2> QED  BY <2>1 DEF MarkTells
<1> HIDE DEF w
<1>5. y.canUnwind = v.ctx[t].canUnwind
  BY <1>2 DEF AlikeCtx
<1> QED  BY <1>3, <1>4, <1>5 DEF t

LEMMA ExitKeeps ==
  ASSUME NEW v, TaskInv(v), Executing(v), v.cur = Root, NEW h \in Exit(v)
  PROVE  TaskInv(h)
<1>1. Core(v) /\ v.frames # <<>> /\ v.dom = 0 /\ v.err = FALSE /\ Top(v).kind # "after"
  BY ExecutingIs
<1>2. CASE v.cmdUnwind
  BY <1>2, UnwindCommandKeeps DEF Exit
<1>3. CASE ~v.cmdUnwind /\ v.ctx[v.cur].canUnwind
  <2> DEFINE w == [v EXCEPT !.ctx[v.cur].finished = TRUE]
  <2>1. /\ Core(w) /\ w.frames = v.frames /\ w.cur = v.cur /\ w.dom = v.dom
        /\ w.ctx[v.cur].canUnwind = v.ctx[v.cur].canUnwind
    BY <1>1, FinishIs
  <2>2. h = Unwind(w)
    BY <1>3 DEF Exit
  <2> HIDE DEF w
  <2> QED  BY <1>1, <1>3, <2>1, <2>2, UnwindKeeps
<1>4. CASE ~v.cmdUnwind /\ ~v.ctx[v.cur].canUnwind
  <2>1. h = EndRoot(v) \/ h = FailTop(v)
    BY <1>4 DEF Exit
  <2> QED  BY <1>1, <2>1, EndRootKeeps, FailTopKeeps
<1> QED  BY <1>2, <1>3, <1>4

\* AddTask, NewCreateTask and CreateNewProc.
LEMMA TasksKeep ==
  ASSUME NEW v, TaskInv(v), Executing(v), NEW h \in AddTask(v) \cup NewCreateTask(v) \cup CreateNewProc(v)
  PROVE  TaskInv(h)
<1> DEFINE a == Adopt(v)
<1>1. TaskInv(a) /\ Executing(a) /\ a.nctx > 0
  BY AdoptKeeps
<1>2. h \in AddTask(v) => h \in AddContext(a, FALSE)
  BY DEF AddTask
<1>3. h \in NewCreateTask(v) => h = FailTop(v) \/ \E m \in BOOLEAN : h \in AddContext(a, m)
  BY DEF NewCreateTask
<1>4. h \in CreateNewProc(v) => h = FailTop(a) \/ (~(a.nctx >= NCtx) /\ h = Enter(NewContext(a, "create", FALSE), a.nctx))
  BY DEF CreateNewProc
<1> HIDE DEF a
<1>5. TaskInv(FailTop(v)) /\ TaskInv(FailTop(a))
  BY <1>1, ExecutingIs, FailTopKeeps
<1>6. ~(a.nctx >= NCtx) => a.nctx < NCtx
  <2>1. a.nctx \in Nat /\ NCtx \in Nat
    BY <1>1, CoreIs, SizesAre DEF TaskInv
  <2> QED  BY <2>1
<1> QED  BY <1>1, <1>2, <1>3, <1>4, <1>5, <1>6, AddContextKeeps, SliceKeeps

-----------------------------------------------------------------------------
(* The services go on *)

\* A service in progress: what it knows of the state.
LEMMA ServingIs ==
  ASSUME NEW v, TaskInv(v), v.frames # <<>>, ~Executing(v)
  PROVE  /\ Core(v) /\ Top(v) \in TaskFrame /\ Top(v).c = v.cur /\ v.cur \in Ctx /\ v.err \in BOOLEAN
         /\ ~v.err => Top(v).act # "run"
         /\ Top(v).act # "run" /\ Top(v).kind # "after" => v.dom = 1
         /\ Top(v).act = "sweep" /\ Top(v).c # Root => v.frames[1].kind = "after" \/ v.ctx[Root].onStack
         /\ Top(v).act = "wait" => Top(v).c = Root
         /\ Top(v).act = "hook" => Top(v).next \in 1 .. v.nctx - 1 /\ Absent(v, Top(v).next)
         /\ Top(v).act # "sweep" => Top(v).kind # "after"
<1>1. Core(v) /\ v.err \in BOOLEAN
  BY CoreIs DEF TaskInv
<1>2. /\ v.frames \in Seq(TaskFrame) /\ Top(v) = v.frames[Len(v.frames)] /\ Top(v) \in TaskFrame /\ Top(v).c = v.cur
      /\ v.cur \in Ctx /\ Len(v.frames) \in 1 .. Len(v.frames)
  BY <1>1, TopTask
<1>3. Doing(v.frames, Len(v.frames), v.nctx, v.ctx[Root].onStack)
  BY <1>1, <1>2 DEF Core, FramesOK, Work
<1>4. Top(v).act # "run" /\ Top(v).kind # "after" => v.dom = 1
  BY <1>2 DEF TaskInv, Domain
<1>5. Top(v).act # "sweep" => Top(v).kind # "after"
  BY <1>1, RootOnTop
<1>6. ~v.err => Top(v).act # "run"
  BY DEF Executing
<1>7. Top(v).act = "hook" => Absent(v, Top(v).next)
  BY <1>2, <1>3 DEF Doing, Absent
<1> QED  BY <1>1, <1>2, <1>3, <1>4, <1>5, <1>6, <1>7 DEF Doing

\* The top frame moves on to the next context, or begins another sweep.
Moved(v, w, f) ==
  /\ f \in TaskFrame /\ f.c = Top(w).c /\ f.kind = Top(w).kind /\ f.saved = Top(w).saved
  /\ f.act = Top(w).act \/ (Top(w).act = "wait" /\ f.act = "sweep")
  /\ Same(v, w, MinorFields)
LEMMA MoveKeeps ==
  ASSUME NEW v, TaskInv(v), v.frames # <<>>, ~Executing(v), Top(v).act \in {"wait", "sweep"}, NEW w, NEW f, Moved(v, w, f)
  PROVE  /\ TaskInv(SetTop(w, f))
         /\ \A i \in Ctx : /\ Absent(v, i) /\ i # Root /\ i < v.nctx
                           => TaskInv(Enter(SetTop(w, f), i))
<1>1. /\ Core(v) /\ v.cur \in Ctx
      /\ Top(v).act # "run" /\ Top(v).kind # "after" => v.dom = 1
      /\ Top(v).act = "sweep" /\ Top(v).c # Root => v.frames[1].kind = "after" \/ v.ctx[Root].onStack
      /\ Top(v).act = "wait" => Top(v).c = Root
      /\ Top(v).act # "sweep" => Top(v).kind # "after"
  BY ServingIs
<1>2. /\ Core(w) /\ w.frames = v.frames /\ Top(w) = Top(v) /\ w.ctx = v.ctx /\ w.dom = v.dom /\ w.nctx = v.nctx
      /\ w.err = v.err
  BY <1>1, MinorKeeps DEF Moved
<1> DEFINE h == SetTop(w, f)
<1>3. f.act \in {"wait", "sweep"}
  BY <1>2 DEF Moved
<1>4. /\ Core(h) /\ h.frames # <<>> /\ Top(h) = f /\ Same(w, h, {"frames"}) /\ (\A i : Absent(w, i) => Absent(h, i))
      /\ h.frames[Len(h.frames)] = f
  BY <1>1, <1>2, <1>3, SetTopKeeps DEF Moved
<1> HIDE DEF h
<1>5. h.dom = v.dom /\ h.nctx = v.nctx /\ h.ctx = v.ctx /\ h.err = v.err
  BY <1>2, <1>4 DEF Same, VmFields
<1>6. f.kind # "after" => h.dom = 1
  BY <1>1, <1>2, <1>5 DEF Moved
<1>7. TaskInv(h)
  BY <1>3, <1>4, <1>6 DEF TaskInv, Domain
<1>8. ASSUME NEW i \in Ctx, Absent(v, i), i # Root, i < v.nctx PROVE TaskInv(Enter(h, i))
  <2>1. Absent(h, i)
    BY <1>2, <1>4, <1>8 DEF Absent
  <2> QED  BY <1>3, <1>4, <1>5, <1>6, <1>8, <2>1, EnterKeeps
<1> QED  BY <1>7, <1>8 DEF h

LEMMA CandidateIs ==
  ASSUME NEW v, TaskInv(v), v.frames # <<>>, ~Executing(v), Top(v).act \in {"wait", "sweep"}, NEW i \in Ctx, Candidate(v, i)
  PROVE  Absent(v, i) /\ i # Root /\ i < v.nctx /\ i + 1 \in Nat
<1>1. Core(v)
  BY DEF TaskInv
<1>2. v.ctx[i].live
  BY DEF Candidate
<1> QED  BY <1>1, <1>2, CandidateAbsent, SizesAre DEF Core, Contexts68

LEMMA ResumeMinor ==
  ASSUME NEW v, TaskInv(v), v.frames # <<>>, Top(v).act # "run", Top(v).kind # "after", NEW w, Same(v, w, MinorFields)
  PROVE  TaskInv(Resume(w))
<1>1. Core(v) /\ v.dom = 1
  BY TopTask DEF TaskInv, Domain
<1>2. Core(w) /\ w.frames = v.frames /\ Top(w) = Top(v) /\ w.dom = v.dom
  BY <1>1, MinorKeeps
<1> QED  BY <1>1, <1>2, ResumeKeeps

LEMMA TakeKeeps ==
  ASSUME NEW v, TaskInv(v), v.frames # <<>>, Top(v).act # "run", Top(v).kind # "after"
  PROVE  TaskInv(Take(v))
<1> DEFINE S == [v.sig EXCEPT ![v.cur] = @ \ Top(v).mask]
           w == [v EXCEPT !.sig = S]
<1>1. Take(v) = Resume(w)
  BY DEF Take
<1>2. Same(v, w, MinorFields)
  <2>1. HasFields(v, VmFields)
    BY CoreIs DEF TaskInv
  <2> HIDE DEF S
  <2> QED  BY <2>1 DEF Same, HasFields, VmFields, MinorFields
<1> HIDE DEF w
<1> QED  BY <1>1, <1>2, ResumeMinor

\* The least context of those that are left.
LEMMA LeastIs ==
  ASSUME NEW S, S \subseteq Ctx, S # {}
  PROVE  (CHOOSE j \in S : \A k \in S : j <= k) \in S
<1> DEFINE R == OpToRel(<, Nat)
<1>1. IsWellFoundedOn(R, Nat)
  BY NatLessThanWellFounded
<1>2. \A x, y \in Nat : y < x => <<y, x>> \in R
  BY DEF OpToRel
<1> HIDE DEF R
<1>3. S \subseteq Nat
  BY SizesAre
<1>4. PICK s \in S : \A t \in S : ~(<<t, s>> \in R)
  BY <1>1, <1>3, WFMin
<1>5. ASSUME NEW t \in S PROVE s <= t
  <2>1. ~(t < s) /\ s \in Nat /\ t \in Nat
    BY <1>2, <1>3, <1>4
  <2> QED  BY <2>1
<1> QED  BY <1>5

LEMMA WaitStepKeeps ==
  ASSUME NEW v, TaskInv(v), v.frames # <<>>, ~Executing(v), ~v.err, Top(v).act = "wait", NEW h \in WaitStep(v)
  PROVE  TaskInv(h)
<1> DEFINE f == Top(v)
           runnable == {i \in Ctx : /\ i >= f.next /\ Candidate(v, i)
                                    /\ v.ctx[i].blocked # {} => Pending(v, i) # {}}
           i == CHOOSE j \in runnable : \A k \in runnable : j <= k
           f1 == [f EXCEPT !.next = i + 1, !.progress = TRUE]
           f2 == [f EXCEPT !.next = 0, !.progress = FALSE]
           f3 == [f EXCEPT !.act = "sweep", !.next = 0]
<1>1. Core(v) /\ f \in TaskFrame /\ f.act # "sweep" /\ f.kind # "after" /\ Same(v, v, MinorFields)
  <2>1. Core(v) /\ f \in TaskFrame /\ f.act # "sweep" /\ f.kind # "after"
    BY ServingIs
  <2> QED  BY <2>1, CoreIs DEF Same
<1>2. \/ h = Take(v)
      \/ runnable # {} /\ h = Enter(SetTop(v, f1), i)
      \/ h = SetTop(v, f2)
      \/ \E w \in Deliver(v, Ctx) : h = SetTop(w, f3)
  BY DEF WaitStep
<1>3. CASE h = Take(v)
  BY <1>1, <1>3, TakeKeeps
<1>4. CASE runnable # {} /\ h = Enter(SetTop(v, f1), i)
  <2>1. i \in runnable
    <3>1. runnable \subseteq Ctx
      OBVIOUS
    <3> HIDE DEF runnable
    <3> QED  BY <1>4, <3>1, LeastIs
  <2>2. i \in Ctx /\ Candidate(v, i)
    BY <2>1
  <2> HIDE DEF i, runnable
  <2>3. Absent(v, i) /\ i # Root /\ i < v.nctx /\ i + 1 \in Nat
    BY <2>2, CandidateIs
  <2>4. Moved(v, v, f1)
    BY <1>1, <2>3 DEF Moved, TaskFrame
  <2> QED  BY <1>4, <2>2, <2>3, <2>4, MoveKeeps
<1>5. CASE h = SetTop(v, f2)
  <2>1. Moved(v, v, f2)
    BY <1>1 DEF Moved, TaskFrame
  <2> QED  BY <1>5, <2>1, MoveKeeps
<1>6. ASSUME NEW w \in Deliver(v, Ctx), h = SetTop(w, f3) PROVE TaskInv(h)
  <2>1. Same(v, w, MinorFields)
    BY <1>1, DeliverIs
  <2>2. Top(w) = Top(v)
    BY <1>1, <2>1, MinorKeeps
  <2>3. Moved(v, w, f3)
    BY <1>1, <2>1, <2>2 DEF Moved, TaskFrame, Acts
  <2> QED  BY <1>6, <2>3, MoveKeeps
<1> QED  BY <1>2, <1>3, <1>4, <1>5, <1>6

LEMMA EndSweepKeeps ==
  ASSUME NEW v, TaskInv(v), v.frames # <<>>, ~Executing(v), ~v.err, Top(v).act = "sweep", NEW h \in EndSweep(v)
  PROVE  TaskInv(h)
<1> DEFINE f == Top(v)
           f1 == [f EXCEPT !.next = 0]
<1>1. Core(v) /\ f \in TaskFrame
  BY ServingIs
<1>2. CASE f.kind = "after"
  BY <1>1, <1>2, EndAfterKeeps DEF EndSweep
<1>3. CASE f.kind # "after"
  <2>1. \/ \E w \in Deliver(v, Ctx) : h = Resume(w)
        \/ h = Take(v)
        \/ h = FailTop(v)
        \/ \E w \in Deliver(v, Ctx) : h = SetTop(w, f1)
    BY <1>3 DEF EndSweep
  <2>2. ASSUME NEW w \in Deliver(v, Ctx), h = Resume(w) PROVE TaskInv(h)
    <3>1. Same(v, w, MinorFields)
      BY <1>1, DeliverIs
    <3> QED  BY <1>3, <2>2, <3>1, ResumeMinor
  <2>3. ASSUME NEW w \in Deliver(v, Ctx), h = SetTop(w, f1) PROVE TaskInv(h)
    <3>1. Same(v, w, MinorFields)
      BY <1>1, DeliverIs
    <3>2. Top(w) = Top(v)
      BY <1>1, <3>1, MinorKeeps
    <3>3. Moved(v, w, f1)
      BY <1>1, <3>1, <3>2 DEF Moved, TaskFrame
    <3> QED  BY <2>3, <3>3, MoveKeeps
  <2> QED  BY <1>1, <1>3, <2>1, <2>2, <2>3, TakeKeeps, FailTopKeeps
<1> QED  BY <1>2, <1>3

LEMMA SweepStepKeeps ==
  ASSUME NEW v, TaskInv(v), v.frames # <<>>, ~Executing(v), ~v.err, Top(v).act = "sweep", NEW h \in SweepStep(v)
  PROVE  TaskInv(h)
<1> DEFINE f == Top(v)
           left == {i \in Ctx : i >= f.next /\ Candidate(v, i)}
           i == CHOOSE j \in left : \A k \in left : j <= k
           past == [f EXCEPT !.next = i + 1]
<1>1. Core(v) /\ f \in TaskFrame /\ Same(v, v, MinorFields)
  <2>1. Core(v) /\ f \in TaskFrame
    BY ServingIs
  <2> QED  BY <2>1, CoreIs DEF Same
<1>2. CASE left = {}
  BY <1>2, EndSweepKeeps DEF SweepStep
<1>3. CASE left # {}
  <2>1. i \in left
    <3>1. left \subseteq Ctx
      OBVIOUS
    <3> HIDE DEF left
    <3> QED  BY <1>3, <3>1, LeastIs
  <2>2. i \in Ctx /\ Candidate(v, i)
    BY <2>1
  <2>3. PICK w : w \in Deliver(v, {i}) \cup {v} /\ (h = SetTop(w, past) \/ h = Enter(SetTop(w, past), i))
    BY <1>3 DEF SweepStep
  <2> HIDE DEF i, left
  <2>4. Absent(v, i) /\ i # Root /\ i < v.nctx /\ i + 1 \in Nat
    BY <2>2, CandidateIs
  <2>5. Same(v, w, MinorFields)
    BY <1>1, <2>3, DeliverIs
  <2>6. Top(w) = Top(v)
    BY <1>1, <2>5, MinorKeeps
  <2>7. Moved(v, w, past)
    BY <1>1, <2>4, <2>5, <2>6 DEF Moved, TaskFrame
  <2> HIDE DEF past
  <2> QED  BY <2>2, <2>3, <2>4, <2>7, MoveKeeps
<1> QED  BY <1>2, <1>3

LEMMA HandleErrorKeeps ==
  ASSUME NEW v, TaskInv(v), v.frames # <<>>, ~Executing(v), v.err
  PROVE  TaskInv(HandleError(v))
<1> DEFINE f == Top(v)
           t == f.next - 1
           C == [v.ctx EXCEPT ![t].finished = TRUE, ![t].blocked = {}]
           h == [v EXCEPT !.err = FALSE, !.ctx = C]
<1>1. Core(v) /\ f.act # "run" /\ f.kind # "after" => v.dom = 1
  BY ServingIs
<1>2. Core(v)
  BY DEF TaskInv
<1>3. CASE f.act = "sweep" /\ f.next > 0 /\ ~v.ctx[t].forbid
  <2>1. HandleError(v) = h
    BY <1>3 DEF HandleError
  <2>2. C = [c \in Ctx |-> C[c]] /\ \A c \in Ctx : AlikeCtx(v.ctx[c], C[c])
    <3> DEFINE X == v.ctx
    <3>1. X = [c \in Ctx |-> X[c]] /\ \A c \in Ctx : HasFields(X[c], CtxFields) /\ X[c].finished \in BOOLEAN
      BY <1>2 DEF Core, WellTyped, TypedCtx
    <3> HIDE DEF X, t
    <3>2. C = [c \in Ctx |-> IF c = t THEN [X[c] EXCEPT !.finished = TRUE, !.blocked = {}] ELSE X[c]]
      BY <3>1 DEF X
    <3>3. \A c \in Ctx : /\ AlikeCtx(X[c], X[c])
                         /\ AlikeCtx(X[c], [X[c] EXCEPT !.finished = TRUE, !.blocked = {}])
      BY <3>1 DEF AlikeCtx, HasFields, CtxFields
    <3> HIDE DEF C
    <3> QED  BY <3>2, <3>3 DEF X
  <2> HIDE DEF C
  <2>3. Same(v, h, {"err", "ctx"}) /\ h.err = FALSE /\ h.ctx = C
    BY <1>2, CoreIs DEF Same, HasFields, VmFields
  <2> HIDE DEF h
  <2>4. AlikeTasks(v, h) /\ h.dom = v.dom /\ h.frames = v.frames
    BY <2>3 DEF AlikeTasks, Same, VmFields
  <2>5. v.status # "ready"
    BY <1>2 DEF Core, Resting
  <2>6. Core(h)
    <3>1. h.err \in BOOLEAN /\ (h.err = v.err \/ v.status # "ready")
      BY <2>3, <2>5
    <3> QED  BY <1>2, <2>2, <2>3, <2>4, <3>1, AlikeKeeps
  <2>7. Domain(h)
    BY <1>2, <1>3, <2>4, TopTask DEF TaskInv, Domain
  <2> QED  BY <2>1, <2>6, <2>7 DEF TaskInv
<1>4. CASE ~(f.act = "sweep" /\ f.next > 0 /\ ~v.ctx[t].forbid)
  <2>1. HandleError(v) = IF f.kind = "after" THEN EndAfter(v) ELSE FailTop(v)
    BY <1>4 DEF HandleError
  <2> QED  BY <1>2, <2>1, EndAfterKeeps, FailTopKeeps
<1> QED  BY <1>3, <1>4

\* The prelaunch hook returned, the new context has its first slice.
LEMMA HookedKeeps ==
  ASSUME NEW v, TaskInv(v), v.frames # <<>>, ~Executing(v), ~v.err, Top(v).act = "hook"
  PROVE  TaskInv(Enter(SetTop(v, [Top(v) EXCEPT !.act = "create"]), Top(v).next))
<1> DEFINE f == [Top(v) EXCEPT !.act = "create"]
           i == Top(v).next
           w == SetTop(v, f)
<1>1. /\ Core(v) /\ Top(v) \in TaskFrame /\ v.dom = 1 /\ Top(v).kind # "after" /\ i \in 1 .. v.nctx - 1 /\ Absent(v, i)
  BY ServingIs
<1>2. f \in TaskFrame /\ f.c = Top(v).c /\ f.kind = Top(v).kind /\ f.saved = Top(v).saved /\ f.act = "create"
  <2> DEFINE t == Top(v)
  <2> HIDE DEF t
  <2> QED  BY <1>1 DEF TaskFrame, Acts, t
<1>3. i \in Ctx /\ i # Root /\ i < v.nctx
  <2> DEFINE n == v.nctx
  <2>1. n \in 0 .. NCtx /\ i \in 1 .. n - 1
    BY <1>1 DEF Core, WellTyped
  <2> HIDE DEF n, i
  <2> QED  BY <2>1, SizesAre DEF Ctx, Root, n
<1> HIDE DEF f, i
<1>4. Core(w) /\ w.frames # <<>> /\ Top(w) = f /\ Same(v, w, {"frames"}) /\ Absent(w, i)
  BY <1>1, <1>2, SetTopKeeps
<1> HIDE DEF w
<1>5. w.dom = 1 /\ w.nctx = v.nctx
  BY <1>1, <1>4 DEF Same, VmFields
<1>6. TaskInv(Enter(w, i))
  BY <1>2, <1>3, <1>4, <1>5, EnterKeeps
<1> QED  BY <1>6 DEF w, f, i

LEMMA StartedKeeps ==
  ASSUME NEW v, TaskInv(v), v.frames # <<>>, ~Executing(v), ~v.err, Top(v).act \notin {"wait", "sweep", "hook"},
         NEW h \in Started(v)
  PROVE  TaskInv(h)
<1> DEFINE n == Top(v).next
           M == [v.mq EXCEPT ![n] = @ + 1]
           S == [v.sig EXCEPT ![n] = @ \cup {"port"}]
           w == [v EXCEPT !.mq = M, !.sig = S]
<1>1. Core(v) /\ Top(v).act # "run" /\ Top(v).kind # "after" /\ HasFields(v, VmFields)
  BY ServingIs, CoreIs
<1>2. h = Resume(v) \/ h = Resume(w)
  BY DEF Started
<1>3. Same(v, v, MinorFields)
  BY <1>1 DEF Same
<1>4. Same(v, w, MinorFields)
  <2> HIDE DEF M, S
  <2> QED  BY <1>1 DEF Same, HasFields, VmFields, MinorFields
<1> HIDE DEF w
<1> QED  BY <1>1, <1>2, <1>3, <1>4, ResumeMinor

LEMMA ContinueKeeps ==
  ASSUME NEW v, TaskInv(v), v.frames # <<>>, ~Executing(v), NEW h \in Continue(v)
  PROVE  TaskInv(h)
<1>1. CASE v.err
  BY <1>1, HandleErrorKeeps DEF Continue
<1>2. CASE ~v.err /\ Top(v).act = "wait"
  <2>1. h \in WaitStep(v)
    BY <1>2 DEF Continue
  <2> QED  BY <1>2, <2>1, WaitStepKeeps
<1>3. CASE ~v.err /\ Top(v).act = "sweep"
  <2>1. h \in SweepStep(v)
    BY <1>3 DEF Continue
  <2> QED  BY <1>3, <2>1, SweepStepKeeps
<1>4. CASE ~v.err /\ Top(v).act = "hook"
  <2>1. h = Enter(SetTop(v, [Top(v) EXCEPT !.act = "create"]), Top(v).next)
    BY <1>4 DEF Continue
  <2> QED  BY <1>4, <2>1, HookedKeeps
<1>5. CASE ~v.err /\ Top(v).act \notin {"wait", "sweep", "hook"}
  <2>1. h \in Started(v)
    BY <1>5 DEF Continue
  <2> QED  BY <1>5, <2>1, StartedKeeps
<1> QED  BY <1>1, <1>2, <1>3, <1>4, <1>5

\* Guest code goes on by itself.
LEMMA GuestKeeps ==
  ASSUME NEW v, TaskInv(v), Executing(v), NEW h \in SafePoint(v) \cup Return(v) \cup {FailTop(v)}
  PROVE  TaskInv(h)
<1>1. Core(v) /\ v.frames # <<>> /\ Top(v).kind # "after" /\ Top(v).kind \in Kinds /\ v.err = FALSE
  BY ExecutingIs, TopTask
<1>2. TaskInv(FailTop(v))
  BY <1>1, FailTopKeeps
<1>3. CASE h \in SafePoint(v)
  <2>1. \/ h = FailTop(v)
        \/ Top(v).kind = "root" /\ h = YieldRoot(v)
        \/ Top(v).kind = "child" /\ h = LeaveChild(v, FALSE)
    BY <1>3 DEF SafePoint
  <2> QED  BY <1>1, <1>2, <2>1, YieldRootKeeps, LeaveChildKeeps
<1>4. CASE h \in Return(v)
  <2>1. CASE Top(v).kind = "root"
    <3>1. h = EndRoot(v)
      BY <1>4, <2>1 DEF Return
    <3>2. v.cur = Root
      BY <1>1, <2>1, TopTask, RootOnTop DEF Core, FramesOK, Bottom
    <3> QED  BY <1>1, <3>1, <3>2, EndRootKeeps
  <2>2. CASE Top(v).kind = "child"
    <3> DEFINE w == [v EXCEPT !.ctx[v.cur].finished = TRUE]
    <3>1. h = LeaveChild(w, FALSE)
      BY <1>4, <2>2 DEF Return
    <3>2. Core(w) /\ w.frames = v.frames /\ Top(w) = Top(v)
      BY <1>1, FinishIs
    <3> HIDE DEF w
    <3> QED  BY <1>1, <2>2, <3>1, <3>2, LeaveChildKeeps
  <2>3. CASE Top(v).kind \notin {"root", "child"}
    <3>1. h = PopCall(v, FALSE)
      BY <1>4, <2>3 DEF Return
    <3>2. Top(v).kind \in {"call", "cmd"}
      BY <1>1, <2>3 DEF Kinds
    <3> QED  BY <1>1, <3>1, <3>2, PopCallKeeps
  <2> QED  BY <2>1, <2>2, <2>3
<1> QED  BY <1>2, <1>3, <1>4

-----------------------------------------------------------------------------
(* Every step *)

LEMMA CallGuestKeeps ==
  ASSUME NEW v, TaskInv(v), Executing(v), NEW b, NEW h \in CallGuest(v, b)
  PROVE  TaskInv(h)
<1>1. Core(v) /\ v.frames # <<>> /\ Top(v).act = "run" /\ Top(v).kind # "after" /\ v.dom = 0
  BY ExecutingIs
<1>2. v.dom + 1 = 1
  BY <1>1
<1>3. h = Called(v, b, 1)
  BY <1>2 DEF CallGuest
<1> QED  BY <1>1, <1>3, CalledKeeps

LEMMA CountedKeeps ==
  ASSUME NEW w, TaskInv(w)
  PROVE  TaskInv([w EXCEPT !.ops = @ + 1])
<1> DEFINE n == w.ops + 1
           h == [w EXCEPT !.ops = n]
<1>1. Core(w) /\ HasFields(w, VmFields)
  BY CoreIs DEF TaskInv
<1>2. Same(w, h, MinorFields)
  <2> HIDE DEF n
  <2> QED  BY <1>1 DEF Same, HasFields, VmFields, MinorFields
<1> HIDE DEF n
<1>3. TaskInv(h)
  BY <1>1, <1>2, MinorKeeps
<1> QED  BY <1>3 DEF n

\* The services of one call, where only the program runs commands and no child
\* asks for a sweep while the program is unmarked.
Services(v, h) ==
  \/ h \in AddTask(v) \cup NewCreateTask(v) \cup CreateNewProc(v)
  \/ h \in Signal(v) \cup PutMsg(v) \cup GetMsg(v) \cup SetSignal(v) \cup BindEvent(v)
  \/ h \in Forbid(v) \cup Permit(v)
  \/ h \in Wait(v, {"sig"})
  \/ h \in WaitPort(v)
  \/ h \in RemTask(v)
  \/ v.cur = Root /\ h \in Exit(v)
  \/ \E b \in BOOLEAN : h \in CallGuest(v, b)
  \/ v.cur = Root /\ h \in RunCommand(v)
  \/ /\ h \in Reschedule(v)
     /\ (v.ctx[Root].live /\ ~v.ctx[Root].onStack /\ \E k \in DOMAIN v.frames : v.frames[k].kind = "root") => v.cur = Root

LEMMA ServicesKeep ==
  ASSUME NEW v, TaskInv(v), Executing(v), NEW h, Services(v, h)
  PROVE  TaskInv(h)
<1>1. {"sig"} \in SUBSET Bits
  BY DEF Bits
<1>2. CASE h \in AddTask(v) \cup NewCreateTask(v) \cup CreateNewProc(v)
  BY <1>2, TasksKeep
<1>3. CASE h \in Signal(v) \cup PutMsg(v) \cup GetMsg(v) \cup SetSignal(v) \cup BindEvent(v)
  BY <1>3, MessagesKeep
<1>4. CASE h \in Forbid(v) \cup Permit(v)
  BY <1>4, ForbidKeeps
<1>5. CASE h \in Wait(v, {"sig"})
  BY <1>1, <1>5, WaitKeeps
<1>6. CASE h \in WaitPort(v)
  BY <1>6, WaitPortKeeps
<1>7. CASE h \in RemTask(v)
  BY <1>7, RemTaskKeeps
<1>8. CASE v.cur = Root /\ h \in Exit(v)
  BY <1>8, ExitKeeps
<1>9. CASE \E b \in BOOLEAN : h \in CallGuest(v, b)
  BY <1>9, CallGuestKeeps
<1>10. CASE v.cur = Root /\ h \in RunCommand(v)
  BY <1>10, RunCommandKeeps
<1>11. CASE /\ h \in Reschedule(v)
            /\ (v.ctx[Root].live /\ ~v.ctx[Root].onStack /\ \E k \in DOMAIN v.frames : v.frames[k].kind = "root")
               => v.cur = Root
  BY <1>11, RescheduleKeeps
<1> QED  BY <1>2, <1>3, <1>4, <1>5, <1>6, <1>7, <1>8, <1>9, <1>10, <1>11 DEF Services

LEMMA StartIsOK == TaskInv(Start)
<1> DEFINE x == NoContext
           v == Start
<1>1. TypedCtx(x) /\ x.canUnwind = FALSE /\ x.live = FALSE
  BY DEF NoContext, TypedCtx, HasFields, CtxFields
<1>2. v.ctx = [c \in Ctx |-> x]
  BY DEF Start
<1>3. /\ HasFields(v, VmFields) /\ v.frames = <<>> /\ v.nctx = 0 /\ v.dom = 0 /\ v.err = FALSE /\ v.cmdUnwind = FALSE
      /\ v.rootFinished = FALSE /\ v.status = "ready" /\ v.cur = Root /\ v.thisTask = Root
  BY DEF Start, HasFields, VmFields
<1> HIDE DEF x, v
<1>4. \A c \in Ctx : v.ctx[c] = x
  BY <1>2
<1>5. Len(v.frames) = 0 /\ v.frames \in Seq(TaskFrame)
  BY <1>3
<1>6. \A k : k \notin 1 .. Len(v.frames)
  BY <1>5
<1>7. WellTyped(v)
  <2>1. v.ctx = [c \in Ctx |-> v.ctx[c]]
    BY <1>2
  <2>2. v.nctx \in 0 .. NCtx /\ v.dom \in Nat
    BY <1>3, SizesAre
  <2>3. \A c \in Ctx : TypedCtx(v.ctx[c])
    BY <1>1, <1>4
  <2>4. v.err \in BOOLEAN /\ v.cmdUnwind \in BOOLEAN /\ v.rootFinished \in BOOLEAN
    BY <1>3
  <2> QED  BY <1>3, <1>5, <2>1, <2>2, <2>3, <2>4 DEF WellTyped
<1>8. FramesOK(v.frames, v.nctx, v.ctx[Root].onStack)
  <2>1. Bottom(v.frames) /\ Joints(v.frames)
    BY <1>3, <1>5 DEF Bottom, Joints
  <2>2. Work(v.frames, v.nctx, v.ctx[Root].onStack) /\ Layered(v.frames) /\ Distinct(v.frames)
    BY <1>6 DEF Work, Layered, Distinct
  <2> QED  BY <2>1, <2>2 DEF FramesOK
<1>9. Contexts68(v)
  <2>1. \A c \in Ctx : HasChild(v.frames, c) = FALSE
    BY <1>6 DEF HasChild
  <2>2. \A c \in Ctx : v.ctx[c].canUnwind = FALSE /\ v.ctx[c].live = FALSE
    BY <1>1, <1>4
  <2>3. ~(v.nctx > 0) /\ ~v.rootFinished /\ ~(v.frames # <<>>)
    BY <1>3
  <2> QED  BY <2>1, <2>2, <2>3 DEF Contexts68
<1>10. Turn(v) /\ Command(v) /\ Resting(v) /\ Domain(v)
  BY <1>3 DEF Turn, Command, Resting, Domain
<1> QED  BY <1>7, <1>8, <1>9, <1>10 DEF TaskInv, Core, v

LEMMA TaskStepKeeps ==
  ASSUME FirstSliceYields = FALSE, ChildCommands = FALSE, TaskInv(vm), GuestNext
  PROVE  TaskInv(vm')
<1>1. CASE Guest
  <2>1. Executing(vm) /\ vm' \in SafePoint(vm) \cup Return(vm) \cup {FailTop(vm)}
    BY <1>1 DEF Guest, Go
  <2> QED  BY <2>1, GuestKeeps
<1>2. CASE Call
  <2>1. PICK w : Services(vm, w) /\ vm' = [w EXCEPT !.ops = @ + 1]
    BY <1>2 DEF Call, Do, Services, RootUnmarked
  <2>2. TaskInv(w)
    BY <1>2, <2>1, ServicesKeep DEF Call
  <2> QED  BY <2>1, <2>2, CountedKeeps
<1>3. CASE Service
  <2>1. vm.frames # <<>> /\ ~Executing(vm) /\ vm' \in Continue(vm)
    BY <1>3 DEF Service, Go
  <2> QED  BY <2>1, ContinueKeeps
<1>4. CASE Quantum
  BY <1>4, StartKeeps DEF Quantum, TaskInv
<1>5. CASE Kill
  <2>1. vm' = [vm EXCEPT !.kill = TRUE]
    BY <1>5 DEF Kill
  <2>2. Core(vm) /\ HasFields(vm, VmFields)
    BY CoreIs DEF TaskInv
  <2>3. Same(vm, vm', MinorFields)
    BY <2>1, <2>2 DEF Same, HasFields, VmFields, MinorFields
  <2> QED  BY <2>2, <2>3, MinorKeeps
<1> QED  BY <1>1, <1>2, <1>3, <1>4, <1>5 DEF GuestNext

\* The invariant of the tasks: the frames on the host stack are ordered, each
\* context other than the root has one child frame there, and the domain of the
\* guest is entered and left in pairs, for any number of contexts, messages,
\* callbacks and services (emu68k_run_context_nested and its callers).
THEOREM TasksInvariant ==
  ASSUME FirstSliceYields = FALSE, ChildCommands = FALSE
  PROVE  TasksSpec => []TaskInv(vm)
<1>1. GuestInit => TaskInv(vm)
  BY StartIsOK DEF GuestInit
<1>2. TaskInv(vm) /\ [GuestNext]_vm => TaskInv(vm)'
  <2>1. CASE GuestNext
    BY <2>1, TaskStepKeeps
  <2>2. CASE UNCHANGED vm
    BY <2>2
  <2> QED  BY <2>1, <2>2
<1> QED  BY <1>1, <1>2, PTL DEF TasksSpec

\* Whoever runs, exec names it: FindTask(NULL) and the engine that gets the
\* signals belong to the context of the innermost frame, and its code never
\* runs inside the domain another context entered.
THEOREM CurrentAlwaysAgrees ==
  ASSUME FirstSliceYields = FALSE, ChildCommands = FALSE
  PROVE  TasksSpec => []CurrentAgrees
<1>1. TaskInv(vm) => CurrentAgrees
  <2>1. SUFFICES ASSUME TaskInv(vm), vm.frames # <<>>
                 PROVE  Top(vm).c = vm.cur /\ vm.thisTask = vm.cur /\ (Executing(vm) => vm.dom = 0)
    BY DEF CurrentAgrees
  <2>2. Core(vm)
    BY <2>1 DEF TaskInv
  <2> QED  BY <2>1, <2>2, TopTask, ExecutingIs DEF Core, Turn
<1> QED  BY <1>1, TasksInvariant, PTL

\* No context is on the host stack twice, and one can be unwound exactly while
\* its child frame, the target of the jump, is there (ctx->can_unwind).
THEOREM FramesAlwaysSound ==
  ASSUME FirstSliceYields = FALSE, ChildCommands = FALSE
  PROVE  TasksSpec => []FramesSound
<1>1. TaskInv(vm) => FramesSound
  <2> SUFFICES ASSUME TaskInv(vm) PROVE FramesSound
    OBVIOUS
  <2> DEFINE q == vm.frames
  <2>1. Core(vm) /\ q \in Seq(TaskFrame)
    BY CoreIs DEF TaskInv
  <2>2. DOMAIN q = 1 .. Len(q) /\ Len(q) \in Nat
    BY <2>1
  <2>3. \A c \in Ctx : vm.ctx[c].canUnwind = HasChild(q, c)
    BY <2>1 DEF Core, Contexts68
  <2>4. Joints(q) /\ Bottom(q) /\ Distinct(q)
    BY <2>1 DEF Core, FramesOK
  <2> HIDE DEF q
  <2>5. \A k \in 1 .. Len(q) : /\ q[k].kind = "root" => k = 1 /\ q[k].c = Root
                               /\ q[k].kind = "child" => q[k].c # Root
    <3>1. ASSUME NEW k \in 2 .. Len(q) PROVE q[k].kind # "root" /\ (q[k].kind = "child" => q[k].c # Root)
      BY <2>4 DEF Joints, Joint
    <3>2. ASSUME NEW k \in 1 .. Len(q), k = 1 PROVE q[k].kind # "child" /\ q[k].c = Root
      <4>1. q # <<>>
        BY <2>2
      <4> QED  BY <2>4, <3>2, <4>1 DEF Bottom
    <3>3. \A k \in 1 .. Len(q) : k = 1 \/ k \in 2 .. Len(q)
      BY <2>2
    <3> QED  BY <3>1, <3>2, <3>3
  <2>6. ASSUME NEW j \in 1 .. Len(q), NEW k \in 1 .. Len(q), j # k, {q[j].kind, q[k].kind} \subseteq {"root", "child"}
        PROVE  q[j].c # q[k].c
    <3>1. (q[j].kind = "root" \/ q[j].kind = "child") /\ (q[k].kind = "root" \/ q[k].kind = "child")
      BY <2>6
    <3>2. q[j].kind = "child" /\ q[k].kind = "child" => q[j].c # q[k].c
      BY <2>4, <2>6 DEF Distinct
    <3> QED  BY <2>5, <2>6, <3>1, <3>2
  <2>7. \A c \in Ctx : vm.ctx[c].canUnwind <=> \E k \in DOMAIN q : q[k].kind = "child" /\ q[k].c = c
    BY <2>2, <2>3 DEF HasChild
  <2> QED  BY <2>2, <2>6, <2>7 DEF FramesSound, q
<1> QED  BY <1>1, TasksInvariant, PTL
=============================================================================
