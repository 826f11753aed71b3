----------------------------- MODULE GuestLibs -----------------------------
(***************************************************************************)
(* Guest libraries and segments (src/hosted/emu68k/emu68k_host.c, with     *)
(* OpenLibrary, CloseLibrary and AllocMem of emu68k_exec.c and the hunk    *)
(* loader).  A library found on disk is loaded into the guest's bump heap, *)
(* then its Init, Open and Close vectors run AS GUEST CODE: a trampoline   *)
(* calls the vector and then a private exec vector that does the rest.     *)
(* Between the two anything can happen: the vector may open libraries of   *)
(* its own, and a context may lose its turn to another one.                *)
(*                                                                         *)
(* Memory is a line of cells.  An image, the segments, the trampolines and *)
(* everything AllocMem gave away take cells at the top of one bump heap;   *)
(* "cache" holds the images a context's engine has translated.             *)
(***************************************************************************)
EXTENDS Naturals, Sequences, FiniteSets, SequencesExt

CONSTANTS
  LibContexts,    \* contexts that share the run (each with its own engine)
  LibNames,       \* names of libraries on disk
  LibSlots,       \* GUESTLIB_MAX, counted from 1
  LibOpens,       \* GUESTLIB_OPENS_MAX
  HeapEnd,        \* exec_heap_end: cells of guest memory
  MaxLoads        \* bound on the images loaded in one run

ASSUME GuestLibsAssumption ==
  /\ LibContexts \in Nat \ {0} /\ LibSlots \in Nat \ {0}
  /\ LibOpens \in Nat \ {0} /\ HeapEnd \in Nat /\ MaxLoads \in Nat

VARIABLE gl

Contexts == 1 .. LibContexts
Slots == 1 .. LibSlots
ImageSize == 2      \* hunks, vectors and the two open trampolines

EmptyLib == [name |-> "", state |-> "EMPTY", parent |-> 0, lo |-> 0, hi |-> 0,
             base |-> 0, opens |-> <<>>, close |-> 0, reclaim |-> FALSE,
             closing |-> 0, saved |-> <<>>, id |-> 0]
NoSeg == [live |-> FALSE, lo |-> 0, hi |-> 0, id |-> 0]

LibsInit ==
  gl = [lib |-> [s \in Slots |-> EmptyLib], seg |-> NoSeg, active |-> 0,
        heap |-> 1, given |-> {}, stack |-> [c \in Contexts |-> <<>>],
        known |-> [c \in Contexts |-> {}], cache |-> [c \in Contexts |-> {}],
        loads |-> 0, clobbered |-> FALSE, facades |-> {}, failed |-> FALSE]

\* emu68k_guest_alloc: the exec heap and the loader share one cursor.
Fits(g, n) == g.heap + n <= HeapEnd
Taken(g, n) == [g EXCEPT !.heap = @ + n, !.given = @ \cup {g.heap}]

\* find_guestlib_name: any state but EMPTY and UNLOADED, so FAILED as well.
FindName(g, name) ==
  {s \in Slots : g.lib[s].name = name /\ g.lib[s].state \notin {"EMPTY", "UNLOADED"}}
\* guestlib_owns_base and find_guestlib_base.
Owns(l, base) == base = l.base \/ base \in ToSet(l.opens)
FindBase(g, base) == {s \in Slots : g.lib[s].state = "READY" /\ Owns(g.lib[s], base)}
FreeSlots(g) == {s \in Slots : g.lib[s].state \in {"EMPTY", "UNLOADED"}}
Lowest(S) == CHOOSE s \in S : \A t \in S : s <= t

\* guestlib_save_preserved and guestlib_restore_preserved: the callee-saved
\* registers of the caller wait in the library's slot.
Token(g, c) == <<c, Len(g.stack[c])>>
\* One save area for all libraries.
MutPush(g, c, s, phase) ==
  [g EXCEPT !.lib = [t \in Slots |-> [@[t] EXCEPT !.saved = Token(g, c)]],
            !.stack[c] = Append(@, [slot |-> s, phase |-> phase, regs |-> Token(g, c)])]
Push(g, c, s, phase) ==
  [g EXCEPT !.lib[s].saved = Token(g, c),
            !.stack[c] = Append(@, [slot |-> s, phase |-> phase, regs |-> Token(g, c)])]
Pop(g, c) ==
  LET f == Last(g.stack[c])
  IN  [g EXCEPT !.stack[c] = Front(@),
                !.clobbered = @ \/ g.lib[f.slot].saved # f.regs]
SetPhase(g, c, phase) ==
  [g EXCEPT !.stack[c] = Append(Front(@), [Last(@) EXCEPT !.phase = phase])]

Register(g, c, base) == [g EXCEPT !.known[c] = @ \cup {base}]
Unregister(g, c, bases) == [g EXCEPT !.known[c] = @ \ bases]

-----------------------------------------------------------------------------
\* emu68k_load_guestlib and gl68_find_resident, gl68_prepare_init: find the
\* file, take a slot, load at the top of the heap, look for the resident tag,
\* build the base and the trampolines.  A failure after the slot was taken
\* rolls the heap back and leaves the slot UNLOADED.
Load(g, c, name) ==
  LET s == Lowest(FreeSlots(g))
      loading == [EmptyLib EXCEPT !.name = name, !.state = "LOADING",
                                  !.parent = g.active, !.lo = g.heap,
                                  !.hi = g.heap + ImageSize, !.id = g.loads + 1]
  IN  IF FreeSlots(g) = {} THEN {g}
      ELSE {[g EXCEPT !.lib[s] = [loading EXCEPT !.state = "UNLOADED"]]}
           \cup (IF Fits(g, ImageSize) /\ g.loads < MaxLoads
                   THEN {Push([g EXCEPT !.lib[s] = loading, !.active = s,
                                        !.heap = @ + ImageSize,
                                        !.loads = @ + 1], c, s, "init")}
                   ELSE {})

\* OpenLibrary: an open facade, then a library that is already loaded, then
\* a native library, then the disk.  A library that is being loaded, or that
\* failed, answers zero.
OpenLibrary(g, c, name) ==
  LET found == FindName(g, name)
      s == Lowest(found)
  IN  IF found = {} THEN {g} \cup Load(g, c, name)
      ELSE IF g.lib[s].state = "READY" THEN {g, Push(g, c, s, "open")}
      ELSE {g}

\* emu68k_native_facade_base: one base per name for the whole run.
OpenNative(g, c) ==
  IF g.facades # {} THEN {g}
  ELSE IF Fits(g, 1) THEN {Register([Taken(g, 1) EXCEPT !.facades = {g.heap}], c, g.heap)}
  ELSE {[g EXCEPT !.failed = TRUE]}

\* CloseLibrary: only a base the loader knows runs the Close vector.
CloseLibrary(g, c, base) ==
  LET found == FindBase(g, base)
      s == Lowest(found)
  IN  IF found = {} THEN {g}
      ELSE {[Push(g, c, s, "close") EXCEPT !.lib[s].closing = base]}

\* A library gives up: its base is forgotten and the loader it interrupted
\* is the active one again.
Fail(g, c, s) ==
  [Unregister(g, c, {g.lib[s].base}) EXCEPT !.lib[s].base = 0,
                                            !.lib[s].state = "FAILED",
                                            !.active = g.lib[s].parent]

\* emu68k_guestlib_init_done: Init returned a base or zero.  With a base the
\* Open vector runs next; without one the trampoline falls through to
\* open_done, which answers zero and restores the registers.
InitDone(g, c, ok) ==
  LET s == Last(g.stack[c]).slot
      l == g.lib[s]
      opening == Register([g EXCEPT !.lib[s].base = l.lo, !.lib[s].state = "OPENING"],
                          c, l.lo)
  IN  CASE l.state = "LOADING" /\ ok -> {SetPhase(opening, c, "open")}
        [] l.state = "LOADING" /\ ~ok -> {Pop(Fail(g, c, s), c)}
        [] l.state = "READY" -> {SetPhase(g, c, "open")}
        [] OTHER -> {Pop(g, c)}

\* emu68k_guestlib_open_done: Open returned zero, the library's own base, or a
\* fresh one for this opener.  The first success makes the library READY.
OpenDone(g, c, base) ==
  LET s == Last(g.stack[c]).slot
      l == g.lib[s]
      first == l.state = "OPENING"
      counted == [g EXCEPT !.lib[s].opens = Append(@, base)]
      known == IF base # l.base THEN Register(counted, c, base) ELSE counted
      ready == [known EXCEPT !.lib[s].state = "READY", !.active = l.parent,
                             !.lib[s].close = known.heap, !.heap = @ + 1]
  IN  CASE base = 0 /\ first -> {Pop(Fail(g, c, s), c)}
        [] base = 0 /\ ~first -> {Pop(g, c)}
        [] base # 0 /\ Len(l.opens) = LibOpens -> {[g EXCEPT !.failed = TRUE]}
        [] base # 0 /\ Len(l.opens) < LibOpens /\ ~first -> {Pop(known, c)}
        [] OTHER -> {IF Fits(known, 1) THEN Pop(ready, c)
                     ELSE [Fail(known, c, s) EXCEPT !.failed = TRUE]}

DropOne(seq, base) ==
  IF \E i \in DOMAIN seq : seq[i] = base
    THEN RemoveAt(seq, CHOOSE i \in DOMAIN seq :
                         seq[i] = base /\ \A j \in 1 .. i - 1 : seq[j] # base)
    ELSE seq

\* emu68k_guestlib_close_done: one open less; a clone nobody holds any more is
\* forgotten; a Close that expunged the library unloads it.
CloseDone(g, c, expunged) ==
  LET s == Last(g.stack[c]).slot
      l == g.lib[s]
      left == [l EXCEPT !.opens = DropOne(@, l.closing), !.closing = 0]
      gone == IF l.closing # l.base /\ ~Owns(left, l.closing) THEN {l.closing} ELSE {}
      dropped == Unregister([g EXCEPT !.lib[s] = left], c, gone)
  IN  {SetPhase(IF ~expunged THEN dropped
                ELSE [Unregister(dropped, c, ToSet(left.opens) \cup {l.base})
                      EXCEPT !.lib[s] = [left EXCEPT !.opens = <<>>, !.base = 0,
                                           !.state = "UNLOADED", !.reclaim = TRUE]],
                c, "reclaim")}

\* The heap goes back although something was allocated after the library.
MutReclaim(g, c) ==
  LET s == Last(g.stack[c]).slot
      l == g.lib[s]
      freed == [g EXCEPT !.cache[c] = {}, !.lib[s].reclaim = FALSE,
                         !.heap = IF l.close = l.hi THEN l.lo ELSE @]
  IN  {Pop(IF l.reclaim THEN freed ELSE g, c)}
\* emu68k_guestlib_reclaim: drop every translated block of the active engine,
\* clear the image, and take the heap back when nothing was allocated since.
Reclaim(g, c) ==
  LET s == Last(g.stack[c]).slot
      l == g.lib[s]
      onTop == l.close = l.hi /\ l.close + 1 = g.heap
      freed == [g EXCEPT !.cache[c] = {}, !.lib[s].reclaim = FALSE,
                         !.heap = IF onTop THEN l.lo ELSE @]
  IN  {Pop(IF l.reclaim THEN freed ELSE g, c)}

-----------------------------------------------------------------------------
\* AllocMem (FreeMem gives nothing back).
AllocMem(g) == IF Fits(g, 1) THEN {Taken(g, 1)} ELSE {g}

\* emu68k_dos_loadseg with j4_load_hunks_bptr: all or nothing.
LoadSeg(g) ==
  IF g.seg.live \/ ~Fits(g, ImageSize) \/ g.loads = MaxLoads THEN {g}
  ELSE {[g EXCEPT !.seg = [live |-> TRUE, lo |-> g.heap, hi |-> g.heap + ImageSize,
                           id |-> g.loads + 1],
                  !.heap = @ + ImageSize, !.loads = @ + 1]}

\* The translated blocks of the segment stay.
MutUnLoadSeg(g, c) ==
  IF ~g.seg.live THEN {g}
  ELSE {[g EXCEPT !.seg = NoSeg, !.heap = IF g.seg.hi = g.heap THEN g.seg.lo ELSE @]}
\* emu68k_dos_unloadseg: drop the active engine's blocks, clear, and take the
\* heap back when the segment is at its top.
UnLoadSeg(g, c) ==
  IF ~g.seg.live THEN {g}
  ELSE {[g EXCEPT !.cache[c] = {}, !.seg = NoSeg,
                  !.heap = IF g.seg.hi = g.heap THEN g.seg.lo ELSE @]}

\* The images whose code is in guest memory now.
Images(g) ==
  {[lo |-> g.lib[s].lo, hi |-> g.lib[s].hi, id |-> g.lib[s].id] :
      s \in {t \in Slots : g.lib[t].state \in {"LOADING", "OPENING", "READY"}}}
  \cup (IF g.seg.live THEN {[lo |-> g.seg.lo, hi |-> g.seg.hi, id |-> g.seg.id]} ELSE {})

\* A context executes code of an image: its engine keeps the translation.
Execute(g, c) == {[g EXCEPT !.cache[c] = @ \cup {i}] : i \in Images(g)}

-----------------------------------------------------------------------------
LibGo(states) == \E g \in states : gl' = g /\ g # gl

Phase(c, p) == gl.stack[c] # <<>> /\ Last(gl.stack[c]).phase = p
\* The guest calls from its own code, or from a vector that is running.
Calling(c) == gl.stack[c] # <<>> => Last(gl.stack[c]).phase # "reclaim"
\* A library does not open or close itself from its own vectors.
Elsewhere(c, slots) == \A k \in DOMAIN gl.stack[c] : gl.stack[c][k].slot \notin slots

\* An Open vector that clones its base returns what it allocated last.
Newest(cells) == {a \in cells : \A b \in cells : b <= a}

Held == UNION {{gl.lib[s].base} \cup ToSet(gl.lib[s].opens) : s \in Slots} \ {0}

LibStep(c) ==
  \/ /\ Calling(c) /\ Len(gl.stack[c]) < 2
     /\ \E n \in LibNames : Elsewhere(c, FindName(gl, n)) /\ LibGo(OpenLibrary(gl, c, n))
  \/ /\ Calling(c) /\ Len(gl.stack[c]) < 2
     /\ \E b \in Held : Elsewhere(c, FindBase(gl, b)) /\ LibGo(CloseLibrary(gl, c, b))
  \/ Calling(c) /\ LibGo(OpenNative(gl, c))
  \/ Calling(c) /\ LibGo(AllocMem(gl))
  \/ Calling(c) /\ LibGo(LoadSeg(gl))
  \/ Calling(c) /\ LibGo(UnLoadSeg(gl, c))
  \/ LibGo(Execute(gl, c))
  \/ Phase(c, "init") /\ \E ok \in BOOLEAN : LibGo(InitDone(gl, c, ok))
  \/ /\ Phase(c, "open")
     /\ \E b \in {0, gl.lib[Last(gl.stack[c]).slot].base} \cup Newest(gl.given) :
          LibGo(OpenDone(gl, c, b))
  \/ Phase(c, "close") /\ \E x \in BOOLEAN : LibGo(CloseDone(gl, c, x))
  \/ Phase(c, "reclaim") /\ LibGo(Reclaim(gl, c))

LibsNext == ~gl.failed /\ \E c \in Contexts : LibStep(c)
LibsSpec == LibsInit /\ [][LibsNext]_gl

-----------------------------------------------------------------------------
\* Whoever opened or closed a library gets its own registers back, however
\* deep the opens nest (guestlib_save_preserved keeps one copy per library).
RegistersRestored == ~gl.clobbered

\* Everything the guest owns lies below the heap and nothing overlaps:
\* images that are loaded, trampolines of open libraries, the segment, and
\* what AllocMem gave away.  Taking the heap back after an expunge or an
\* UnLoadSeg must never hand out a cell that is still in use.
Cells(u) == u.lo .. u.hi - 1
OneCell(kind, no, a) == [kind |-> kind, no |-> no, lo |-> a, hi |-> a + 1]
Used ==
  {[kind |-> "image", no |-> i.id, lo |-> i.lo, hi |-> i.hi] : i \in Images(gl)}
  \cup {OneCell("block", a, a) : a \in gl.given}
  \cup {OneCell("close", s, gl.lib[s].close) : s \in {t \in Slots : gl.lib[t].state = "READY"}}
HeapDisjoint ==
  /\ \A u, w \in Used : u # w => Cells(u) \cap Cells(w) = {}
  /\ \A u \in Used : u.hi <= gl.heap

\* No engine keeps a translation of an image whose memory another image has
\* taken over ("No translated block or backpatched chain may retain an
\* address in the image before those bytes can be reused").
NoStaleCode ==
  \A c \in Contexts : \A e \in gl.cache[c] : \A i \in Images(gl) :
    e.id # i.id => Cells(e) \cap Cells(i) = {}
=============================================================================
