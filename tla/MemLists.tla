------------------------------ MODULE MemLists ------------------------------
(***************************************************************************)
(* The free list of one MemHeader (hosted/mem.c, H5; repeated in           *)
(* hosted/kern.c, H6): the pure part of Allocate and Deallocate.           *)
(*                                                                         *)
(* A free list is the sequence of its MemChunks, [addr, bytes].  Sizes and *)
(* addresses are uintptr_t values: arithmetic is modulo Word.              *)
(***************************************************************************)
EXTENDS Integers, Sequences, FiniteSets, SequencesExt

CONSTANTS MEMCHUNK_TOTAL,   \* the allocation granularity
          Word              \* 2^64 in the code

ASSUME MemListsAssumption ==
    /\ MEMCHUNK_TOTAL \in Nat /\ MEMCHUNK_TOTAL > 1
    /\ Word \in Nat /\ Word % MEMCHUNK_TOTAL = 0 /\ Word > MEMCHUNK_TOTAL

RoundDown(x) == x - (x % MEMCHUNK_TOTAL)

\* ROUNDUP(x, MEMCHUNK_TOTAL), which wraps at the top of the address space.
ROUNDUP(x) == RoundDown((x + MEMCHUNK_TOTAL - 1) % Word)

End(c) == c.addr + c.bytes

\* A mutated split: the remainder starts where the returned part does.
MutTakeFrom(l, i, bs) ==
    IF l[i].bytes = bs
      THEN RemoveAt(l, i)
      ELSE [l EXCEPT ![i].bytes = @ - bs]

\* Unlink chunk i when it fits exactly, else return its low part.
TakeFrom(l, i, bs) ==
    IF l[i].bytes = bs
      THEN RemoveAt(l, i)
      ELSE [l EXCEPT ![i] = [addr |-> l[i].addr + bs, bytes |-> l[i].bytes - bs]]

Fits(l, bs) == {i \in 1..Len(l) : l[i].bytes >= bs}

\* The chunk the search of Allocate ends at: the first fit, or the last one
\* with MEMF_REVERSE; 0 if there is none.
Pick(l, bs, reverse) ==
    IF Fits(l, bs) = {} THEN 0
    ELSE IF reverse THEN Max(Fits(l, bs)) ELSE Min(Fits(l, bs))

-----------------------------------------------------------------------------
(* Deallocate of the block [a, a + bs) *)

\* p2: the first chunk at or above the block; Len(l) + 1 stands for NULL.
Above(l, a) == Min({i \in 1..Len(l) : l[i].addr >= a} \cup {Len(l) + 1})

\* A mutated test: the chunk below the block is not looked at.
MutFreeTwice(l, a, bs) == LET k == Above(l, a) IN k <= Len(l) /\ a + bs > l[k].addr

\* FreeTwice: the block overlaps the chunk above it or the one below it.
FreeTwice(l, a, bs) ==
    LET k == Above(l, a)
    IN  \/ k <= Len(l) /\ a + bs > l[k].addr
        \/ k > 1 /\ End(l[k - 1]) > a

\* A mutated merge: it never merges with the chunk above.
MutGiveBack(l, a, bs) ==
    LET k     == Above(l, a)
        below == k > 1 /\ End(l[k - 1]) = a
    IN  IF below
          THEN [l EXCEPT ![k - 1].bytes = @ + bs]
          ELSE InsertAt(l, k, [addr |-> a, bytes |-> bs])

\* Insert the block in address order, merged with its neighbours.
GiveBack(l, a, bs) ==
    LET k     == Above(l, a)
        below == k > 1 /\ End(l[k - 1]) = a
        above == k <= Len(l) /\ a + bs = l[k].addr
        lo    == IF below THEN l[k - 1].addr ELSE a
        hi    == IF above THEN End(l[k]) ELSE a + bs
    IN  SubSeq(l, 1, IF below THEN k - 2 ELSE k - 1)
        \o <<[addr |-> lo, bytes |-> hi - lo]>>
        \o SubSeq(l, IF above THEN k + 1 ELSE k, Len(l))

-----------------------------------------------------------------------------
(* The verifier's functions *)

free_sum(l) ==
    LET s[i \in 0..Len(l)] == IF i = 0 THEN 0 ELSE s[i - 1] + l[i].bytes
    IN  s[Len(l)]

\* freelist_sane: in bounds and in address order without overlap.
freelist_sane(l, mh_Lower, mh_Upper) ==
    \A i \in 1..Len(l) :
        /\ l[i].addr >= mh_Lower /\ End(l[i]) <= mh_Upper
        /\ i > 1 => l[i].addr >= End(l[i - 1])
=============================================================================
