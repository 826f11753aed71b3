--------------------------- MODULE KernHeapProofs ---------------------------
(***************************************************************************)
(* Proofs about MemLists, MemHeader and KernHeap, for any region, request  *)
(* sizes, granularity and workers.  Three layers:                          *)
(*                                                                         *)
(*   Good, TakeGood, GiveGood  one call of Allocate or Deallocate on a list *)
(*   MemInv                    the client of mem.c                         *)
(*   KHInv                     the workers of kern.c under the scheduler    *)
(***************************************************************************)
EXTENDS KernHeap, ExecKernelProofs, FiniteSetTheorems

-----------------------------------------------------------------------------
(* Alignment *)

M          == MEMCHUNK_TOTAL
Aligned(x) == (x % M) = 0

LEMMA Granularity == M \in Nat \ {0} /\ M > 1 /\ Word \in Nat /\ Word > M /\ Aligned(Word)
BY MemListsAssumption DEF M, Aligned

LEMMA Quotient ==
  ASSUME NEW n \in Nat \ {0}, NEW x \in Int
  PROVE  (x % n) \in 0 .. n - 1 /\ \E q \in Int : x = n * q + (x % n)
<1>1. x = n * (x \div n) + (x % n) /\ (x \div n) \in Int /\ (x % n) \in 0 .. n - 1
  OBVIOUS
<1> QED  BY <1>1

LEMMA RemainderIs ==
  ASSUME NEW n \in Nat \ {0}, NEW q \in Int, NEW r \in 0 .. n - 1
  PROVE  (n * q + r) % n = r
OBVIOUS

\* The aligned numbers are the multiples of the granularity.
LEMMA Multiples ==
  ASSUME NEW x \in Int
  PROVE  Aligned(x) <=> \E q \in Int : x = M * q
<1>1. ASSUME Aligned(x) PROVE \E q \in Int : x = M * q
  <2>1. PICK q \in Int : x = M * q + (x % M)
    BY Granularity, Quotient
  <2>2. x = M * q
    <3>1. M * q \in Int
      BY Granularity
    <3> QED  BY <2>1, <1>1, <3>1 DEF Aligned
  <2> QED  BY <2>2
<1>2. ASSUME NEW q \in Int, x = M * q PROVE Aligned(x)
  <2>1. M * q + 0 = x /\ 0 \in 0 .. M - 1 /\ M \in Nat \ {0}
    BY <1>2, Granularity
  <2>2. (M * q + 0) % M = 0
    BY <2>1, RemainderIs
  <2> QED  BY <2>1, <2>2 DEF Aligned
<1> QED  BY <1>1, <1>2

LEMMA AlignedSum ==
  ASSUME NEW x \in Int, NEW y \in Int, Aligned(x), Aligned(y)
  PROVE  Aligned(x + y) /\ Aligned(x - y) /\ (x < y => x + M <= y)
<1>1. PICK i \in Int : x = M * i
  BY Multiples
<1>2. PICK j \in Int : y = M * j
  BY Multiples
<1>3. x + y = M * (i + j) /\ x - y = M * (i - j) /\ i + j \in Int /\ i - j \in Int
  BY <1>1, <1>2, Granularity
<1>4. Aligned(x + y) /\ Aligned(x - y)
  <2>1. x + y \in Int /\ x - y \in Int
    OBVIOUS
  <2> QED  BY <1>3, <2>1, Multiples
<1>5. x < y => x + M <= y
  <2>1. ASSUME j <= i PROVE M * j <= M * i
    BY <2>1, Granularity
  <2>2. ASSUME i < j PROVE M * i + M <= M * j
    <3>1. j - i >= 1 /\ j - i \in Nat
      BY <2>2
    <3>2. M * (j - i) >= M
      BY <3>1, Granularity
    <3>3. M * (j - i) = M * j - M * i
      BY Granularity
    <3>4. M * j \in Int /\ M * i \in Int
      BY Granularity
    <3> QED  BY <3>2, <3>3, <3>4, Granularity
  <2>3. M * i \in Int /\ M * j \in Int
    BY Granularity
  <2> QED  BY <1>1, <1>2, <2>1, <2>2, <2>3
<1> QED  BY <1>4, <1>5

\* addr & ~(MEMCHUNK_TOTAL - 1)
LEMMA RoundDownIs ==
  ASSUME NEW x \in Nat
  PROVE  /\ RoundDown(x) \in Nat /\ Aligned(RoundDown(x))
         /\ RoundDown(x) <= x /\ x < RoundDown(x) + M
         /\ (x % M) = x - RoundDown(x) /\ (x % M) \in 0 .. M - 1
<1>1. PICK q \in Int : x = M * q + (x % M)
  <2>1. x \in Int /\ M \in Nat \ {0}
    BY Granularity
  <2> QED  BY <2>1, Quotient
<1> DEFINE r == x % M
<1>2. r \in 0 .. M - 1 /\ RoundDown(x) = x - r
  BY Granularity, Quotient DEF RoundDown, M
<1>3. x = M * q + r
  BY <1>1
<1> HIDE DEF r
<1>4. M * q \in Int /\ M \in Nat \ {0}
  BY Granularity
<1>5. RoundDown(x) = M * q
  BY <1>2, <1>3, <1>4
<1>6. RoundDown(x) >= 0
  <2>1. ASSUME q <= -1 PROVE M * q <= -M
    BY <2>1, <1>4
  <2>2. ASSUME q >= 0 PROVE M * q >= 0
    BY <2>2, <1>4
  <2> QED  BY <1>2, <1>3, <1>4, <1>5, <2>1, <2>2
<1>7. Aligned(RoundDown(x))
  BY <1>4, <1>5, Multiples
<1>8. (x % M) = r
  BY DEF r
<1> QED  BY <1>2, <1>4, <1>5, <1>6, <1>7, <1>8

\* An offset below the granularity does not leave the chunk.
LEMMA RoundDownOffset ==
  ASSUME NEW x \in Nat, Aligned(x), NEW o \in 0 .. M - 1
  PROVE  RoundDown(x + o) = x /\ ((x + o) % M) = o
<1>1. /\ RoundDown(x + o) \in Nat /\ Aligned(RoundDown(x + o))
      /\ RoundDown(x + o) <= x + o /\ x + o < RoundDown(x + o) + M
      /\ ((x + o) % M) = x + o - RoundDown(x + o)
  <2>1. x + o \in Nat
    BY Granularity
  <2> QED  BY <2>1, RoundDownIs
<1> DEFINE d == RoundDown(x + o)
<1> HIDE DEF d
<1>2. (d < x => d + M <= x) /\ (x < d => x + M <= d)
  <2>1. d \in Int /\ x \in Int /\ Aligned(d)
    BY <1>1 DEF d
  <2> QED  BY <2>1, AlignedSum
<1>3. d = x
  BY <1>1, <1>2, Granularity DEF d
<1> QED  BY <1>1, <1>3, Granularity DEF d

\* ROUNDUP of a size below the top of the address space is the least multiple
\* not below it.
LEMMA RoundUpIs ==
  ASSUME NEW x \in Nat, x + M <= Word
  PROVE  /\ ROUNDUP(x) \in Nat /\ Aligned(ROUNDUP(x))
         /\ x <= ROUNDUP(x) /\ ROUNDUP(x) < x + M
         /\ \A y \in Nat : Aligned(y) /\ x <= y => ROUNDUP(x) <= y
<1>1. (x + M - 1) % Word = x + M - 1
  <2>1. Word * 0 + (x + M - 1) = x + M - 1 /\ x + M - 1 \in 0 .. Word - 1 /\ Word \in Nat \ {0}
    BY Granularity
  <2> QED  BY <2>1, RemainderIs
<1>2. ROUNDUP(x) = RoundDown(x + M - 1)
  BY <1>1 DEF ROUNDUP, M
<1>3. /\ ROUNDUP(x) \in Nat /\ Aligned(ROUNDUP(x))
      /\ ROUNDUP(x) <= x + M - 1 /\ x + M - 1 < ROUNDUP(x) + M
  <2>1. x + M - 1 \in Nat
    BY Granularity
  <2> QED  BY <1>2, <2>1, RoundDownIs
<1> DEFINE u == ROUNDUP(x)
<1> HIDE DEF u
<1>4. ASSUME NEW y \in Nat, Aligned(y), x <= y PROVE u <= y
  <2>1. y < u => y + M <= u
    <3>1. y \in Int /\ u \in Int /\ Aligned(u)
      BY <1>3 DEF u
    <3> QED  BY <1>4, <3>1, AlignedSum
  <2> QED  BY <2>1, <1>3, <1>4, Granularity DEF u
<1> QED  BY <1>3, <1>4, Granularity DEF u

-----------------------------------------------------------------------------
(* Free lists *)

Chunk == [addr : Nat, bytes : Nat]

\* The search of Deallocate, p2: every chunk before it starts below the block.
LEMMA AboveIs ==
  ASSUME NEW l \in Seq(Chunk), NEW a \in Nat
  PROVE  /\ Above(l, a) \in 1 .. Len(l) + 1
         /\ \A i \in 1 .. Len(l) : i < Above(l, a) => l[i].addr < a
         /\ Above(l, a) <= Len(l) => l[Above(l, a)].addr >= a
<1> DEFINE S == {i \in 1 .. Len(l) : l[i].addr >= a} \cup {Len(l) + 1}
<1>1. S \subseteq Nat /\ S # {} /\ Above(l, a) = Min(S)
  BY DEF Above
<1>2. Min(S) \in S /\ \A y \in S : Min(S) <= y
  BY <1>1, LeastNat
<1>3. \A i \in 1 .. Len(l) : l[i].addr \in Nat
  <2>1. \A i \in 1 .. Len(l) : l[i] \in Chunk
    OBVIOUS
  <2> QED  BY <2>1 DEF Chunk
<1> DEFINE k == Above(l, a)
<1>4. k \in S /\ \A y \in S : k <= y
  BY <1>1, <1>2
<1> HIDE DEF k
<1>5. k \in 1 .. Len(l) + 1 /\ (k <= Len(l) => l[k].addr >= a)
  BY <1>4
<1>6. ASSUME NEW i \in 1 .. Len(l), i < k PROVE l[i].addr < a
  <2>1. i \notin S
    BY <1>4, <1>5, <1>6
  <2> QED  BY <1>3, <2>1
<1> QED  BY <1>5, <1>6 DEF k

\* The search of Allocate stops at a chunk that fits, if there is one.
LEMMA PickIs ==
  ASSUME NEW l \in Seq(Chunk), NEW b \in Nat, NEW rev \in BOOLEAN
  PROVE  /\ Pick(l, b, rev) # 0 => Pick(l, b, rev) \in 1 .. Len(l) /\ l[Pick(l, b, rev)].bytes >= b
         /\ (\E i \in 1 .. Len(l) : l[i].bytes >= b) => Pick(l, b, rev) # 0
<1>1. CASE Fits(l, b) = {}
  BY <1>1 DEF Pick, Fits
<1>2. CASE Fits(l, b) # {}
  <2>1. Fits(l, b) \subseteq 1 .. Len(l) /\ \A i \in Fits(l, b) : l[i].bytes >= b
    BY DEF Fits
  <2>2. Min(Fits(l, b)) \in Fits(l, b)
    <3>1. Fits(l, b) \subseteq Nat
      BY <2>1
    <3> QED  BY <1>2, <3>1, LeastNat
  <2>3. Max(Fits(l, b)) \in Fits(l, b)
    <3> DEFINE R == {n \in Nat : \E i \in Fits(l, b) : n = Len(l) - i}
    <3>1. R \subseteq Nat /\ R # {}
      <4>1. PICK i \in Fits(l, b) : TRUE
        BY <1>2
      <4>2. Len(l) - i \in R
        BY <2>1, <4>1
      <4> QED  BY <4>2
    <3>2. Min(R) \in R /\ \A y \in R : Min(R) <= y
      BY <3>1, LeastNat
    <3>3. PICK i \in Fits(l, b) : Min(R) = Len(l) - i
      BY <3>2
    <3>4. ASSUME NEW j \in Fits(l, b) PROVE i >= j
      <4>1. Len(l) - j \in R
        BY <2>1
      <4> QED  BY <2>1, <3>2, <3>3, <4>1
    <3> QED  BY <3>4 DEF Max
  <2> QED  BY <1>2, <2>1, <2>2, <2>3 DEF Pick
<1> QED  BY <1>1, <1>2

\* A chunk put in place of the chunks i + 1 .. j - 1.
Splice(l, i, c, j) == SubSeq(l, 1, i) \o <<c>> \o SubSeq(l, j, Len(l))

LEMMA SpliceIs ==
  ASSUME NEW l \in Seq(Chunk), NEW i \in 0 .. Len(l), NEW j \in i + 1 .. Len(l) + 1, NEW c \in Chunk
  PROVE  /\ Splice(l, i, c, j) \in Seq(Chunk)
         /\ Len(Splice(l, i, c, j)) = Len(l) + i + 2 - j
         /\ \A x \in 1 .. Len(l) + i + 2 - j :
              Splice(l, i, c, j)[x] = IF x <= i THEN l[x] ELSE IF x = i + 1 THEN c ELSE l[x + j - i - 2]
<1> DEFINE u == SubSeq(l, 1, i)
           w == SubSeq(l, j, Len(l))
<1>1. u \in Seq(Chunk) /\ Len(u) = i /\ \A x \in 1 .. i : u[x] = l[x]
  OBVIOUS
<1>2. w \in Seq(Chunk) /\ Len(w) = Len(l) + 1 - j /\ \A x \in 1 .. Len(l) + 1 - j : w[x] = l[j + x - 1]
  OBVIOUS
<1> HIDE DEF u, w
<1>3. /\ u \o <<c>> \in Seq(Chunk) /\ Len(u \o <<c>>) = i + 1
      /\ \A x \in 1 .. i + 1 : (u \o <<c>>)[x] = IF x <= i THEN l[x] ELSE c
  BY <1>1
<1>4. Splice(l, i, c, j) = (u \o <<c>>) \o w
  BY DEF Splice, u, w
<1> DEFINE v == u \o <<c>>
<1> HIDE DEF v
<1>5. /\ v \o w \in Seq(Chunk) /\ Len(v \o w) = Len(v) + Len(w)
      /\ \A x \in 1 .. Len(v) + Len(w) : (v \o w)[x] = IF x <= Len(v) THEN v[x] ELSE w[x - Len(v)]
  <2>1. v \in Seq(Chunk)
    BY <1>3 DEF v
  <2> QED  BY <2>1, <1>2, ConcatProperties
<1>6. Len(v) = i + 1 /\ \A x \in 1 .. i + 1 : v[x] = IF x <= i THEN l[x] ELSE c
  BY <1>3 DEF v
<1>7. Splice(l, i, c, j) = v \o w
  BY <1>4 DEF v
<1>8. Len(l) \in Nat
  OBVIOUS
<1>9. Len(v \o w) = Len(l) + i + 2 - j
  BY <1>2, <1>5, <1>6, <1>8
<1>10. ASSUME NEW x \in 1 .. Len(l) + i + 2 - j
       PROVE  (v \o w)[x] = IF x <= i THEN l[x] ELSE IF x = i + 1 THEN c ELSE l[x + j - i - 2]
  <2>1. x \in 1 .. Len(v) + Len(w)
    BY <1>2, <1>6, <1>8
  <2> DEFINE vw == v \o w
             goal == vw[x] = IF x <= i THEN l[x] ELSE IF x = i + 1 THEN c ELSE l[x + j - i - 2]
  <2>4. vw[x] = IF x <= i + 1 THEN v[x] ELSE w[x - (i + 1)]
    BY <1>5, <1>6, <2>1
  <2> HIDE DEF vw
  <2> SUFFICES goal
    BY DEF vw
  <2>2. CASE x <= i + 1
    <3>1. vw[x] = v[x] /\ x \in 1 .. i + 1
      BY <2>2, <2>4
    <3>2. vw[x] = IF x <= i THEN l[x] ELSE c
      BY <1>6, <3>1
    <3> QED  BY <1>8, <2>2, <3>2
  <2>3. CASE x > i + 1
    <3>1. x - (i + 1) \in 1 .. Len(l) + 1 - j /\ j + (x - (i + 1)) - 1 = x + j - i - 2
      BY <1>8, <2>3
    <3>2. vw[x] = w[x - (i + 1)] /\ w[x - (i + 1)] = l[j + (x - (i + 1)) - 1]
      BY <1>2, <2>3, <2>4, <3>1
    <3> QED  BY <1>8, <2>3, <3>1, <3>2
  <2> QED  BY <2>2, <2>3
<1> QED  BY <1>5, <1>7, <1>9, <1>10

\* Unlinking chunk i.
LEMMA RemoveIs ==
  ASSUME NEW l \in Seq(Chunk), NEW i \in 1 .. Len(l)
  PROVE  /\ RemoveAt(l, i) \in Seq(Chunk)
         /\ Len(RemoveAt(l, i)) = Len(l) - 1
         /\ \A x \in 1 .. Len(l) - 1 : RemoveAt(l, i)[x] = IF x < i THEN l[x] ELSE l[x + 1]
<1> DEFINE u == SubSeq(l, 1, i - 1)
           w == SubSeq(l, i + 1, Len(l))
<1>1. u \in Seq(Chunk) /\ Len(u) = i - 1 /\ \A x \in 1 .. i - 1 : u[x] = l[x]
  OBVIOUS
<1>2. w \in Seq(Chunk) /\ Len(w) = Len(l) - i /\ \A x \in 1 .. Len(l) - i : w[x] = l[i + x]
  OBVIOUS
<1>3. RemoveAt(l, i) = u \o w
  BY DEF RemoveAt
<1> HIDE DEF u, w
<1>4. /\ u \o w \in Seq(Chunk) /\ Len(u \o w) = Len(u) + Len(w)
      /\ \A x \in 1 .. Len(u) + Len(w) : (u \o w)[x] = IF x <= Len(u) THEN u[x] ELSE w[x - Len(u)]
  BY <1>1, <1>2, ConcatProperties
<1>5. Len(l) \in Nat
  OBVIOUS
<1>6. ASSUME NEW x \in 1 .. Len(l) - 1 PROVE (u \o w)[x] = IF x < i THEN l[x] ELSE l[x + 1]
  <2>1. x \in 1 .. Len(u) + Len(w)
    BY <1>1, <1>2, <1>5
  <2> DEFINE uw == u \o w
             goal == uw[x] = IF x < i THEN l[x] ELSE l[x + 1]
  <2>4. uw[x] = IF x <= i - 1 THEN u[x] ELSE w[x - (i - 1)]
    BY <1>1, <1>4, <2>1
  <2> HIDE DEF uw
  <2> SUFFICES goal
    BY DEF uw
  <2>2. CASE x < i
    <3>1. uw[x] = u[x] /\ x \in 1 .. i - 1
      BY <2>2, <2>4
    <3> QED  BY <1>1, <2>2, <3>1
  <2>3. CASE x >= i
    <3>1. x - (i - 1) \in 1 .. Len(l) - i /\ i + (x - (i - 1)) = x + 1
      BY <1>5, <2>3
    <3>2. uw[x] = w[x - (i - 1)] /\ w[x - (i - 1)] = l[i + (x - (i - 1))]
      BY <1>2, <2>3, <2>4, <3>1
    <3> QED  BY <2>3, <3>1, <3>2
  <2> QED  BY <2>2, <2>3
<1> QED  BY <1>1, <1>2, <1>3, <1>4, <1>5, <1>6

\* A chunk inside the region, of whole granules.
WellPlaced(c) ==
  /\ Aligned(c.addr) /\ Aligned(c.bytes) /\ c.bytes > 0
  /\ mh_Lower <= c.addr /\ End(c) <= mh_Upper

\* What the free list is at all times: chunks in address order, none of them
\* empty, none touching another.
Good(l) ==
  /\ l \in Seq(Chunk)
  /\ \A i \in 1 .. Len(l) : WellPlaced(l[i])
  /\ \A i, j \in 1 .. Len(l) : i < j => End(l[i]) < l[j].addr

Covers(c, a) == c.addr <= a /\ a < End(c)
FreeSet(l)   == {a \in Nat : \E i \in 1 .. Len(l) : Covers(l[i], a)}
Span(a, b)   == {x \in Nat : a <= x /\ x < a + b}

LEMMA GoodTypes ==
  ASSUME NEW l, Good(l), NEW i \in 1 .. Len(l)
  PROVE  /\ l[i] \in Chunk /\ WellPlaced(l[i])
         /\ l[i].addr \in Nat /\ l[i].bytes \in Nat /\ l[i].bytes > 0
         /\ End(l[i]) \in Nat /\ End(l[i]) = l[i].addr + l[i].bytes /\ l[i].addr < End(l[i])
<1>1. l[i] \in Chunk
  <2>1. l \in Seq(Chunk)
    BY DEF Good
  <2> QED  BY <2>1
<1>2. l[i].addr \in Nat /\ l[i].bytes \in Nat
  BY <1>1 DEF Chunk
<1>3. WellPlaced(l[i])
  BY DEF Good
<1> QED  BY <1>1, <1>2, <1>3 DEF WellPlaced, End

\* n is l with c in place of the chunks i + 1 .. j - 1.
Replaces(n, l, i, c, j) ==
  /\ n \in Seq(Chunk) /\ Len(n) = Len(l) + i + 2 - j
  /\ \A x \in 1 .. Len(l) + i + 2 - j : n[x] = IF x <= i THEN l[x] ELSE IF x = i + 1 THEN c ELSE l[x + j - i - 2]

\* A list in which the chunks i + 1 .. j - 1 were replaced by one that touches
\* neither neighbour.
LEMMA Replaced ==
  ASSUME NEW l, Good(l), NEW i \in 0 .. Len(l), NEW j \in i + 1 .. Len(l) + 1,
         NEW c \in Chunk, WellPlaced(c),
         i > 0 => End(l[i]) < c.addr, j <= Len(l) => End(c) < l[j].addr,
         NEW n, Replaces(n, l, i, c, j)
  PROVE  /\ Good(n)
         /\ \A a \in Nat : a \in FreeSet(n) <=> \/ Covers(c, a)
                                               \/ \E x \in 1 .. Len(l) : (x <= i \/ x >= j) /\ Covers(l[x], a)
<1>1. Len(l) \in Nat /\ i \in Nat /\ j \in Nat /\ Len(n) \in Nat /\ Len(n) = Len(l) + i + 2 - j
  <2>1. l \in Seq(Chunk) /\ n \in Seq(Chunk) /\ Len(n) = Len(l) + i + 2 - j
    BY DEF Good, Replaces
  <2> QED  BY <2>1
<1>2. c.addr \in Nat /\ c.bytes \in Nat /\ End(c) = c.addr + c.bytes /\ c.bytes > 0
  BY DEF Chunk, End, WellPlaced
<1>3. \A x \in 1 .. Len(l) : /\ WellPlaced(l[x])
                            /\ l[x].addr \in Nat /\ End(l[x]) \in Nat /\ l[x].addr < End(l[x])
  BY GoodTypes
<1>4. \A x, y \in 1 .. Len(l) : x < y => End(l[x]) < l[y].addr
  BY DEF Good
<1>5. ASSUME NEW x \in 1 .. Len(n) PROVE x \in Nat /\ (x <= i \/ x = i + 1 \/ x > i + 1)
  BY <1>1
\* Where the chunks of n come from.
<1>a. ASSUME NEW x \in 1 .. Len(n), x <= i PROVE n[x] = l[x] /\ x \in 1 .. Len(l)
  BY <1>1, <1>a DEF Replaces
<1>b. i + 1 \in 1 .. Len(n) /\ n[i + 1] = c
  BY <1>1 DEF Replaces
<1>c. ASSUME NEW x \in 1 .. Len(n), x > i + 1
      PROVE  \E y \in j .. Len(l) : y \in 1 .. Len(l) /\ n[x] = l[y] /\ y = x + j - i - 2
  <2>1. x + j - i - 2 \in j .. Len(l) /\ x + j - i - 2 \in 1 .. Len(l)
    BY <1>1, <1>c
  <2>2. n[x] = l[x + j - i - 2]
    BY <1>1, <1>c DEF Replaces
  <2> QED  BY <2>1, <2>2
<1>6. ASSUME NEW x \in 1 .. Len(n) PROVE WellPlaced(n[x])
  BY <1>3, <1>5, <1>a, <1>b, <1>c
<1>7. ASSUME NEW x \in 1 .. Len(n), NEW y \in 1 .. Len(n), x < y PROVE End(n[x]) < n[y].addr
  <2>1. CASE y <= i
    <3>1. x <= i
      BY <1>1, <1>5, <1>7, <2>1
    <3> QED  BY <1>4, <1>7, <1>a, <2>1, <3>1
  <2>2. CASE x <= i /\ y = i + 1
    <3>1. n[x] = l[x] /\ n[y] = c /\ x \in 1 .. Len(l) /\ i \in 1 .. Len(l) /\ i > 0
      <4>1. i \in 1 .. Len(l) /\ i > 0
        BY <1>1, <2>2
      <4> QED  BY <1>a, <1>b, <2>2, <4>1
    <3>2. CASE x = i
      BY <3>1, <3>2
    <3>3. CASE x < i
      <4>1. End(l[x]) < l[i].addr /\ l[i].addr < End(l[i]) /\ End(l[i]) < c.addr
        BY <1>3, <1>4, <3>1, <3>3
      <4>2. End(l[x]) \in Nat /\ l[i].addr \in Nat /\ End(l[i]) \in Nat /\ c.addr \in Nat
        BY <1>2, <1>3, <3>1
      <4> QED  BY <3>1, <4>1, <4>2
    <3> QED  BY <1>1, <1>5, <2>2, <3>2, <3>3
  <2>3. CASE x <= i /\ y > i + 1
    <3>1. n[x] = l[x] /\ x \in 1 .. Len(l)
      BY <1>a, <2>3
    <3>2. PICK v \in j .. Len(l) : v \in 1 .. Len(l) /\ n[y] = l[v]
      BY <1>c, <2>3
    <3>3. x < v
      BY <1>1, <1>5, <2>3, <3>2
    <3> QED  BY <1>4, <3>1, <3>2, <3>3
  <2>4. CASE x = i + 1 /\ y > i + 1
    <3>1. PICK v \in j .. Len(l) : v \in 1 .. Len(l) /\ n[y] = l[v]
      BY <1>c, <2>4
    <3>2. n[x] = c /\ j \in 1 .. Len(l) /\ j <= Len(l) /\ (v = j \/ j < v)
      BY <1>1, <1>b, <2>4
    <3>3. CASE v = j
      BY <3>1, <3>2, <3>3
    <3>4. CASE j < v
      <4>1. End(c) < l[j].addr /\ l[j].addr < End(l[j]) /\ End(l[j]) < l[v].addr
        BY <1>3, <1>4, <3>1, <3>2, <3>4
      <4>2. l[j].addr \in Nat /\ End(l[j]) \in Nat /\ l[v].addr \in Nat
        BY <1>3, <3>1, <3>2
      <4>3. End(c) \in Nat
        BY <1>2
      <4> QED  BY <3>1, <3>2, <4>1, <4>2, <4>3
    <3> QED  BY <3>2, <3>3, <3>4
  <2>5. CASE x > i + 1 /\ y > i + 1
    <3>1. PICK u \in j .. Len(l) : u \in 1 .. Len(l) /\ n[x] = l[u] /\ u = x + j - i - 2
      BY <1>c, <2>5
    <3>2. PICK v \in j .. Len(l) : v \in 1 .. Len(l) /\ n[y] = l[v] /\ v = y + j - i - 2
      BY <1>c, <2>5
    <3>3. u < v
      BY <1>1, <1>5, <1>7, <3>1, <3>2
    <3> QED  BY <1>4, <3>1, <3>2, <3>3
  <2> QED  BY <1>1, <1>5, <1>7, <2>1, <2>2, <2>3, <2>4, <2>5
<1>8. Good(n)
  BY <1>6, <1>7 DEF Good, Replaces
<1>9. ASSUME NEW a \in Nat, a \in FreeSet(n)
      PROVE  Covers(c, a) \/ \E x \in 1 .. Len(l) : (x <= i \/ x >= j) /\ Covers(l[x], a)
  <2>1. PICK x \in 1 .. Len(n) : Covers(n[x], a)
    BY <1>9 DEF FreeSet
  <2>2. CASE x <= i
    BY <1>a, <2>1, <2>2
  <2>3. CASE x = i + 1
    BY <1>b, <2>1, <2>3
  <2>4. CASE x > i + 1
    <3>1. PICK v \in j .. Len(l) : v \in 1 .. Len(l) /\ n[x] = l[v]
      BY <1>c, <2>4
    <3>2. v >= j
      BY <1>1
    <3> QED  BY <2>1, <3>1, <3>2
  <2> QED  BY <1>5, <2>2, <2>3, <2>4
<1>10. ASSUME NEW a \in Nat, Covers(c, a) PROVE a \in FreeSet(n)
  BY <1>10, <1>b DEF FreeSet
<1>11. ASSUME NEW a \in Nat, NEW x \in 1 .. Len(l), x <= i \/ x >= j, Covers(l[x], a) PROVE a \in FreeSet(n)
  <2>1. CASE x <= i
    <3>1. x \in 1 .. Len(n)
      BY <1>1, <2>1
    <3>2. n[x] = l[x]
      BY <1>a, <2>1, <3>1
    <3> QED  BY <1>11, <3>1, <3>2 DEF FreeSet
  <2>2. CASE x >= j
    <3> DEFINE y == x - j + i + 2
    <3>1. y \in 1 .. Len(n) /\ y > i + 1 /\ y + j - i - 2 = x
      BY <1>1, <2>2
    <3> HIDE DEF y
    <3>2. n[y] = l[x]
      BY <1>c, <3>1
    <3> QED  BY <1>11, <3>1, <3>2 DEF FreeSet
  <2> QED  BY <1>11, <2>1, <2>2
<1> QED  BY <1>8, <1>9, <1>10, <1>11

\* Allocate's unlink or split takes exactly the low part of the chunk.
LEMMA TakeGood ==
  ASSUME NEW l, Good(l), NEW i \in 1 .. Len(l), NEW b \in Nat, Aligned(b), b > 0, b <= l[i].bytes
  PROVE  /\ Good(TakeFrom(l, i, b))
         /\ FreeSet(TakeFrom(l, i, b)) = FreeSet(l) \ Span(l[i].addr, b)
         /\ Span(l[i].addr, b) \subseteq FreeSet(l)
<1>1. l \in Seq(Chunk) /\ Len(l) \in Nat
  BY DEF Good
<1>2. \A x \in 1 .. Len(l) : /\ l[x].addr \in Nat /\ l[x].bytes \in Nat /\ End(l[x]) \in Nat
                            /\ End(l[x]) = l[x].addr + l[x].bytes /\ l[x].addr < End(l[x])
  BY GoodTypes
<1>3. \A x, y \in 1 .. Len(l) : x < y => End(l[x]) < l[y].addr
  BY DEF Good
<1> DEFINE n == TakeFrom(l, i, b)
<1>4. Span(l[i].addr, b) \subseteq FreeSet(l)
  <2> SUFFICES ASSUME NEW a \in Span(l[i].addr, b) PROVE Covers(l[i], a) /\ a \in Nat
    BY DEF FreeSet
  <2> QED  BY <1>2 DEF Span, Covers
<1>5. ASSUME NEW x \in 1 .. Len(l), x # i, NEW a \in Nat, Covers(l[x], a) PROVE a \notin Span(l[i].addr, b)
  <2>1. x < i \/ i < x
    BY <1>5
  <2>2. End(l[x]) < l[i].addr \/ End(l[i]) < l[x].addr
    BY <1>3, <2>1
  <2> QED  BY <1>2, <1>5, <2>2 DEF Covers, Span
<1>6. CASE l[i].bytes = b
  <2>1. n = RemoveAt(l, i)
    BY <1>6 DEF TakeFrom
  <2>2. /\ n \in Seq(Chunk) /\ Len(n) = Len(l) - 1
        /\ \A x \in 1 .. Len(l) - 1 : n[x] = IF x < i THEN l[x] ELSE l[x + 1]
    BY <1>1, <2>1, RemoveIs
  <2> HIDE DEF n
  <2>3. \A x \in 1 .. Len(n) : \E y \in 1 .. Len(l) : y # i /\ n[x] = l[y] /\ y = IF x < i THEN x ELSE x + 1
    <3> TAKE x \in 1 .. Len(n)
    <3>1. CASE x < i
      BY <1>1, <2>2, <3>1
    <3>2. CASE x >= i
      <4>1. x + 1 \in 1 .. Len(l) /\ x + 1 # i /\ n[x] = l[x + 1]
        BY <1>1, <2>2, <3>2
      <4> QED  BY <3>2, <4>1
    <3> QED  BY <3>1, <3>2
  <2>4. Good(n)
    <3>1. \A x \in 1 .. Len(n) : WellPlaced(n[x])
      BY <2>3, GoodTypes
    <3>2. ASSUME NEW x \in 1 .. Len(n), NEW y \in 1 .. Len(n), x < y PROVE End(n[x]) < n[y].addr
      <4>1. PICK u \in 1 .. Len(l) : n[x] = l[u] /\ u = IF x < i THEN x ELSE x + 1
        BY <2>3
      <4>2. PICK v \in 1 .. Len(l) : n[y] = l[v] /\ v = IF y < i THEN y ELSE y + 1
        BY <2>3
      <4>3. u < v
        BY <3>2, <4>1, <4>2
      <4> QED  BY <1>3, <4>1, <4>2, <4>3
    <3> QED  BY <2>2, <3>1, <3>2 DEF Good
  <2>5. FreeSet(n) \subseteq FreeSet(l) \ Span(l[i].addr, b)
    <3> SUFFICES ASSUME NEW a \in FreeSet(n) PROVE a \in FreeSet(l) /\ a \notin Span(l[i].addr, b)
      OBVIOUS
    <3>1. a \in Nat /\ \E x \in 1 .. Len(n) : Covers(n[x], a)
      BY DEF FreeSet
    <3>2. PICK y \in 1 .. Len(l) : y # i /\ Covers(l[y], a)
      BY <2>3, <3>1
    <3> QED  BY <1>5, <3>1, <3>2 DEF FreeSet
  <2>6. FreeSet(l) \ Span(l[i].addr, b) \subseteq FreeSet(n)
    <3> SUFFICES ASSUME NEW a \in FreeSet(l), a \notin Span(l[i].addr, b) PROVE a \in FreeSet(n)
      OBVIOUS
    <3>1. PICK y \in 1 .. Len(l) : Covers(l[y], a)
      BY DEF FreeSet
    <3>2. a \in Nat
      BY DEF FreeSet
    <3>3. y # i
      BY <1>2, <1>6, <3>1, <3>2 DEF Span, Covers
    <3>4. CASE y < i
      <4>1. y \in 1 .. Len(n) /\ n[y] = l[y]
        BY <1>1, <2>2, <3>4
      <4> QED  BY <3>1, <3>2, <4>1 DEF FreeSet
    <3>5. CASE y > i
      <4>1. y - 1 \in 1 .. Len(n) /\ n[y - 1] = l[y]
        <5>1. y - 1 \in 1 .. Len(l) - 1 /\ ~(y - 1 < i) /\ (y - 1) + 1 = y
          BY <1>1, <3>5
        <5> QED  BY <2>2, <5>1
      <4> QED  BY <3>1, <3>2, <4>1 DEF FreeSet
    <3> QED  BY <3>3, <3>4, <3>5
  <2> QED  BY <1>4, <2>4, <2>5, <2>6 DEF n
<1>7. CASE l[i].bytes # b
  <2> DEFINE c == [addr |-> l[i].addr + b, bytes |-> l[i].bytes - b]
  <2>1. c \in Chunk /\ c.addr = l[i].addr + b /\ c.bytes = l[i].bytes - b /\ End(c) = End(l[i])
    BY <1>2, <1>7 DEF Chunk, End
  <2>2. WellPlaced(c)
    <3>1. WellPlaced(l[i]) /\ l[i].addr \in Int /\ l[i].bytes \in Int /\ b \in Int
      BY <1>2, GoodTypes
    <3>2. Aligned(l[i].addr + b) /\ Aligned(l[i].bytes - b)
      BY <3>1, AlignedSum DEF WellPlaced
    <3>3. mh_Lower \in Nat
      BY MemHeaderAssumption
    <3> HIDE DEF c
    <3> QED  BY <1>2, <1>7, <2>1, <3>1, <3>2, <3>3 DEF WellPlaced
  <2>3. n = [l EXCEPT ![i] = c]
    BY <1>7 DEF TakeFrom
  <2> HIDE DEF c
  <2>4. /\ n \in Seq(Chunk) /\ Len(n) = Len(l)
        /\ \A x \in 1 .. Len(l) : n[x] = IF x = i THEN c ELSE l[x]
    BY <1>1, <2>1, <2>3, ExceptSeq
  <2> HIDE DEF n
  <2>5. i - 1 > 0 => End(l[i - 1]) < c.addr
    <3>1. i - 1 > 0 => i - 1 \in 1 .. Len(l) /\ i - 1 < i
      BY <1>1
    <3>2. i - 1 > 0 => End(l[i - 1]) < l[i].addr /\ End(l[i - 1]) \in Nat
      BY <1>2, <1>3, <3>1
    <3> QED  BY <1>2, <2>1, <3>2
  <2>6. i + 1 <= Len(l) => End(c) < l[i + 1].addr
    <3>1. i + 1 <= Len(l) => i + 1 \in 1 .. Len(l) /\ i < i + 1
      BY <1>1
    <3> QED  BY <1>3, <2>1, <3>1
  <2>7. /\ Good(n)
        /\ \A a \in Nat : a \in FreeSet(n) <=> \/ Covers(c, a)
                                              \/ \E x \in 1 .. Len(l) : (x <= i - 1 \/ x >= i + 1) /\ Covers(l[x], a)
    <3>1. i - 1 \in 0 .. Len(l) /\ i + 1 \in (i - 1) + 1 .. Len(l) + 1 /\ Len(n) = Len(l) + (i - 1) + 2 - (i + 1)
      BY <1>1, <2>4
    <3>2. \A x \in 1 .. Len(n) : n[x] = IF x <= i - 1 THEN l[x] ELSE IF x = (i - 1) + 1 THEN c
                                        ELSE l[x + (i + 1) - (i - 1) - 2]
      <4> TAKE x \in 1 .. Len(n)
      <4>1. x \in Int /\ i \in Int /\ x + (i + 1) - (i - 1) - 2 = x /\ (x <= i - 1 => x # i) /\ (x = (i - 1) + 1 <=> x = i)
        BY <1>1, <2>4
      <4> QED  BY <2>4, <4>1
    <3>3. Replaces(n, l, i - 1, c, i + 1)
      BY <2>4, <3>1, <3>2 DEF Replaces
    <3> QED  BY <2>1, <2>2, <2>5, <2>6, <3>1, <3>3, Replaced
  <2>8. \A a \in Nat : Covers(l[i], a) <=> (Covers(c, a) \/ a \in Span(l[i].addr, b))
    BY <1>2, <2>1 DEF Covers, Span
  <2>9. \A a \in Nat : Covers(c, a) => a \notin Span(l[i].addr, b)
    BY <1>2, <2>1 DEF Covers, Span
  <2>10. \A x \in 1 .. Len(l) : (x <= i - 1 \/ x >= i + 1) <=> x # i
    BY <1>1
  <2>11. \A a \in Nat : a \in FreeSet(n) <=> a \in FreeSet(l) /\ a \notin Span(l[i].addr, b)
    BY <1>5, <2>7, <2>8, <2>9, <2>10 DEF FreeSet
  <2>12. FreeSet(n) \subseteq Nat /\ FreeSet(l) \subseteq Nat
    BY DEF FreeSet
  <2> QED  BY <1>4, <2>7, <2>11, <2>12 DEF n
<1> QED  BY <1>6, <1>7

\* A block no byte of which is free is not refused, and joins the list, merged
\* with the neighbours it touches.
LEMMA GiveGood ==
  ASSUME NEW l, Good(l), NEW a \in Nat, NEW b \in Nat, Aligned(a), Aligned(b), b > 0,
         mh_Lower <= a, a + b <= mh_Upper, FreeSet(l) \cap Span(a, b) = {}
  PROVE  /\ ~FreeTwice(l, a, b)
         /\ Good(GiveBack(l, a, b))
         /\ FreeSet(GiveBack(l, a, b)) = FreeSet(l) \cup Span(a, b)
<1>1. l \in Seq(Chunk) /\ Len(l) \in Nat
  BY DEF Good
<1>2. \A x \in 1 .. Len(l) : /\ l[x].addr \in Nat /\ l[x].bytes \in Nat /\ End(l[x]) \in Nat
                            /\ End(l[x]) = l[x].addr + l[x].bytes /\ l[x].addr < End(l[x])
  BY GoodTypes
<1>3. \A x, y \in 1 .. Len(l) : x < y => End(l[x]) < l[y].addr
  BY DEF Good
<1> DEFINE k == Above(l, a)
<1>4. /\ k \in 1 .. Len(l) + 1
      /\ \A i \in 1 .. Len(l) : i < k => l[i].addr < a
      /\ k <= Len(l) => l[k].addr >= a
  BY <1>1, AboveIs
\* The neighbours are clear of the block.
<1>5. ASSUME NEW x \in 1 .. Len(l) PROVE End(l[x]) <= a \/ a + b <= l[x].addr
  <2> SUFFICES ASSUME a < End(l[x]), l[x].addr < a + b PROVE FALSE
    BY <1>2
  <2> DEFINE m == IF a <= l[x].addr THEN l[x].addr ELSE a
  <2>1. m \in Nat /\ Covers(l[x], m) /\ m \in Span(a, b)
    BY <1>2 DEF Covers, Span
  <2> QED  BY <2>1 DEF FreeSet
<1>6. k <= Len(l) => k \in 1 .. Len(l) /\ a + b <= l[k].addr
  <2> SUFFICES ASSUME k <= Len(l) PROVE k \in 1 .. Len(l) /\ a + b <= l[k].addr
    OBVIOUS
  <2>1. k \in 1 .. Len(l) /\ l[k].addr >= a
    BY <1>4
  <2> HIDE DEF k
  <2> QED  BY <1>2, <1>5, <2>1
<1>7. k > 1 => k - 1 \in 1 .. Len(l) /\ End(l[k - 1]) <= a /\ l[k - 1].addr < a
  <2> SUFFICES ASSUME k > 1 PROVE k - 1 \in 1 .. Len(l) /\ End(l[k - 1]) <= a /\ l[k - 1].addr < a
    OBVIOUS
  <2>1. k - 1 \in 1 .. Len(l) /\ k - 1 < k
    BY <1>1, <1>4
  <2>2. l[k - 1].addr < a
    BY <1>4, <2>1
  <2> HIDE DEF k
  <2> QED  BY <1>2, <1>5, <2>1, <2>2
<1>8. ~FreeTwice(l, a, b)
  <2>1. k <= Len(l) => l[k].addr \in Nat
    BY <1>2, <1>6
  <2>2. k > 1 => End(l[k - 1]) \in Nat
    BY <1>2, <1>7
  <2> QED  BY <1>6, <1>7, <2>1, <2>2 DEF FreeTwice
<1> DEFINE below == k > 1 /\ End(l[k - 1]) = a
           above == k <= Len(l) /\ a + b = l[k].addr
           i     == IF below THEN k - 2 ELSE k - 1
           j     == IF above THEN k + 1 ELSE k
           lo    == IF below THEN l[k - 1].addr ELSE a
           hi    == IF above THEN End(l[k]) ELSE a + b
           c     == [addr |-> lo, bytes |-> hi - lo]
           n     == GiveBack(l, a, b)
<1>9. n = Splice(l, i, c, j)
  BY DEF GiveBack, Splice
<1>10. i \in 0 .. Len(l) /\ j \in i + 1 .. Len(l) + 1 /\ k \in Int
  BY <1>1, <1>4
<1>11. lo \in Nat /\ hi \in Nat /\ lo <= a /\ a + b <= hi /\ lo < hi
  <2>1. lo \in Nat /\ lo <= a
    BY <1>2, <1>7
  <2>2. hi \in Nat /\ a + b <= hi
    BY <1>2, <1>6
  <2> HIDE DEF lo, hi
  <2> QED  BY <2>1, <2>2
<1>12. Aligned(lo) /\ Aligned(hi) /\ mh_Lower <= lo /\ hi <= mh_Upper
  <2>1. below => Aligned(l[k - 1].addr) /\ mh_Lower <= l[k - 1].addr
    BY <1>7, GoodTypes DEF WellPlaced
  <2>2. above => Aligned(End(l[k])) /\ End(l[k]) <= mh_Upper
    <3> SUFFICES ASSUME above PROVE Aligned(End(l[k])) /\ End(l[k]) <= mh_Upper
      OBVIOUS
    <3>1. k \in 1 .. Len(l)
      BY <1>6
    <3> HIDE DEF k
    <3>2. Aligned(l[k].addr) /\ Aligned(l[k].bytes) /\ End(l[k]) <= mh_Upper /\ l[k].addr \in Int /\ l[k].bytes \in Int
      BY <3>1, GoodTypes DEF WellPlaced
    <3>3. Aligned(l[k].addr + l[k].bytes)
      BY <3>2, AlignedSum
    <3> QED  BY <1>2, <3>1, <3>2, <3>3
  <2>3. Aligned(a + b)
    BY AlignedSum
  <2> HIDE DEF above, below
  <2> QED  BY <2>1, <2>2, <2>3
<1>13. c \in Chunk /\ c.addr = lo /\ End(c) = hi /\ WellPlaced(c)
  <2> HIDE DEF lo, hi
  <2>1. c \in Chunk /\ c.addr = lo /\ c.bytes = hi - lo /\ End(c) = hi
    BY <1>11 DEF Chunk, End
  <2>2. Aligned(hi - lo)
    BY <1>11, <1>12, AlignedSum
  <2> QED  BY <1>11, <1>12, <2>1, <2>2 DEF WellPlaced
<1>14. i > 0 => i \in 1 .. Len(l) /\ End(l[i]) < c.addr
  <2>1. CASE below
    <3>1. i = k - 2 /\ lo = l[k - 1].addr /\ k - 1 \in 1 .. Len(l)
      BY <1>7, <2>1
    <3>2. i > 0 => i \in 1 .. Len(l) /\ i < k - 1
      BY <1>10, <3>1
    <3> HIDE DEF i, lo, c, k
    <3>3. i > 0 => End(l[i]) < l[k - 1].addr
      BY <1>3, <3>1, <3>2
    <3> QED  BY <1>13, <3>1, <3>2, <3>3
  <2>2. CASE ~below
    <3>1. i = k - 1 /\ lo = a /\ (k > 1 => End(l[k - 1]) # a)
      BY <2>2
    <3> HIDE DEF i, lo, c, k
    <3>2. i > 0 => k > 1
      BY <1>10, <3>1
    <3>3. i > 0 => i \in 1 .. Len(l) /\ End(l[i]) <= a /\ End(l[i]) # a /\ End(l[i]) \in Nat
      BY <1>2, <1>7, <3>1, <3>2
    <3> QED  BY <1>13, <3>1, <3>3
  <2> QED  BY <2>1, <2>2
<1>15. j <= Len(l) => j \in 1 .. Len(l) /\ End(c) < l[j].addr
  <2>1. CASE above
    <3>1. j = k + 1 /\ hi = End(l[k]) /\ k \in 1 .. Len(l)
      BY <1>6, <2>1
    <3>2. j <= Len(l) => j \in 1 .. Len(l) /\ k < j
      BY <1>10, <3>1
    <3> HIDE DEF j, hi, c, k
    <3>3. j <= Len(l) => End(l[k]) < l[j].addr
      BY <1>3, <3>1, <3>2
    <3> QED  BY <1>13, <3>1, <3>2, <3>3
  <2>2. CASE ~above
    <3>1. j = k /\ hi = a + b /\ (k <= Len(l) => a + b # l[k].addr)
      BY <2>2
    <3> HIDE DEF j, hi, c, k
    <3>3. j <= Len(l) => j \in 1 .. Len(l) /\ a + b <= l[j].addr /\ a + b # l[j].addr /\ l[j].addr \in Nat
      BY <1>2, <1>6, <3>1
    <3> QED  BY <1>13, <3>1, <3>3
  <2> QED  BY <2>1, <2>2
<1>16. /\ Good(n)
       /\ \A x \in Nat : x \in FreeSet(n) <=> \/ Covers(c, x)
                                             \/ \E y \in 1 .. Len(l) : (y <= i \/ y >= j) /\ Covers(l[y], x)
  <2> HIDE DEF i, j, c, n, k
  <2>1. Replaces(n, l, i, c, j)
    <3>1. l \in Seq(Chunk) /\ i \in 0 .. Len(l) /\ j \in i + 1 .. Len(l) + 1 /\ c \in Chunk
      BY <1>1, <1>10, <1>13
    <3>2. Replaces(Splice(l, i, c, j), l, i, c, j)
      <4> DEFINE s == Splice(l, i, c, j)
      <4>1. /\ s \in Seq(Chunk) /\ Len(s) = Len(l) + i + 2 - j
            /\ \A x \in 1 .. Len(l) + i + 2 - j :
                 s[x] = IF x <= i THEN l[x] ELSE IF x = i + 1 THEN c ELSE l[x + j - i - 2]
        BY ONLY <3>1, SpliceIs
      <4> HIDE DEF s
      <4>2. Replaces(s, l, i, c, j)
        BY ONLY <4>1 DEF Replaces
      <4> QED  BY <4>2 DEF s
    <3> QED  BY <1>9, <3>2
  <2> QED  BY <1>10, <1>13, <1>14, <1>15, <2>1, Replaced
\* What the merged chunks and the block cover together.
<1>17. ASSUME NEW x \in Nat
       PROVE  Covers(c, x) <=> \/ x \in Span(a, b)
                               \/ below /\ Covers(l[k - 1], x)
                               \/ above /\ Covers(l[k], x)
  <2>1. Covers(c, x) <=> lo <= x /\ x < hi
    BY <1>13 DEF Covers
  <2>2. below => lo = l[k - 1].addr /\ End(l[k - 1]) = a /\ l[k - 1].addr \in Nat /\ l[k - 1].addr < a
    BY <1>2, <1>7
  <2>3. above => hi = End(l[k]) /\ l[k].addr = a + b /\ End(l[k]) \in Nat /\ a + b < End(l[k])
    BY <1>2, <1>6
  <2>4. (~below => lo = a) /\ (~above => hi = a + b)
    OBVIOUS
  <2>5. below => (Covers(l[k - 1], x) <=> lo <= x /\ x < a)
    BY <2>2 DEF Covers
  <2>6. above => (Covers(l[k], x) <=> a + b <= x /\ x < hi)
    BY <2>3 DEF Covers
  <2>7. x \in Span(a, b) <=> a <= x /\ x < a + b
    BY DEF Span
  <2> HIDE DEF c, lo, hi, above, below, k
  <2> QED  BY <1>11, <2>1, <2>4, <2>5, <2>6, <2>7
<1>18. ASSUME NEW y \in 1 .. Len(l)
       PROVE  y <= i \/ y >= j \/ (below /\ y = k - 1) \/ (above /\ y = k)
  BY <1>10
<1>19. (below => k - 1 \in 1 .. Len(l)) /\ (above => k \in 1 .. Len(l))
  BY <1>6, <1>7
<1>20. \A x \in Nat : x \in FreeSet(n) <=> x \in FreeSet(l) \/ x \in Span(a, b)
  <2> HIDE DEF i, j, c, n, k, below, above
  <2> TAKE x \in Nat
  <2>1. ASSUME x \in FreeSet(n) PROVE x \in FreeSet(l) \/ x \in Span(a, b)
    BY <1>16, <1>17, <1>19, <2>1 DEF FreeSet
  <2>2. ASSUME NEW y \in 1 .. Len(l), Covers(l[y], x) PROVE x \in FreeSet(n)
    BY <1>16, <1>17, <1>18, <2>2
  <2>3. ASSUME x \in Span(a, b) PROVE x \in FreeSet(n)
    BY <1>16, <1>17, <2>3
  <2> QED  BY <2>1, <2>2, <2>3 DEF FreeSet
<1>21. FreeSet(n) \subseteq Nat /\ FreeSet(l) \subseteq Nat /\ Span(a, b) \subseteq Nat
  BY DEF FreeSet, Span
<1>22. FreeSet(n) = FreeSet(l) \cup Span(a, b)
  <2> HIDE DEF n
  <2> QED  BY <1>20, <1>21
<1> QED  BY <1>8, <1>16, <1>22

\* A range with a free byte in it is refused.
LEMMA RefusedTwice ==
  ASSUME NEW l, Good(l), NEW a \in Nat, NEW b \in Nat, NEW i \in 1 .. Len(l),
         a < End(l[i]), l[i].addr < a + b
  PROVE  FreeTwice(l, a, b)
<1>1. l \in Seq(Chunk) /\ Len(l) \in Nat
  BY DEF Good
<1>2. \A x \in 1 .. Len(l) : l[x].addr \in Nat /\ End(l[x]) \in Nat /\ l[x].addr < End(l[x])
  BY GoodTypes
<1>3. \A x, y \in 1 .. Len(l) : x < y => End(l[x]) < l[y].addr
  BY DEF Good
<1> DEFINE k == Above(l, a)
<1>4. k \in 1 .. Len(l) + 1
  BY <1>1, AboveIs
<1>5. CASE k <= i
  <2>1. k \in 1 .. Len(l) /\ k <= Len(l)
    BY <1>1, <1>4, <1>5
  <2> HIDE DEF k
  <2>2. l[k].addr <= l[i].addr
    <3>1. CASE k = i
      BY <1>2, <3>1
    <3>2. CASE k < i
      <4>1. End(l[k]) < l[i].addr
        BY <1>3, <2>1, <3>2
      <4> QED  BY <1>2, <2>1, <4>1
    <3> QED  BY <1>4, <1>5, <3>1, <3>2
  <2>3. a + b > l[k].addr
    BY <1>2, <2>1, <2>2
  <2> QED  BY <2>1, <2>3 DEF FreeTwice, k
<1>6. CASE i < k
  <2>1. k - 1 \in 1 .. Len(l) /\ k > 1 /\ (i = k - 1 \/ i < k - 1)
    BY <1>1, <1>4, <1>6
  <2> HIDE DEF k
  <2>2. End(l[i]) <= End(l[k - 1])
    <3>1. CASE i = k - 1
      BY <1>2, <3>1
    <3>2. CASE i < k - 1
      <4>1. End(l[i]) < l[k - 1].addr
        BY <1>3, <2>1, <3>2
      <4> QED  BY <1>2, <2>1, <4>1
    <3> QED  BY <2>1, <3>1, <3>2
  <2>3. End(l[k - 1]) > a
    BY <1>2, <2>1, <2>2
  <2> QED  BY <2>1, <2>3 DEF FreeTwice, k
<1> QED  BY <1>1, <1>4, <1>5, <1>6

-----------------------------------------------------------------------------
(* Counting the free bytes *)

LEMMA SpanCount ==
  ASSUME NEW a \in Nat, NEW b \in Nat
  PROVE  Span(a, b) = a .. (a + b - 1) /\ IsFiniteSet(Span(a, b)) /\ Cardinality(Span(a, b)) = b
<1>1. Span(a, b) = a .. (a + b - 1)
  BY DEF Span
<1>2. IsFiniteSet(a .. (a + b - 1)) /\ Cardinality(a .. (a + b - 1)) = IF a > a + b - 1 THEN 0 ELSE a + b - 1 - a + 1
  BY FS_Interval
<1>3. b = IF a > a + b - 1 THEN 0 ELSE a + b - 1 - a + 1
  OBVIOUS
<1> QED  BY <1>1, <1>2, <1>3

LEMMA RegionIs ==
  /\ mh_Lower \in Nat /\ mh_Lower > 0 /\ mh_Upper \in Nat /\ Aligned(mh_Lower) /\ Aligned(mh_Upper)
  /\ mh_Lower < mh_Upper /\ mh_Upper <= mh_Lower + RegionLen /\ mh_Upper < Word
<1>1. /\ mh_Lower \in Nat /\ mh_Lower > 0 /\ Aligned(mh_Lower) /\ RegionLen \in Nat /\ RegionLen >= M
      /\ mh_Lower + RegionLen < Word
  BY MemHeaderAssumption DEF Aligned, M
<1>2. /\ RoundDown(RegionLen) \in Nat /\ Aligned(RoundDown(RegionLen))
      /\ RoundDown(RegionLen) <= RegionLen /\ RegionLen < RoundDown(RegionLen) + M
  BY <1>1, RoundDownIs
<1>3. Aligned(mh_Lower + RoundDown(RegionLen))
  <2>1. mh_Lower \in Int /\ RoundDown(RegionLen) \in Int
    BY <1>1, <1>2
  <2> QED  BY <1>1, <1>2, <2>1, AlignedSum
<1>4. RoundDown(RegionLen) > 0
  BY <1>1, <1>2, Granularity
<1> QED  BY <1>1, <1>2, <1>3, <1>4, Granularity DEF mh_Upper

\* Every free byte is in the region, so there are finitely many.
LEMMA FreeFinite ==
  ASSUME NEW l, Good(l)
  PROVE  /\ FreeSet(l) \subseteq Addr
         /\ IsFiniteSet(FreeSet(l)) /\ Cardinality(FreeSet(l)) \in Nat
<1>1. FreeSet(l) \subseteq Addr
  <2> SUFFICES ASSUME NEW a \in FreeSet(l) PROVE a \in Addr
    OBVIOUS
  <2>1. PICK i \in 1 .. Len(l) : Covers(l[i], a)
    BY DEF FreeSet
  <2>2. a \in Nat /\ l[i].addr \in Nat /\ End(l[i]) \in Nat /\ mh_Lower <= l[i].addr /\ End(l[i]) <= mh_Upper
    BY GoodTypes DEF FreeSet, WellPlaced
  <2> QED  BY <2>1, <2>2, RegionIs DEF Addr, Covers
<1>2. IsFiniteSet(Addr)
  <2>1. mh_Lower \in Int /\ mh_Upper - 1 \in Int
    BY RegionIs
  <2> QED  BY <2>1, FS_Interval DEF Addr
<1>3. IsFiniteSet(FreeSet(l))
  BY <1>1, <1>2, FS_Subset
<1> QED  BY <1>1, <1>3, FS_CardinalityType

LEMMA TakeCount ==
  ASSUME NEW S, IsFiniteSet(S), NEW a \in Nat, NEW b \in Nat, Span(a, b) \subseteq S
  PROVE  Cardinality(S \ Span(a, b)) = Cardinality(S) - b /\ b <= Cardinality(S)
<1>1. Cardinality(S \ Span(a, b)) = Cardinality(S) - Cardinality(S \cap Span(a, b))
  BY FS_Difference
<1>2. S \cap Span(a, b) = Span(a, b)
  OBVIOUS
<1>3. Cardinality(Span(a, b)) <= Cardinality(S)
  BY FS_Subset
<1> QED  BY <1>1, <1>2, <1>3, SpanCount

LEMMA GiveCount ==
  ASSUME NEW S, IsFiniteSet(S), NEW a \in Nat, NEW b \in Nat, S \cap Span(a, b) = {}
  PROVE  IsFiniteSet(S \cup Span(a, b)) /\ Cardinality(S \cup Span(a, b)) = Cardinality(S) + b
<1>1. IsFiniteSet(Span(a, b)) /\ Cardinality(Span(a, b)) = b
  BY SpanCount
<1>2. /\ IsFiniteSet(S \cup Span(a, b))
      /\ Cardinality(S \cup Span(a, b)) = Cardinality(S) + Cardinality(Span(a, b)) - Cardinality(S \cap Span(a, b))
  BY <1>1, FS_Union
<1>3. Cardinality(S) \in Nat
  BY FS_CardinalityType
<1> QED  BY <1>1, <1>2, <1>3, FS_EmptySet

\* The verifier's sum over the chunks is the number of free bytes.
LEMMA SumIsCount ==
  ASSUME NEW l, Good(l)
  PROVE  free_sum(l) = Cardinality(FreeSet(l))
<1> DEFINE N == Len(l)
           U(i) == {a \in Nat : \E x \in 1 .. i : Covers(l[x], a)}
           f == [i \in 0 .. N |-> Cardinality(U(i))]
           Rec(s) == s = [i \in 0 .. N |-> IF i = 0 THEN 0 ELSE s[i - 1] + l[i].bytes]
<1>1. N \in Nat
  BY DEF Good
<1>2. \A i \in 0 .. N : IsFiniteSet(U(i))
  <2> TAKE i \in 0 .. N
  <2>1. U(i) \subseteq FreeSet(l)
    BY <1>1 DEF FreeSet
  <2> QED  BY <2>1, FreeFinite, FS_Subset
<1>3. U(0) = {} /\ f[0] = 0
  <2>1. U(0) = {}
    OBVIOUS
  <2> QED  BY <1>1, <2>1, FS_EmptySet
<1>4. ASSUME NEW i \in 1 .. N PROVE f[i] = f[i - 1] + l[i].bytes
  <2>1. l[i].addr \in Nat /\ l[i].bytes \in Nat /\ End(l[i]) = l[i].addr + l[i].bytes
    BY GoodTypes
  <2>2. U(i) = U(i - 1) \cup Span(l[i].addr, l[i].bytes)
    <3>1. \A a \in Nat : Covers(l[i], a) <=> a \in Span(l[i].addr, l[i].bytes)
      BY <2>1 DEF Covers, Span
    <3>2. \A x : x \in 1 .. i <=> x \in 1 .. i - 1 \/ x = i
      BY <1>1
    <3> QED  BY <3>1, <3>2 DEF Span
  <2>3. U(i - 1) \cap Span(l[i].addr, l[i].bytes) = {}
    <3> SUFFICES ASSUME NEW a \in Nat, NEW x \in 1 .. i - 1, Covers(l[x], a) PROVE a \notin Span(l[i].addr, l[i].bytes)
      OBVIOUS
    <3>1. x \in 1 .. N /\ x < i
      BY <1>1
    <3>2. End(l[x]) < l[i].addr /\ End(l[x]) \in Nat
      BY <3>1, GoodTypes DEF Good
    <3> QED  BY <2>1, <3>2 DEF Covers, Span
  <2>4. i - 1 \in 0 .. N /\ i \in 0 .. N
    BY <1>1
  <2> HIDE DEF U
  <2>5. Cardinality(U(i)) = Cardinality(U(i - 1)) + l[i].bytes
    BY <1>2, <2>1, <2>2, <2>3, <2>4, GiveCount
  <2> QED  BY <2>4, <2>5
<1>5. Rec(f)
  <2> DEFINE g == [i \in 0 .. N |-> IF i = 0 THEN 0 ELSE f[i - 1] + l[i].bytes]
  <2>1. \A i \in 0 .. N : f[i] = g[i]
    <3> TAKE i \in 0 .. N
    <3>1. i = 0 \/ i \in 1 .. N
      BY <1>1
    <3> HIDE DEF f
    <3> QED  BY <1>3, <1>4, <3>1
  <2> DEFINE F(i) == Cardinality(U(i))
             G(i) == IF i = 0 THEN 0 ELSE f[i - 1] + l[i].bytes
  <2>2. \A i \in 0 .. N : f[i] = F(i)
    BY DEF f
  <2>3. \A i \in 0 .. N : g[i] = G(i)
    <3> HIDE DEF f
    <3> QED  OBVIOUS
  <2>4. f = [i \in 0 .. N |-> F(i)] /\ g = [i \in 0 .. N |-> G(i)]
    BY Zenon DEF f, g
  <2> HIDE DEF f, g, F, G
  <2>5. [i \in 0 .. N |-> F(i)] = [i \in 0 .. N |-> G(i)]
    BY <2>1, <2>2, <2>3
  <2>6. f = g
    BY <2>4, <2>5
  <2> QED  BY <2>6 DEF g
<1>6. PICK s : Rec(s) /\ free_sum(l) = s[N]
  <2> DEFINE s == CHOOSE s : Rec(s)
  <2>1. Rec(s)
    <3> HIDE DEF f
    <3> QED  BY <1>5
  <2>2. free_sum(l) = s[N]
    BY DEF free_sum
  <2> HIDE DEF s
  <2> QED  BY <2>1, <2>2
<1>7. \A i \in 0 .. N : s[i] = f[i]
  <2> DEFINE D == {i \in 0 .. N : s[i] # f[i]}
  <2> SUFFICES ASSUME D # {} PROVE FALSE
    OBVIOUS
  <2>1. D \subseteq Nat
    BY <1>1
  <2>2. PICK i \in D : \A y \in D : i <= y
    BY <2>1, LeastNat
  <2>3. i \in 0 .. N /\ s[i] = IF i = 0 THEN 0 ELSE s[i - 1] + l[i].bytes
    BY <1>6
  <2> HIDE DEF f
  <2>4. CASE i = 0
    BY <1>3, <2>2, <2>3, <2>4
  <2>5. CASE i # 0
    <3>1. i \in 1 .. N /\ i - 1 \in 0 .. N
      BY <1>1, <2>3, <2>5
    <3>2. s[i - 1] = f[i - 1]
      BY <1>1, <2>2, <3>1
    <3>3. s[i] = f[i]
      BY <1>4, <2>3, <2>5, <3>1, <3>2
    <3> QED  BY <2>2, <3>3
  <2> QED  BY <2>4, <2>5
<1>8. f[N] = Cardinality(FreeSet(l))
  BY <1>1 DEF FreeSet
<1>9. N \in 0 .. N
  BY <1>1
<1> HIDE DEF f
<1> QED  BY <1>6, <1>7, <1>8, <1>9

-----------------------------------------------------------------------------
(* The heap: the free list and the blocks of its clients *)

\* A size none of the code's additions wraps for.
SizeOK(z) == z \in Nat /\ z > 0 /\ mh_Upper + z + 2 * M <= Word

LiveOK(v) ==
  /\ v \subseteq [addr : Nat, size : Nat]
  /\ \A e \in v : /\ SizeOK(e.size) /\ Aligned(e.addr)
                  /\ mh_Lower <= e.addr /\ e.addr + ROUNDUP(e.size) <= mh_Upper

\* Tiling, by membership: every byte is free or in a block, and not in two.
Tiled(l, v) ==
  /\ \A a \in Addr : a \in FreeSet(l) \/ \E e \in v : a \in Extent(e)
  /\ \A e \in v : Extent(e) \cap FreeSet(l) = {}
  /\ \A d, e \in v : d # e => Extent(d) \cap Extent(e) = {}

Heap(l, v) == Good(l) /\ LiveOK(v) /\ Tiled(l, v)

LEMMA SizeIs ==
  ASSUME NEW z, SizeOK(z)
  PROVE  /\ z \in Nat /\ z > 0 /\ ROUNDUP(z) \in Nat /\ ROUNDUP(z) > 0 /\ Aligned(ROUNDUP(z))
         /\ z <= ROUNDUP(z) /\ \A y \in Nat : Aligned(y) /\ z <= y => ROUNDUP(z) <= y
<1>1. z \in Nat /\ z > 0 /\ z + M <= Word
  BY RegionIs, Granularity DEF SizeOK
<1> QED  BY <1>1, RoundUpIs

LEMMA ExtentIs ==
  ASSUME NEW v, LiveOK(v), NEW e \in v
  PROVE  /\ e.addr \in Nat /\ e.size \in Nat /\ SizeOK(e.size) /\ Aligned(e.addr)
         /\ mh_Lower <= e.addr /\ e.addr + ROUNDUP(e.size) <= mh_Upper
         /\ Extent(e) = Span(e.addr, ROUNDUP(e.size)) /\ e.addr \in Extent(e)
         /\ e = [addr |-> e.addr, size |-> e.size]
<1>1. e \in [addr : Nat, size : Nat]
  BY DEF LiveOK
<1>2. /\ e.addr \in Nat /\ e.size \in Nat /\ SizeOK(e.size) /\ Aligned(e.addr)
      /\ mh_Lower <= e.addr /\ e.addr + ROUNDUP(e.size) <= mh_Upper
  BY <1>1 DEF LiveOK
<1>3. ROUNDUP(e.size) \in Nat /\ ROUNDUP(e.size) > 0
  BY <1>2, SizeIs
<1>4. Extent(e) = Span(e.addr, ROUNDUP(e.size))
  BY <1>2, <1>3, SpanCount DEF Extent
<1>5. e.addr \in Extent(e)
  BY <1>2, <1>3, <1>4 DEF Span
<1> QED  BY <1>1, <1>2, <1>4, <1>5

\* Allocate moves the low part of a chunk from the free list to the client.
LEMMA HeapTake ==
  ASSUME NEW l, NEW v, Heap(l, v), NEW i \in 1 .. Len(l), NEW z, SizeOK(z), ROUNDUP(z) <= l[i].bytes,
         NEW d, d = [addr |-> l[i].addr, size |-> z]
  PROVE  /\ Heap(TakeFrom(l, i, ROUNDUP(z)), v \cup {d})
         /\ d \notin v /\ \A e \in v : e.addr # d.addr /\ Extent(d) \cap Extent(e) = {}
         /\ Cardinality(FreeSet(TakeFrom(l, i, ROUNDUP(z)))) = Cardinality(FreeSet(l)) - ROUNDUP(z)
         /\ ROUNDUP(z) <= Cardinality(FreeSet(l))
<1> DEFINE b == ROUNDUP(z)
           n == TakeFrom(l, i, b)
<1>1. b \in Nat /\ b > 0 /\ Aligned(b) /\ z \in Nat
  BY SizeIs
<1>2. /\ l[i].addr \in Nat /\ l[i].bytes \in Nat /\ End(l[i]) = l[i].addr + l[i].bytes
      /\ Aligned(l[i].addr) /\ mh_Lower <= l[i].addr /\ End(l[i]) <= mh_Upper
  BY GoodTypes DEF Heap, WellPlaced
<1>3. Good(n) /\ FreeSet(n) = FreeSet(l) \ Span(l[i].addr, b) /\ Span(l[i].addr, b) \subseteq FreeSet(l)
  <2> HIDE DEF b
  <2> QED  BY <1>1, TakeGood DEF Heap, b
<1>4. d.addr = l[i].addr /\ d.size = z /\ d \in [addr : Nat, size : Nat]
  BY <1>1, <1>2
<1>5. Extent(d) = Span(l[i].addr, b)
  BY <1>1, <1>2, <1>4, SpanCount DEF Extent
<1>6. l[i].addr + b <= mh_Upper
  BY <1>1, <1>2, RegionIs
<1>7. LiveOK(v \cup {d})
  <2> HIDE DEF b
  <2> QED  BY <1>2, <1>4, <1>6 DEF LiveOK, Heap, b
<1>8. \A e \in v : Extent(d) \cap Extent(e) = {}
  BY <1>3, <1>5 DEF Heap, Tiled
<1>9. l[i].addr \in Extent(d)
  BY <1>1, <1>2, <1>5 DEF Span
<1>10. \A e \in v : e.addr # d.addr
  BY <1>4, <1>8, <1>9, ExtentIs DEF Heap
<1> HIDE DEF n, b
<1>11. Tiled(n, v \cup {d})
  <2>1. \A a \in Addr : a \in FreeSet(n) \/ \E e \in v \cup {d} : a \in Extent(e)
    BY <1>3, <1>5 DEF Heap, Tiled
  <2>2. \A e \in v \cup {d} : Extent(e) \cap FreeSet(n) = {}
    BY <1>3, <1>5 DEF Heap, Tiled
  <2>3. \A c, e \in v \cup {d} : c # e => Extent(c) \cap Extent(e) = {}
    BY <1>8 DEF Heap, Tiled
  <2> QED  BY <2>1, <2>2, <2>3 DEF Tiled
<1>12. Cardinality(FreeSet(n)) = Cardinality(FreeSet(l)) - b /\ b <= Cardinality(FreeSet(l))
  <2>1. IsFiniteSet(FreeSet(l))
    BY FreeFinite DEF Heap
  <2> DEFINE S == FreeSet(l)
  <2> HIDE DEF S
  <2>2. IsFiniteSet(S) /\ l[i].addr \in Nat /\ b \in Nat /\ Span(l[i].addr, b) \subseteq S
    BY <1>1, <1>2, <1>3, <2>1 DEF b, S
  <2>3. Cardinality(S \ Span(l[i].addr, b)) = Cardinality(S) - b /\ b <= Cardinality(S)
    BY <2>2, TakeCount
  <2> QED  BY <1>3, <2>3 DEF b, n, S
<1> QED  BY <1>3, <1>7, <1>8, <1>10, <1>11, <1>12 DEF Heap, n, b

\* Deallocate of a block of the client is not refused and moves it back.
LEMMA HeapGive ==
  ASSUME NEW l, NEW v, Heap(l, v), NEW e \in v
  PROVE  /\ ~FreeTwice(l, e.addr, ROUNDUP(e.size))
         /\ Heap(GiveBack(l, e.addr, ROUNDUP(e.size)), v \ {e})
         /\ Cardinality(FreeSet(GiveBack(l, e.addr, ROUNDUP(e.size)))) = Cardinality(FreeSet(l)) + ROUNDUP(e.size)
<1> DEFINE a == e.addr
           b == ROUNDUP(e.size)
           n == GiveBack(l, a, b)
<1>1. /\ a \in Nat /\ SizeOK(e.size) /\ Aligned(a) /\ mh_Lower <= a /\ a + b <= mh_Upper
      /\ Extent(e) = Span(a, b)
  BY ExtentIs DEF Heap
<1>2. b \in Nat /\ b > 0 /\ Aligned(b)
  BY <1>1, SizeIs
<1> HIDE DEF a, b
<1>3. FreeSet(l) \cap Span(a, b) = {}
  BY <1>1 DEF Heap, Tiled
<1>4. ~FreeTwice(l, a, b) /\ Good(n) /\ FreeSet(n) = FreeSet(l) \cup Span(a, b)
  BY <1>1, <1>2, <1>3, GiveGood DEF Heap
<1> HIDE DEF n
<1>5. LiveOK(v \ {e})
  BY DEF LiveOK, Heap
<1>6. Tiled(n, v \ {e})
  <2>1. \A x \in Addr : x \in FreeSet(n) \/ \E c \in v \ {e} : x \in Extent(c)
    BY <1>1, <1>4 DEF Heap, Tiled
  <2>2. \A c \in v \ {e} : Extent(c) \cap FreeSet(n) = {}
    BY <1>1, <1>4 DEF Heap, Tiled
  <2>3. \A c, d \in v \ {e} : c # d => Extent(c) \cap Extent(d) = {}
    BY DEF Heap, Tiled
  <2> QED  BY <2>1, <2>2, <2>3 DEF Tiled
<1>7. Cardinality(FreeSet(n)) = Cardinality(FreeSet(l)) + b
  <2>1. IsFiniteSet(FreeSet(l))
    BY FreeFinite DEF Heap
  <2> QED  BY <1>1, <1>2, <1>3, <1>4, <2>1, GiveCount
<1> QED  BY <1>4, <1>5, <1>6, <1>7 DEF Heap, n, a, b

\* The heap as mh_Init lays it out.
LEMMA HeapStarts ==
  ASSUME MemInit
  PROVE  Heap(mh_First, live) /\ mh_Free = Cardinality(FreeSet(mh_First))
<1> DEFINE c == [addr |-> mh_Lower, bytes |-> RoundDown(RegionLen)]
<1>1. mh_First = <<c>> /\ mh_Free = RoundDown(RegionLen) /\ live = {}
  BY DEF MemInit
<1>2. RoundDown(RegionLen) \in Nat /\ Aligned(RoundDown(RegionLen)) /\ mh_Upper = mh_Lower + RoundDown(RegionLen)
  BY MemHeaderAssumption, RoundDownIs DEF mh_Upper
<1>3. c \in Chunk /\ c.addr = mh_Lower /\ c.bytes = RoundDown(RegionLen) /\ End(c) = mh_Upper /\ WellPlaced(c)
  BY <1>2, RegionIs DEF Chunk, End, WellPlaced
<1> HIDE DEF c
<1>4. <<c>> \in Seq(Chunk) /\ Len(<<c>>) = 1 /\ <<c>>[1] = c
  BY <1>3
<1>5. Good(mh_First)
  <2>1. \A i \in 1 .. 1 : i = 1
    OBVIOUS
  <2> QED  BY <1>1, <1>3, <1>4, <2>1 DEF Good
<1>6. FreeSet(mh_First) = Span(mh_Lower, RoundDown(RegionLen)) /\ Addr \subseteq FreeSet(mh_First)
  <2>1. \A a \in Nat : a \in FreeSet(mh_First) <=> Covers(c, a)
    BY <1>1, <1>4 DEF FreeSet
  <2>2. \A a \in Nat : Covers(c, a) <=> mh_Lower <= a /\ a < mh_Lower + RoundDown(RegionLen)
    BY <1>2, <1>3 DEF Covers
  <2>3. FreeSet(mh_First) \subseteq Nat
    BY DEF FreeSet
  <2>4. FreeSet(mh_First) = Span(mh_Lower, RoundDown(RegionLen))
    BY <2>1, <2>2, <2>3 DEF Span
  <2> QED  BY <1>2, <2>4, RegionIs DEF Addr, Span
<1>7. LiveOK(live) /\ Tiled(mh_First, live)
  BY <1>1, <1>6 DEF LiveOK, Tiled
<1> QED  BY <1>1, <1>2, <1>5, <1>6, <1>7, RegionIs, SpanCount DEF Heap

\* What the heap invariant gives: Tiling,
LEMMA HeapTiles ==
  ASSUME Heap(mh_First, live)
  PROVE  Tiling
<1> SUFFICES ASSUME NEW a \in Addr
             PROVE  Cardinality({e \in live : a \in Extent(e)}) + (IF Free(a) THEN 1 ELSE 0) = 1
  BY DEF Tiling, Addr
<1> DEFINE B == {e \in live : a \in Extent(e)}
           count == Cardinality(B)
<1>1. a \in Nat
  BY RegionIs DEF Addr
<1>2. Free(a) <=> a \in FreeSet(mh_First)
  <2>1. \A i \in 1 .. Len(mh_First) : mh_First[i].addr \in Nat /\ End(mh_First[i]) \in Nat
    BY GoodTypes DEF Heap
  <2> QED  BY <1>1, <2>1 DEF Free, FreeSet, Covers
<1>3. CASE Free(a)
  <2>1. B = {}
    BY <1>2, <1>3 DEF Heap, Tiled
  <2>2. count = 0
    BY <2>1, FS_EmptySet
  <2> SUFFICES count + (IF Free(a) THEN 1 ELSE 0) = 1
    OBVIOUS
  <2> HIDE DEF count
  <2> QED  BY <1>3, <2>2
<1>4. CASE ~Free(a)
  <2>1. PICK e \in live : a \in Extent(e)
    BY <1>2, <1>4 DEF Heap, Tiled
  <2>2. B = {e}
    BY <2>1 DEF Heap, Tiled
  <2>3. count = 1
    BY <2>2, FS_Singleton
  <2> SUFFICES count + (IF Free(a) THEN 1 ELSE 0) = 1
    OBVIOUS
  <2> HIDE DEF count
  <2> QED  BY <1>4, <2>3
<1> QED  BY <1>3, <1>4

\* the verifier's verdict,
LEMMA HeapCoalesced ==
  ASSUME Good(mh_First), mh_Free = Cardinality(FreeSet(mh_First))
  PROVE  Coalesced
<1>1. Len(mh_First) \in Nat
  BY DEF Good
<1>2. \A i \in 1 .. Len(mh_First) :
        /\ mh_First[i].addr \in Nat /\ End(mh_First[i]) \in Nat
        /\ mh_Lower <= mh_First[i].addr /\ End(mh_First[i]) <= mh_Upper
  BY GoodTypes DEF WellPlaced
<1>3. \A i \in 1 .. Len(mh_First) : i > 1 => i - 1 \in 1 .. Len(mh_First) /\ End(mh_First[i - 1]) < mh_First[i].addr
  <2> TAKE i \in 1 .. Len(mh_First)
  <2>1. i > 1 => i - 1 \in 1 .. Len(mh_First) /\ i - 1 < i
    BY <1>1
  <2> QED  BY <2>1 DEF Good
<1>4. freelist_sane(mh_First, mh_Lower, mh_Upper)
  <2>1. \A i \in 1 .. Len(mh_First) : i > 1 => mh_First[i].addr >= End(mh_First[i - 1])
    <3> TAKE i \in 1 .. Len(mh_First)
    <3>1. i > 1 => i - 1 \in 1 .. Len(mh_First)
      BY <1>1
    <3> QED  BY <1>2, <1>3, <3>1
  <2>2. \A i \in 1 .. Len(mh_First) : mh_First[i].addr >= mh_Lower /\ End(mh_First[i]) <= mh_Upper
    BY <1>2, RegionIs
  <2> QED  BY <2>1, <2>2 DEF freelist_sane
<1>5. \A i \in 1 .. Len(mh_First) - 1 : End(mh_First[i]) < mh_First[i + 1].addr
  <2> TAKE i \in 1 .. Len(mh_First) - 1
  <2>1. i \in 1 .. Len(mh_First) /\ i + 1 \in 1 .. Len(mh_First) /\ i < i + 1
    BY <1>1
  <2> QED  BY <2>1 DEF Good
<1> QED  BY <1>4, <1>5, SumIsCount DEF Coalesced

\* and NullIsExhaustion: a free range lies in one chunk, as no two chunks touch,
\* and a chunk that holds the size holds the rounded size.
LEMMA HeapExhaustion ==
  ASSUME Good(mh_First), mh_Free = Cardinality(FreeSet(mh_First))
  PROVE  NullIsExhaustion
<1> SUFFICES ASSUME NEW size \in Sizes \ {0}, NEW reverse \in BOOLEAN, ~Succeeds(size, reverse),
                    NEW a \in Addr, a + size <= mh_Upper, a % MEMCHUNK_TOTAL = 0,
                    \A x \in a .. a + size - 1 : Free(x)
             PROVE  FALSE
  BY DEF NullIsExhaustion, Addr
<1> DEFINE l == mh_First
           b == ROUNDUP(size)
<1>1. size \in Nat /\ size > 0 /\ size # 0 /\ SizeOK(size)
  BY MemHeaderAssumption, RegionIs, Granularity DEF SizeOK, M
<1>2. b \in Nat /\ b > 0 /\ size <= b /\ \A y \in Nat : Aligned(y) /\ size <= y => b <= y
  BY <1>1, SizeIs
<1>3. a \in Nat /\ Aligned(a)
  BY RegionIs DEF Addr, Aligned, M
<1>4. l \in Seq(Chunk) /\ Len(l) \in Nat
  BY DEF Good
<1>5. \A i \in 1 .. Len(l) : l[i].addr \in Nat /\ l[i].bytes \in Nat /\ End(l[i]) \in Nat
                            /\ End(l[i]) = l[i].addr + l[i].bytes /\ l[i].addr < End(l[i])
  BY GoodTypes
<1> HIDE DEF l, b
<1>6. \A x \in a .. a + size - 1 : \E i \in 1 .. Len(l) : x >= l[i].addr /\ x < End(l[i])
  BY DEF Free, l
<1>7. PICK i \in 1 .. Len(l) : a >= l[i].addr /\ a < End(l[i])
  <2>1. a \in a .. a + size - 1
    BY <1>1, <1>3
  <2> QED  BY <1>6, <2>1
<1>8. a + size <= End(l[i])
  <2> SUFFICES ASSUME End(l[i]) < a + size PROVE FALSE
    BY <1>1, <1>3, <1>5
  <2>1. End(l[i]) \in a .. a + size - 1
    BY <1>1, <1>3, <1>5, <1>7
  <2>2. PICK j \in 1 .. Len(l) : End(l[i]) >= l[j].addr /\ End(l[i]) < End(l[j])
    BY <1>6, <2>1
  <2>3. i < j \/ j < i \/ i = j
    BY <1>4
  <2>4. (i < j => End(l[i]) < l[j].addr) /\ (j < i => End(l[j]) < l[i].addr)
    BY DEF Good, l
  <2> QED  BY <1>5, <2>2, <2>3, <2>4
<1>9. b <= End(l[i]) - a /\ b <= l[i].bytes
  <2>1. Aligned(l[i].addr) /\ Aligned(l[i].bytes)
    BY GoodTypes DEF WellPlaced, l
  <2>2. Aligned(End(l[i])) /\ Aligned(End(l[i]) - a)
    <3>1. l[i].addr \in Int /\ l[i].bytes \in Int /\ End(l[i]) \in Int /\ a \in Int
      BY <1>3, <1>5
    <3>2. Aligned(l[i].addr + l[i].bytes)
      BY <2>1, <3>1, AlignedSum
    <3>3. Aligned(End(l[i]))
      BY <1>5, <3>2
    <3> QED  BY <1>3, <3>1, <3>3, AlignedSum
  <2>3. End(l[i]) - a \in Nat /\ size <= End(l[i]) - a
    BY <1>1, <1>3, <1>5, <1>8
  <2>4. b <= End(l[i]) - a
    BY <1>2, <2>2, <2>3
  <2> QED  BY <1>2, <1>3, <1>5, <1>7, <2>4
<1>10. Pick(mh_First, ROUNDUP(size), reverse) # 0
  <2>1. \E k \in 1 .. Len(l) : l[k].bytes >= b
    BY <1>2, <1>5, <1>9
  <2>2. Pick(l, b, reverse) # 0
    BY <1>2, <1>4, <2>1, PickIs
  <2> QED  BY <2>2 DEF l, b
<1>11. mh_Free >= ROUNDUP(size)
  <2>1. Span(a, b) \subseteq FreeSet(l)
    <3> SUFFICES ASSUME NEW x \in Span(a, b) PROVE x \in Nat /\ Covers(l[i], x)
      BY DEF FreeSet
    <3> QED  BY <1>2, <1>3, <1>5, <1>7, <1>9 DEF Span, Covers
  <2>2. IsFiniteSet(FreeSet(l)) /\ Cardinality(FreeSet(l)) \in Nat
    BY FreeFinite DEF l
  <2>3. b <= Cardinality(FreeSet(l))
    BY <1>2, <1>3, <2>1, <2>2, TakeCount
  <2> QED  BY <1>2, <2>2, <2>3 DEF l, b
<1> QED  BY <1>1, <1>10, <1>11 DEF Succeeds

-----------------------------------------------------------------------------
(* The client of mem.c *)

MemInv == Heap(mh_First, live) /\ mh_Free = Cardinality(FreeSet(mh_First))

LEMMA SizesOK ==
  ASSUME NEW size \in Sizes, size # 0
  PROVE  SizeOK(size)
BY MemHeaderAssumption, RegionIs, Granularity DEF SizeOK, M

LEMMA MemInductive ==
  ASSUME MemInv, [MemNext]_memVars
  PROVE  MemInv'
<1> USE DEF MemInv
<1>1. CASE UNCHANGED memVars
  BY <1>1 DEF memVars, Heap, Tiled, Extent
<1>2. ASSUME NEW size \in Sizes, NEW reverse \in BOOLEAN, Allocate(size, reverse) PROVE MemInv'
  <2> DEFINE i == Pick(mh_First, ROUNDUP(size), reverse)
             d == [addr |-> mh_First[i].addr, size |-> size]
  <2>1. size # 0 /\ i # 0 /\ SizeOK(size)
    BY <1>2, SizesOK DEF Allocate, Succeeds
  <2>2. ROUNDUP(size) \in Nat /\ mh_First \in Seq(Chunk)
    BY <2>1, SizeIs DEF Heap, Good
  <2>3. i \in 1 .. Len(mh_First) /\ ROUNDUP(size) <= mh_First[i].bytes
    <3>1. i \in 1 .. Len(mh_First) /\ mh_First[i].bytes >= ROUNDUP(size)
      BY <2>1, <2>2, PickIs
    <3> HIDE DEF i
    <3>2. mh_First[i].bytes \in Nat
      BY <3>1, GoodTypes DEF Heap
    <3> QED  BY <2>2, <3>1, <3>2
  <2>4. mh_First' = TakeFrom(mh_First, i, ROUNDUP(size)) /\ mh_Free' = mh_Free - ROUNDUP(size) /\ live' = live \cup {d}
    BY <1>2 DEF Allocate
  <2> HIDE DEF i
  <2>5. /\ Heap(TakeFrom(mh_First, i, ROUNDUP(size)), live \cup {d})
        /\ Cardinality(FreeSet(TakeFrom(mh_First, i, ROUNDUP(size)))) = Cardinality(FreeSet(mh_First)) - ROUNDUP(size)
    BY <2>1, <2>3, HeapTake
  <2> HIDE DEF d
  <2>6. Heap(mh_First', live')
    BY <2>4, <2>5
  <2> QED  BY <2>4, <2>5, <2>6
<1>3. ASSUME NEW e \in live, NEW off \in {0, 1}, FreeLive(e, off) PROVE MemInv'
  <2>1. e.addr \in Nat /\ e.size \in Nat /\ SizeOK(e.size) /\ Aligned(e.addr)
    BY ExtentIs DEF Heap
  <2>2. off \in 0 .. M - 1 /\ off < e.size /\ off \in Nat
    BY <1>3, Granularity DEF FreeLive
  <2>3. RoundDown(e.addr + off) = e.addr /\ ((e.addr + off) % M) = off
    BY <2>1, <2>2, RoundDownOffset
  <2>4. e.size - off # 0 /\ e.size - off + off = e.size
    BY <2>1, <2>2
  <2>5. /\ ~FreeTwice(mh_First, e.addr, ROUNDUP(e.size))
        /\ Heap(GiveBack(mh_First, e.addr, ROUNDUP(e.size)), live \ {e})
        /\ Cardinality(FreeSet(GiveBack(mh_First, e.addr, ROUNDUP(e.size)))) = Cardinality(FreeSet(mh_First)) + ROUNDUP(e.size)
    BY HeapGive
  <2>6. ROUNDUP(e.size - off + ((e.addr + off) % MEMCHUNK_TOTAL)) = ROUNDUP(e.size)
    BY <2>3, <2>4 DEF M
  <2>7. /\ mh_First' = GiveBack(mh_First, e.addr, ROUNDUP(e.size)) /\ mh_Free' = mh_Free + ROUNDUP(e.size)
        /\ live' = live \ {e}
    BY <1>3, <2>3, <2>4, <2>5, <2>6 DEF FreeLive, Deallocate
  <2>8. Heap(mh_First', live')
    BY <2>5, <2>7
  <2> QED  BY <2>5, <2>7, <2>8
<1>4. ASSUME NEW a \in mh_Lower .. mh_Upper - 1, NEW size \in Sizes \ {0}, FreeAgain(a, size) PROVE UNCHANGED memVars
  <2>1. a \in Nat /\ SizeOK(size) /\ size \in Nat /\ size > 0
    BY RegionIs, SizesOK, SizeIs
  <2>2. /\ RoundDown(a) \in Nat /\ RoundDown(a) <= a /\ (a % M) = a - RoundDown(a) /\ (a % M) \in 0 .. M - 1
    BY <2>1, RoundDownIs
  <2> DEFINE z == size + (a % MEMCHUNK_TOTAL)
  <2>3. z \in Nat /\ z + M <= Word /\ z = size + (a - RoundDown(a))
    BY <2>1, <2>2, RegionIs, Granularity DEF SizeOK, M
  <2> HIDE DEF z
  <2>4. ROUNDUP(z) \in Nat /\ z <= ROUNDUP(z)
    BY <2>3, RoundUpIs
  <2>5. PICK i \in 1 .. Len(mh_First) : a < End(mh_First[i]) /\ a + size > mh_First[i].addr
    BY <1>4 DEF FreeAgain
  <2>6. mh_First[i].addr \in Nat /\ End(mh_First[i]) \in Nat
    BY GoodTypes DEF Heap
  <2>7. RoundDown(a) < End(mh_First[i]) /\ mh_First[i].addr < RoundDown(a) + ROUNDUP(z)
    BY <2>1, <2>2, <2>3, <2>4, <2>5, <2>6
  <2>8. FreeTwice(mh_First, RoundDown(a), ROUNDUP(z))
    BY <2>2, <2>4, <2>7, RefusedTwice DEF Heap
  <2> QED  BY <1>4, <2>8 DEF FreeAgain, Deallocate, memVars, z
<1>5. ASSUME NEW size \in Sizes, NEW reverse \in BOOLEAN, AllocateNull(size, reverse) PROVE UNCHANGED memVars
  BY <1>5 DEF AllocateNull
<1> QED  BY <1>1, <1>2, <1>3, <1>4, <1>5 DEF MemNext

\* The allocator keeps a sound, merged free list that tiles the region together
\* with the blocks (mem.c Allocate, Deallocate), whatever sizes are asked for.
THEOREM MemInvariant == MemSpec => []MemInv
<1>1. MemInit => MemInv
  BY HeapStarts DEF MemInv
<1>2. MemInv /\ [MemNext]_memVars => MemInv'
  BY MemInductive
<1> QED  BY <1>1, <1>2, PTL DEF MemSpec

\* Memory is never handed out twice and never lost, by any mix of allocations,
\* frees and refused double frees (mem.c Allocate, Deallocate).
THEOREM NoByteTwice == MemSpec => []Tiling
<1>1. MemInv => Tiling
  BY HeapTiles DEF MemInv
<1> QED  BY <1>1, MemInvariant, PTL

\* The verifier's checks hold after every call, and NULL means exhaustion
\* (mem.c freelist_sane, free_sum, Allocate).
THEOREM AllocatorSound == MemSpec => [](Coalesced /\ NullIsExhaustion)
<1>1. MemInv => Coalesced /\ NullIsExhaustion
  BY HeapCoalesced, HeapExhaustion DEF MemInv, Heap
<1> QED  BY <1>1, MemInvariant, PTL

-----------------------------------------------------------------------------
(* The workers of kern.c *)

\* They call the kernel as any worker with Forbid and Permit may.
LEMMA KernelSteps == [KHNext]_khVars => [Next]_vars
<1> SUFFICES ASSUME [KHNext]_khVars PROVE [Next]_vars
  OBVIOUS
<1>1. ASSUME NEW t \in Task, TaskStep(t) PROVE Next
  BY <1>1 DEF Next
<1>2. ASSUME NEW t \in Task, Body(t) PROVE [Next]_vars
  <2>1. CASE AllocMem(t) \/ FreeMem(t)
    <3>1. "Crit" \in Ops
      BY KernHeapAssumption
    <3>2. Call(t)
      BY <2>1, <3>1 DEF AllocMem, FreeMem, Call
    <3> QED  BY <1>1, <3>2 DEF TaskStep
  <2>2. CASE AllocateList(t) \/ DeallocateList(t)
    BY <1>1, <2>2 DEF AllocateList, DeallocateList, TaskStep
  <2>3. CASE AllocateFree(t) \/ DeallocateFree(t)
    BY <1>1, <2>3 DEF AllocateFree, DeallocateFree, TaskStep
  <2>4. CASE Stamp(t) \/ Verify(t)
    BY <2>4 DEF Stamp, Verify
  <2> QED  BY <1>2, <2>1, <2>2, <2>3, <2>4 DEF Body
<1>3. ASSUME NEW t \in Task, ForbidStore(t) \/ PermitLoad(t) \/ PermitStore(t) PROVE Next
  BY <1>1, <1>3 DEF TaskStep, KernelStep
<1>4. CASE Boot \/ Tick
  BY <1>4 DEF Next
<1>5. Workers => [Next]_vars
  BY <1>2, <1>3, <1>4 DEF Workers
<1>6. UNCHANGED khVars => UNCHANGED vars
  BY DEF khVars
<1> QED  BY <1>5, <1>6 DEF KHNext

\* kern.c runs on the kernel: what is proved of the scheduler and of Forbid and
\* Permit holds under its workers.
THEOREM WorkersOnKernel == KHSpec => Spec
<1>1. KHInit => Init
  BY DEF KHInit
<1> QED  BY <1>1, KernelSteps, PTL DEF KHSpec, Spec

FreeCount == Cardinality(FreeSet(mh_First))

KHType ==
  /\ program \in {"mem.c", "kern.c"}
  /\ at \in [Task -> {"alloc", "allocating", "stamp", "verify", "free", "freeing"}]
  /\ p \in [Task -> Nat]
  /\ intact \in [Task -> BOOLEAN]

\* A worker is inside Forbid ... Permit exactly while body() is in AllocMem or
\* FreeMem and the section is not over.
CallAt ==
  \A t \in Task :
    /\ pc[t] \in IF at[t] \in {"allocating", "freeing"} THEN {"forbid_st", "crit", "crit2"}
                                                        ELSE {"user", "permit", "permit_st"}
    /\ pc[t] = "forbid_st" => cont[t] = "crit"
    /\ pc[t] \in {"permit", "permit_st"} => cont[t] = "user"

\* The worker has a block: from the unlink in Allocate to the link in Deallocate.
Holds(t) ==
  \/ at[t] \in {"stamp", "verify", "free"}
  \/ at[t] = "allocating" /\ pc[t] = "crit2" /\ p[t] # 0
  \/ at[t] = "freeing" /\ pc[t] # "crit2"

BlockInv ==
  /\ \A t \in Task : Holds(t) => Own(t) \in live
  /\ \A e \in live : \E t \in Task : Holds(t) /\ e = Own(t)
  /\ \A t, u \in Task : Holds(t) /\ Holds(u) /\ t # u => p[t] # p[u]
  /\ \A t \in Task : IF Holds(t) \/ at[t] = "freeing" THEN p[t] # 0 ELSE p[t] = 0

\* mh_Free lags behind the list only inside a critical section.
CountInv ==
  /\ (\A t \in Task : pc[t] # "crit2") => mh_Free = FreeCount
  /\ \A t \in Task : pc[t] = "crit2" =>
       mh_Free = IF at[t] = "freeing" THEN FreeCount - bs
                 ELSE IF p[t] = 0 THEN FreeCount ELSE FreeCount + bs

\* A stamped block keeps its pattern.
MarkInv ==
  \A t \in Task : intact[t] /\ (at[t] = "verify" => \A a \in Block(t) : mem[a] = t)

KHInv ==
  /\ KHType /\ Heap(mh_First, live) /\ MarkInv
  /\ program = "mem.c" => mh_Free = FreeCount
  /\ program = "kern.c" => CallAt /\ BlockInv /\ CountInv

LEMMA BlockSizeIs == SizeOK(BlockSize) /\ bs \in Nat /\ bs > 0 /\ BlockSize \in Nat /\ BlockSize <= bs
<1>1. SizeOK(BlockSize)
  BY KernHeapAssumption, MemHeaderAssumption, RegionIs, Granularity DEF SizeOK, M
<1> QED  BY <1>1, SizeIs DEF bs

LEMMA CountType ==
  ASSUME Heap(mh_First, live)
  PROVE  FreeCount \in Nat
BY FreeFinite DEF Heap, FreeCount

LEMMA KHStarts ==
  ASSUME KHInit
  PROVE  KHInv
<1>1. /\ program \in {"mem.c", "kern.c"} /\ at = [t \in Task |-> "alloc"] /\ p = [t \in Task |-> 0]
      /\ intact = [t \in Task |-> TRUE] /\ pc = [t \in Task |-> "user"] /\ live = {}
  BY DEF KHInit, Init, MemInit
<1>2. Heap(mh_First, live) /\ mh_Free = FreeCount
  BY HeapStarts DEF KHInit, FreeCount
<1>3. KHType /\ MarkInv
  BY <1>1 DEF KHType, MarkInv
<1>4. CallAt /\ BlockInv /\ CountInv
  BY <1>1, <1>2 DEF CallAt, BlockInv, Holds, CountInv
<1> QED  BY <1>2, <1>3, <1>4 DEF KHInv

\* Two workers' blocks have no byte in common.
LEMMA BlocksApart ==
  ASSUME KHInv, program = "kern.c", NEW t \in Task, NEW u \in Task, t # u, Holds(t), Holds(u)
  PROVE  /\ Extent(Own(t)) \cap Extent(Own(u)) = {}
         /\ Extent(Own(t)) = p[t] .. p[t] + bs - 1 /\ Block(u) \subseteq Extent(Own(u))
<1>1. Own(t) \in live /\ Own(u) \in live /\ p[t] # p[u] /\ p[t] \in Nat /\ p[u] \in Nat
  BY DEF KHInv, BlockInv, KHType
<1>2. Own(t).addr = p[t] /\ Own(u).addr = p[u] /\ Own(t).size = BlockSize /\ Own(u).size = BlockSize
  BY DEF Own
<1>3. Own(t) # Own(u)
  BY <1>1, <1>2
<1>4. Extent(Own(t)) = p[t] .. p[t] + bs - 1 /\ Extent(Own(u)) = p[u] .. p[u] + bs - 1
  BY <1>2 DEF Extent, bs
<1>5. Block(u) \subseteq p[u] .. p[u] + bs - 1
  BY <1>1, BlockSizeIs DEF Block
<1> QED  BY <1>1, <1>3, <1>4, <1>5 DEF KHInv, Heap, Tiled

\* Steps that leave the heap and body() alone.
LEMMA KernelKeeps ==
  ASSUME KHInv, ForbidInv, program = "kern.c", UNCHANGED <<heapVars, program>>,
         \/ \E t \in Task : ForbidStore(t) \/ PermitLoad(t) \/ PermitStore(t)
         \/ UNCHANGED <<pc, cont>>
  PROVE  KHInv'
<1> USE DEF KHInv
<1>1. UNCHANGED <<mh_First, mh_Free, live, mem, at, p, intact, program>>
  BY DEF heapVars, workVars
<1>2. FreeCount' = FreeCount /\ KHType' /\ Heap(mh_First, live)' /\ MarkInv'
  BY <1>1 DEF FreeCount, KHType, Heap, Tiled, Extent, MarkInv, Block
<1>3. CASE UNCHANGED <<pc, cont>>
  BY <1>1, <1>2, <1>3 DEF CallAt, BlockInv, Holds, Own, CountInv
<1>4. ASSUME NEW t \in Task, ForbidStore(t) \/ PermitLoad(t) \/ PermitStore(t) PROVE KHInv'
  <2>1. /\ \E x \in {"crit", "permit_st", "user"} : pc' = [pc EXCEPT ![t] = x] /\ cont' = cont
           /\ \/ pc[t] = "forbid_st" /\ x = "crit"
              \/ pc[t] = "permit" /\ x = "permit_st"
              \/ pc[t] = "permit_st" /\ x = "user"
    BY <1>4 DEF ForbidStore, PermitLoad, PermitStore, At, Goto, CallAt
  <2>2. PICK x \in {"crit", "permit_st", "user"} :
           /\ pc' = [pc EXCEPT ![t] = x] /\ cont' = cont
           /\ \/ pc[t] = "forbid_st" /\ x = "crit"
              \/ pc[t] = "permit" /\ x = "permit_st"
              \/ pc[t] = "permit_st" /\ x = "user"
    BY <2>1
  <2>3. pc \in [Task -> Label]
    BY DEF ForbidInv, TypeOK
  <2>4. \A u \in Task : pc'[u] = IF u = t THEN x ELSE pc[u]
    BY <2>2, <2>3
  <2>5. CallAt'
    BY <1>1, <2>2, <2>4 DEF CallAt
  <2>6. \A u \in Task : (Holds(u)' <=> Holds(u)) /\ Own(u)' = Own(u)
    BY <1>1, <2>2, <2>4 DEF Holds, CallAt, Own
  <2>7. BlockInv'
    BY <1>1, <2>6 DEF BlockInv
  <2>8. \A u \in Task : pc'[u] = "crit2" <=> pc[u] = "crit2"
    BY <2>2, <2>4
  <2>9. CountInv'
    BY <1>1, <1>2, <2>8 DEF CountInv
  <2> QED  BY <1>1, <1>2, <2>5, <2>7, <2>9
<1> QED  BY <1>3, <1>4

\* How a step of t leaves the other workers' blocks alone.
LEMMA OthersKeep ==
  ASSUME NEW t \in Task, NEW u \in Task, u # t, KHType,
         at' = [at EXCEPT ![t] = at'[t]], p' = [p EXCEPT ![t] = p'[t]], pc \in [Task -> Label],
         pc' = [pc EXCEPT ![t] = pc'[t]]
  PROVE  /\ at'[u] = at[u] /\ p'[u] = p[u] /\ pc'[u] = pc[u]
         /\ (Holds(u)' <=> Holds(u)) /\ Own(u)' = Own(u) /\ Block(u)' = Block(u)
<1>1. at'[u] = at[u] /\ p'[u] = p[u] /\ pc'[u] = pc[u]
  BY DEF KHType
<1> QED  BY <1>1 DEF Holds, Own, Block

\* While one worker is in a critical section no other is.
LEMMA Alone ==
  ASSUME ForbidInv, NEW t \in Task, pc[t] \in {"crit", "crit2"}, NEW u \in Task, u # t
  PROVE  pc[u] \notin {"crit", "crit2"} /\ t # boot /\ ThisTask = t
<1>1. pc[t] \in CritLabel /\ (pc[u] \in {"crit", "crit2"} => pc[u] \in CritLabel)
  BY DEF CritLabel
<1> QED  BY <1>1, KernelAssumption DEF ForbidInv, ForbidExclusion

\* Entering AllocMem or FreeMem.
LEMMA BodyCalls ==
  ASSUME KHInv, ForbidInv, program = "kern.c", program' = program,
         NEW t \in Task, AllocMem(t) \/ FreeMem(t)
  PROVE  KHInv'
<1> USE DEF KHInv
<1>1. /\ UNCHANGED <<mh_First, mh_Free, live, mem, p, intact>>
      /\ pc[t] = "user" /\ pc' = [pc EXCEPT ![t] = "forbid_st"] /\ cont' = [cont EXCEPT ![t] = "crit"]
      /\ \/ at[t] = "alloc" /\ at' = [at EXCEPT ![t] = "allocating"]
         \/ at[t] = "free" /\ at' = [at EXCEPT ![t] = "freeing"]
  BY DEF AllocMem, FreeMem, CallCrit, ForbidLoad, At, Goto, Then
<1>2. pc \in [Task -> Label] /\ cont \in [Task -> Label]
  BY DEF ForbidInv, TypeOK
<1>3. \A u \in Task : /\ pc'[u] = IF u = t THEN "forbid_st" ELSE pc[u]
                      /\ cont'[u] = IF u = t THEN "crit" ELSE cont[u]
                      /\ u # t => at'[u] = at[u]
  BY <1>1, <1>2 DEF KHType
<1>4. at'[t] = IF at[t] = "alloc" THEN "allocating" ELSE "freeing"
  BY <1>1 DEF KHType
<1>5. KHType' /\ Heap(mh_First, live)' /\ FreeCount' = FreeCount
  BY <1>1 DEF KHType, Heap, Tiled, Extent, FreeCount
<1>6. MarkInv'
  BY <1>1, <1>3, <1>4 DEF MarkInv, Block
<1>7. CallAt'
  BY <1>1, <1>3, <1>4 DEF CallAt
<1>8. \A u \in Task : (Holds(u)' <=> Holds(u)) /\ Own(u)' = Own(u)
  BY <1>1, <1>3, <1>4 DEF Holds, Own
<1>9. BlockInv'
  BY <1>1, <1>3, <1>4, <1>8 DEF BlockInv, Holds
<1>10. CountInv'
  BY <1>1, <1>3, <1>5 DEF CountInv
<1> QED  BY <1>5, <1>6, <1>7, <1>9, <1>10

\* A worker's block lies in the region.
LEMMA OwnInside ==
  ASSUME KHInv, program = "kern.c", NEW t \in Task, Holds(t)
  PROVE  /\ Own(t) \in live /\ p[t] \in Nat
         /\ Extent(Own(t)) = p[t] .. p[t] + bs - 1
         /\ Extent(Own(t)) \subseteq Addr /\ Block(t) \subseteq Extent(Own(t))
<1>1. Own(t) \in live /\ LiveOK(live)
  BY DEF KHInv, BlockInv, Heap
<1>2. Own(t).addr = p[t] /\ Own(t).size = BlockSize
  BY DEF Own
<1>3. p[t] \in Nat /\ mh_Lower <= p[t] /\ p[t] + bs <= mh_Upper
  BY <1>1, <1>2, ExtentIs DEF bs
<1>4. Extent(Own(t)) = p[t] .. p[t] + bs - 1
  BY <1>2 DEF Extent, bs
<1>5. p[t] .. p[t] + bs - 1 \subseteq Addr
  BY <1>3, BlockSizeIs, RegionIs DEF Addr
<1>6. Block(t) \subseteq p[t] .. p[t] + bs - 1
  BY <1>3, BlockSizeIs DEF Block
<1> QED  BY <1>1, <1>3, <1>4, <1>5, <1>6

\* Stamp and verify, outside the kernel.
LEMMA BodyWorks ==
  ASSUME KHInv, ForbidInv, program = "kern.c", program' = program,
         NEW t \in Task, Stamp(t) \/ Verify(t)
  PROVE  KHInv'
<1> USE DEF KHInv
<1>1. /\ UNCHANGED <<mh_First, mh_Free, live, p, pc, cont>> /\ pc[t] = "user"
      /\ \/ at[t] = "stamp" /\ at' = [at EXCEPT ![t] = "verify"]
         \/ at[t] = "verify" /\ at' = [at EXCEPT ![t] = "free"]
  BY DEF Stamp, Verify, AtStmt, At, Then, vars, callVars
<1>2. \A u \in Task : u # t => at'[u] = at[u]
  BY <1>1 DEF KHType
<1>3. at'[t] = IF at[t] = "stamp" THEN "verify" ELSE "free"
  BY <1>1 DEF KHType
<1>4. \A u \in Task : (Holds(u)' <=> Holds(u)) /\ Own(u)' = Own(u) /\ Block(u)' = Block(u)
  BY <1>1, <1>2, <1>3 DEF Holds, Own, Block
<1>5. Heap(mh_First, live)' /\ FreeCount' = FreeCount
  BY <1>1 DEF Heap, Tiled, Extent, FreeCount
<1>6. KHType' /\ MarkInv'
  <2>1. CASE Stamp(t)
    <3>1. mem' = [a \in Addr |-> IF a \in Block(t) THEN t ELSE mem[a]] /\ UNCHANGED intact /\ at[t] = "stamp"
      BY <2>1 DEF Stamp, AtStmt
    <3>2. KHType'
      BY <1>1, <3>1 DEF KHType
    <3>3. Block(t) \subseteq Addr
      BY <3>1, OwnInside DEF Holds
    <3>4. ASSUME NEW u \in Task, at'[u] = "verify", NEW a \in Block(u)' PROVE mem'[a] = u
      <4>1. CASE u = t
        BY <1>4, <3>1, <3>3, <3>4, <4>1
      <4>2. CASE u # t
        <5>1. Holds(u) /\ Holds(t) /\ at[u] = "verify" /\ a \in Block(u)
          BY <1>2, <1>4, <3>1, <3>4, <4>2 DEF Holds
        <5>2. a \notin Block(t) /\ a \in Extent(Own(u))
          BY <4>2, <5>1, BlocksApart
        <5>3. a \in Addr
          BY <5>1, <5>2, OwnInside
        <5> QED  BY <3>1, <5>1, <5>2, <5>3 DEF MarkInv
      <4> QED  BY <4>1, <4>2
    <3> QED  BY <3>1, <3>2, <3>4 DEF MarkInv
  <2>2. CASE Verify(t)
    <3>1. intact' = [intact EXCEPT ![t] = \A a \in Block(t) : mem[a] = t] /\ UNCHANGED mem /\ at[t] = "verify"
      BY <2>2 DEF Verify, AtStmt
    <3>2. \A a \in Block(t) : mem[a] = t
      BY <3>1 DEF MarkInv
    <3>3. intact' = [intact EXCEPT ![t] = TRUE]
      BY <3>1, <3>2
    <3>4. KHType' /\ \A u \in Task : intact'[u]
      BY <1>1, <3>3 DEF KHType, MarkInv
    <3> QED  BY <1>2, <1>3, <1>4, <3>1, <3>4 DEF MarkInv
  <2> QED  BY <2>1, <2>2
<1>7. CallAt' /\ CountInv'
  BY <1>1, <1>2, <1>3, <1>5 DEF CallAt, CountInv
<1>8. BlockInv'
  BY <1>1, <1>2, <1>3, <1>4 DEF BlockInv, Holds
<1> QED  BY <1>5, <1>6, <1>7, <1>8

\* The search and the unlink of Allocate.
LEMMA BodyAllocates ==
  ASSUME KHInv, ForbidInv, program = "kern.c", program' = program,
         NEW t \in Task, AllocateList(t)
  PROVE  KHInv'
<1> USE DEF KHInv
<1> DEFINE i == IF mh_Free < bs THEN 0 ELSE Pick(mh_First, bs, FALSE)
           d == [addr |-> mh_First[i].addr, size |-> BlockSize]
<1>1. /\ at[t] = "allocating" /\ pc[t] = "crit" /\ pc' = [pc EXCEPT ![t] = "crit2"]
      /\ UNCHANGED <<mh_Free, mem, at, intact, cont>>
      /\ IF i = 0
           THEN p' = [p EXCEPT ![t] = 0] /\ UNCHANGED <<mh_First, live>>
           ELSE /\ p' = [p EXCEPT ![t] = mh_First[i].addr]
                /\ live' = live \cup {d} /\ mh_First' = TakeFrom(mh_First, i, bs)
  BY DEF AllocateList, CritFirst, At, Goto
<1>2. pc \in [Task -> Label]
  BY DEF ForbidInv, TypeOK
<1>3. \A u \in Task : pc'[u] = IF u = t THEN "crit2" ELSE pc[u]
  BY <1>1, <1>2
<1>4. \A u \in Task : pc[u] # "crit2"
  BY <1>1, Alone
<1>5. mh_Free = FreeCount
  BY <1>4 DEF CountInv
<1>6. CallAt'
  BY <1>1, <1>3 DEF CallAt
<1>7. ~Holds(t) /\ p[t] = 0
  BY <1>1 DEF Holds, BlockInv
<1> HIDE DEF i
<1>8. CASE i = 0
  <2>1. p' = p /\ UNCHANGED <<mh_First, live>>
    <3>1. p' = [p EXCEPT ![t] = 0]
      BY <1>1, <1>8
    <3> QED  BY <1>1, <1>7, <1>8, <3>1 DEF KHType
  <2>2. KHType' /\ Heap(mh_First, live)' /\ MarkInv' /\ FreeCount' = FreeCount
    BY <1>1, <2>1 DEF KHType, Heap, Tiled, Extent, MarkInv, Block, FreeCount
  <2>3. \A u \in Task : (Holds(u)' <=> Holds(u)) /\ Own(u)' = Own(u)
    BY <1>1, <1>3, <1>7, <2>1 DEF Holds, Own
  <2>4. BlockInv'
    BY <1>1, <2>1, <2>3 DEF BlockInv
  <2>5. CountInv'
    BY <1>1, <1>3, <1>4, <1>5, <1>7, <2>1, <2>2 DEF CountInv
  <2> QED  BY <1>6, <2>2, <2>4, <2>5
<1>9. CASE i # 0
  <2>1. p' = [p EXCEPT ![t] = mh_First[i].addr] /\ live' = live \cup {d} /\ mh_First' = TakeFrom(mh_First, i, bs)
    BY <1>1, <1>9
  <2>2. i \in 1 .. Len(mh_First) /\ bs <= mh_First[i].bytes
    <3>1. i = Pick(mh_First, bs, FALSE)
      BY <1>9 DEF i
    <3>2. mh_First \in Seq(Chunk)
      BY DEF Heap, Good
    <3>3. i \in 1 .. Len(mh_First) /\ mh_First[i].bytes >= bs
      BY <1>9, <3>1, <3>2, BlockSizeIs, PickIs
    <3>4. mh_First[i].bytes \in Nat
      BY <3>3, GoodTypes DEF Heap
    <3> QED  BY <3>3, <3>4, BlockSizeIs
  <2>3. mh_First[i].addr \in Nat /\ mh_First[i].addr # 0
    BY <2>2, GoodTypes, RegionIs DEF Heap, WellPlaced
  <2>4. /\ Heap(TakeFrom(mh_First, i, bs), live \cup {d})
        /\ d \notin live /\ \A e \in live : e.addr # d.addr
        /\ Cardinality(FreeSet(TakeFrom(mh_First, i, bs))) = Cardinality(FreeSet(mh_First)) - bs
    <3>1. SizeOK(BlockSize) /\ ROUNDUP(BlockSize) <= mh_First[i].bytes /\ Heap(mh_First, live)
      BY <2>2, BlockSizeIs DEF bs
    <3>2. /\ Heap(TakeFrom(mh_First, i, ROUNDUP(BlockSize)), live \cup {d})
          /\ Cardinality(FreeSet(TakeFrom(mh_First, i, ROUNDUP(BlockSize))))
               = Cardinality(FreeSet(mh_First)) - ROUNDUP(BlockSize)
      BY <2>2, <3>1, HeapTake
    <3>3. d \notin live /\ \A e \in live : e.addr # d.addr /\ Extent(d) \cap Extent(e) = {}
      BY <2>2, <3>1, HeapTake
    <3> QED  BY <3>2, <3>3 DEF bs
  <2>5. Heap(mh_First', live')
    BY <2>1, <2>4
  <2>6. FreeCount' = FreeCount - bs
    BY <2>1, <2>4 DEF FreeCount
  <2>7. KHType' /\ p'[t] = mh_First[i].addr /\ \A u \in Task : u # t => p'[u] = p[u]
    BY <1>1, <2>1, <2>3 DEF KHType
  <2>8. Holds(t)' /\ Own(t)' = d
    BY <1>1, <1>3, <2>3, <2>7 DEF Holds, Own
  <2>9. \A u \in Task : u # t => (Holds(u)' <=> Holds(u)) /\ Own(u)' = Own(u) /\ Block(u)' = Block(u)
    BY <1>1, <1>3, <2>7 DEF Holds, Own, Block
  <2>10. MarkInv'
    BY <1>1, <2>9 DEF MarkInv
  <2>11. d.addr = mh_First[i].addr
    OBVIOUS
  <2> HIDE DEF d
  <2>12. ASSUME NEW u \in Task, u # t, Holds(u) PROVE p[u] # p'[t]
    <3>1. Own(u) \in live /\ Own(u).addr = p[u]
      BY <2>12 DEF BlockInv, Own
    <3> QED  BY <2>4, <2>7, <2>11, <3>1
  <2>13. BlockInv'
    <3>1. \A u \in Task : Holds(u)' => Own(u)' \in live'
      BY <2>1, <2>8, <2>9 DEF BlockInv
    <3>2. \A e \in live' : \E u \in Task : Holds(u)' /\ e = Own(u)'
      <4> SUFFICES ASSUME NEW e \in live' PROVE \E u \in Task : Holds(u)' /\ e = Own(u)'
        OBVIOUS
      <4>1. CASE e = d
        BY <2>8, <4>1
      <4>2. CASE e \in live
        <5>1. PICK u \in Task : Holds(u) /\ e = Own(u)
          BY <4>2 DEF BlockInv
        <5>2. u # t
          BY <1>7, <5>1
        <5> QED  BY <2>9, <5>1, <5>2
      <4> QED  BY <2>1, <4>1, <4>2
    <3>3. \A u, v \in Task : Holds(u)' /\ Holds(v)' /\ u # v => p'[u] # p'[v]
      BY <2>7, <2>9, <2>12 DEF BlockInv
    <3>4. \A u \in Task : IF Holds(u)' \/ at'[u] = "freeing" THEN p'[u] # 0 ELSE p'[u] = 0
      BY <1>1, <2>3, <2>7, <2>8, <2>9 DEF BlockInv
    <3> QED  BY <3>1, <3>2, <3>3, <3>4 DEF BlockInv
  <2>14. mh_Free' = FreeCount' + bs
    BY <1>1, <1>5, <2>6, BlockSizeIs, CountType
  <2>15. CountInv'
    BY <1>1, <1>3, <1>4, <2>3, <2>7, <2>14 DEF CountInv
  <2> QED  BY <1>6, <2>5, <2>7, <2>10, <2>13, <2>15
<1> QED  BY <1>8, <1>9


\* The count and the MEMF_CLEAR of Allocate: only bytes of the worker's own block
\* are cleared.
LEMMA BodyCounts ==
  ASSUME KHInv, ForbidInv, program = "kern.c", program' = program,
         NEW t \in Task, AllocateFree(t)
  PROVE  KHInv'
<1> USE DEF KHInv
<1>1. /\ at[t] = "allocating" /\ pc[t] = "crit2"
      /\ pc' = [pc EXCEPT ![t] = "permit"] /\ cont' = [cont EXCEPT ![t] = "user"]
      /\ UNCHANGED <<mh_First, live, p, intact>>
      /\ IF p[t] = 0
           THEN at' = [at EXCEPT ![t] = "alloc"] /\ UNCHANGED <<mh_Free, mem>>
           ELSE /\ mh_Free' = mh_Free - bs /\ at' = [at EXCEPT ![t] = "stamp"]
                /\ mem' = [a \in Addr |-> IF a \in p[t] .. p[t] + bs - 1 THEN 0 ELSE mem[a]]
  BY DEF AllocateFree, CritLast, PermitThen, At, Goto, Then
<1>2. pc \in [Task -> Label] /\ cont \in [Task -> Label]
  BY DEF ForbidInv, TypeOK
<1>3. \A u \in Task : /\ pc'[u] = IF u = t THEN "permit" ELSE pc[u]
                      /\ cont'[u] = IF u = t THEN "user" ELSE cont[u]
                      /\ u # t => at'[u] = at[u]
  BY <1>1, <1>2 DEF KHType
<1>4. at'[t] = IF p[t] = 0 THEN "alloc" ELSE "stamp"
  BY <1>1 DEF KHType
<1>5. KHType' /\ Heap(mh_First, live)' /\ FreeCount' = FreeCount
  BY <1>1 DEF KHType, Heap, Tiled, Extent, FreeCount
<1>6. \A u \in Task : (Holds(u)' <=> Holds(u)) /\ Own(u)' = Own(u) /\ Block(u)' = Block(u)
  BY <1>1, <1>3, <1>4 DEF Holds, Own, Block
<1>7. CallAt'
  BY <1>1, <1>3, <1>4 DEF CallAt
<1>8. BlockInv'
  BY <1>1, <1>3, <1>4, <1>6 DEF BlockInv, Holds
<1>9. CountInv'
  <2>1. \A u \in Task : pc'[u] # "crit2"
    BY <1>1, <1>3, Alone
  <2>2. mh_Free = IF p[t] = 0 THEN FreeCount ELSE FreeCount + bs
    BY <1>1 DEF CountInv
  <2>3. mh_Free' = FreeCount
    BY <1>1, <2>2, BlockSizeIs, CountType
  <2> QED  BY <1>5, <2>1, <2>3 DEF CountInv
<1>10. MarkInv'
  <2> SUFFICES ASSUME NEW u \in Task, at'[u] = "verify", NEW a \in Block(u) PROVE mem'[a] = u
    BY <1>1, <1>6 DEF MarkInv
  <2>1. u # t /\ at[u] = "verify" /\ Holds(u)
    BY <1>3, <1>4 DEF Holds
  <2>2. mem[a] = u
    BY <2>1 DEF MarkInv
  <2>3. CASE p[t] = 0
    BY <1>1, <2>2, <2>3
  <2>4. CASE p[t] # 0
    <3>1. Holds(t)
      BY <1>1, <2>4 DEF Holds
    <3>2. a \in Extent(Own(u)) /\ a \notin p[t] .. p[t] + bs - 1
      <4>1. /\ Extent(Own(t)) \cap Extent(Own(u)) = {} /\ Extent(Own(t)) = p[t] .. p[t] + bs - 1
            /\ Block(u) \subseteq Extent(Own(u))
        BY <2>1, <3>1, BlocksApart
      <4> QED  BY <4>1
    <3>3. a \in Addr
      BY <2>1, <3>2, OwnInside
    <3> QED  BY <1>1, <2>2, <2>4, <3>2, <3>3
  <2> QED  BY <2>3, <2>4
<1> QED  BY <1>5, <1>7, <1>8, <1>9, <1>10

\* The search and the link of Deallocate: the worker's block is never refused.
LEMMA BodyFrees ==
  ASSUME KHInv, ForbidInv, program = "kern.c", program' = program,
         NEW t \in Task, DeallocateList(t)
  PROVE  KHInv'
<1> USE DEF KHInv
<1>1. /\ at[t] = "freeing" /\ pc[t] = "crit" /\ pc' = [pc EXCEPT ![t] = "crit2"]
      /\ UNCHANGED <<mh_Free, mem, at, intact, cont>> /\ live' = live \ {Own(t)}
      /\ IF FreeTwice(mh_First, p[t], bs)
           THEN p' = [p EXCEPT ![t] = 0] /\ UNCHANGED mh_First
           ELSE mh_First' = GiveBack(mh_First, p[t], bs) /\ UNCHANGED p
  BY DEF DeallocateList, CritFirst, At, Goto
<1>2. pc \in [Task -> Label]
  BY DEF ForbidInv, TypeOK
<1>3. \A u \in Task : pc'[u] = IF u = t THEN "crit2" ELSE pc[u]
  BY <1>1, <1>2
<1>4. \A u \in Task : pc[u] # "crit2"
  BY <1>1, Alone
<1>5. mh_Free = FreeCount
  BY <1>4 DEF CountInv
<1>6. Holds(t) /\ Own(t) \in live
  BY <1>1 DEF Holds, BlockInv
<1>7. Own(t).addr = p[t] /\ ROUNDUP(Own(t).size) = bs
  BY DEF Own, bs
<1>8. /\ ~FreeTwice(mh_First, p[t], bs) /\ Heap(GiveBack(mh_First, p[t], bs), live \ {Own(t)})
      /\ Cardinality(FreeSet(GiveBack(mh_First, p[t], bs))) = Cardinality(FreeSet(mh_First)) + bs
  <2>1. /\ ~FreeTwice(mh_First, Own(t).addr, ROUNDUP(Own(t).size))
        /\ Heap(GiveBack(mh_First, Own(t).addr, ROUNDUP(Own(t).size)), live \ {Own(t)})
        /\ Cardinality(FreeSet(GiveBack(mh_First, Own(t).addr, ROUNDUP(Own(t).size))))
             = Cardinality(FreeSet(mh_First)) + ROUNDUP(Own(t).size)
    BY <1>6, HeapGive
  <2> QED  BY <1>7, <2>1
<1>9. mh_First' = GiveBack(mh_First, p[t], bs) /\ p' = p
  BY <1>1, <1>8
<1>10. Heap(mh_First', live') /\ FreeCount' = FreeCount + bs
  BY <1>1, <1>8, <1>9 DEF FreeCount
<1>11. KHType' /\ MarkInv'
  BY <1>1, <1>9 DEF KHType, MarkInv, Block
<1>12. CallAt'
  BY <1>1, <1>3 DEF CallAt
<1>13. /\ ~Holds(t)' /\ \A u \in Task : u # t => (Holds(u)' <=> Holds(u))
       /\ \A u \in Task : Own(u)' = Own(u)
  BY <1>1, <1>3, <1>9 DEF Holds, Own
<1>14. \A u \in Task : u # t /\ Holds(u) => Own(u) # Own(t)
  BY <1>6 DEF BlockInv, Own
<1>15. BlockInv'
  <2>1. \A u \in Task : Holds(u)' => Own(u)' \in live'
    BY <1>1, <1>13, <1>14 DEF BlockInv
  <2>2. \A e \in live' : \E u \in Task : Holds(u)' /\ e = Own(u)'
    BY <1>1, <1>13 DEF BlockInv
  <2>3. \A u, v \in Task : Holds(u)' /\ Holds(v)' /\ u # v => p'[u] # p'[v]
    BY <1>9, <1>13 DEF BlockInv
  <2>4. \A u \in Task : IF Holds(u)' \/ at'[u] = "freeing" THEN p'[u] # 0 ELSE p'[u] = 0
    BY <1>1, <1>6, <1>9, <1>13 DEF BlockInv
  <2> QED  BY <2>1, <2>2, <2>3, <2>4 DEF BlockInv
<1>16. mh_Free' = FreeCount' - bs
  BY <1>1, <1>5, <1>10, BlockSizeIs, CountType
<1>17. CountInv'
  BY <1>1, <1>3, <1>4, <1>16 DEF CountInv
<1> QED  BY <1>1, <1>10, <1>11, <1>12, <1>15, <1>17

\* The count of Deallocate.
LEMMA BodyReturns ==
  ASSUME KHInv, ForbidInv, program = "kern.c", program' = program,
         NEW t \in Task, DeallocateFree(t)
  PROVE  KHInv'
<1> USE DEF KHInv
<1>1. /\ at[t] = "freeing" /\ pc[t] = "crit2"
      /\ pc' = [pc EXCEPT ![t] = "permit"] /\ cont' = [cont EXCEPT ![t] = "user"]
      /\ UNCHANGED <<mh_First, live, mem, intact>>
      /\ mh_Free' = IF p[t] = 0 THEN mh_Free ELSE mh_Free + bs
      /\ p' = [p EXCEPT ![t] = 0] /\ at' = [at EXCEPT ![t] = "alloc"]
  BY DEF DeallocateFree, CritLast, PermitThen, At, Goto, Then
<1>2. pc \in [Task -> Label] /\ cont \in [Task -> Label]
  BY DEF ForbidInv, TypeOK
<1>3. /\ at'[t] = "alloc" /\ p'[t] = 0 /\ pc'[t] = "permit" /\ cont'[t] = "user"
      /\ \A u \in Task : u # t => at'[u] = at[u] /\ p'[u] = p[u] /\ pc'[u] = pc[u] /\ cont'[u] = cont[u]
  BY <1>1, <1>2 DEF KHType
<1>4. KHType' /\ Heap(mh_First, live)' /\ FreeCount' = FreeCount
  BY <1>1 DEF KHType, Heap, Tiled, Extent, FreeCount
<1>5. ~Holds(t) /\ ~Holds(t)'
  BY <1>1, <1>3 DEF Holds
<1>6. \A u \in Task : u # t => (Holds(u)' <=> Holds(u)) /\ Own(u)' = Own(u) /\ Block(u)' = Block(u)
  BY <1>3 DEF Holds, Own, Block
<1>7. CallAt'
  BY <1>3 DEF CallAt
<1>8. MarkInv'
  BY <1>1, <1>3, <1>6 DEF MarkInv
<1>9. BlockInv'
  <2>1. \A u \in Task : Holds(u)' => Own(u)' \in live'
    BY <1>1, <1>5, <1>6 DEF BlockInv
  <2>2. \A e \in live' : \E u \in Task : Holds(u)' /\ e = Own(u)'
    BY <1>1, <1>5, <1>6 DEF BlockInv
  <2>3. \A u, v \in Task : Holds(u)' /\ Holds(v)' /\ u # v => p'[u] # p'[v]
    BY <1>3, <1>5, <1>6 DEF BlockInv
  <2>4. \A u \in Task : IF Holds(u)' \/ at'[u] = "freeing" THEN p'[u] # 0 ELSE p'[u] = 0
    BY <1>3, <1>5, <1>6 DEF BlockInv
  <2> QED  BY <2>1, <2>2, <2>3, <2>4 DEF BlockInv
<1>10. CountInv'
  <2>1. \A u \in Task : pc'[u] # "crit2"
    BY <1>1, <1>3, Alone
  <2>2. mh_Free = FreeCount - bs /\ p[t] # 0
    BY <1>1 DEF CountInv, BlockInv
  <2>3. mh_Free' = FreeCount
    BY <1>1, <2>2, BlockSizeIs, CountType
  <2> QED  BY <1>4, <2>1, <2>3 DEF CountInv
<1> QED  BY <1>1, <1>4, <1>7, <1>8, <1>9, <1>10

LEMMA KHInductive ==
  ASSUME KHInv, ForbidInv, [KHNext]_khVars
  PROVE  KHInv'
<1>1. CASE program = "kern.c" /\ Workers /\ UNCHANGED program
  <2>1. ASSUME NEW t \in Task, Body(t) PROVE KHInv'
    BY <1>1, <2>1, BodyCalls, BodyWorks, BodyAllocates, BodyCounts, BodyFrees, BodyReturns DEF Body
  <2>2. CASE (\E t \in Task : ForbidStore(t) \/ PermitLoad(t) \/ PermitStore(t)) /\ UNCHANGED heapVars
    BY <1>1, <2>2, KernelKeeps
  <2>3. CASE (Boot \/ Tick) /\ UNCHANGED heapVars
    <3>1. UNCHANGED <<pc, cont>>
      <4>1. Boot => UNCHANGED callVars
        BY DEF Boot, spawn, arm, main_exit
      <4>2. Tick => UNCHANGED callVars
        BY DEF Tick, tick_off, tick_init, tick_forbidden, tick_shutdown, tick_idle, tick_switch
      <4> QED  BY <2>3, <4>1, <4>2 DEF callVars
    <3> QED  BY <1>1, <2>3, <3>1, KernelKeeps
  <2> QED  BY <1>1, <2>1, <2>2, <2>3 DEF Workers
<1>2. CASE program = "mem.c" /\ MemNext /\ UNCHANGED <<vars, workVars, program>>
  <2>1. MemInv
    BY <1>2 DEF KHInv, MemInv, FreeCount
  <2>2. MemInv'
    BY <1>2, <2>1, MemInductive
  <2>3. UNCHANGED <<mem, at, p, intact, program>>
    BY <1>2 DEF workVars
  <2>4. KHType' /\ MarkInv'
    BY <2>3 DEF KHInv, KHType, MarkInv, Block
  <2> QED  BY <1>2, <2>2, <2>3, <2>4 DEF KHInv, MemInv, FreeCount
<1>3. CASE UNCHANGED khVars
  <2>1. UNCHANGED <<mh_First, mh_Free, live, mem, at, p, intact, program, pc, cont>>
    BY <1>3 DEF khVars, heapVars, workVars, vars, callVars
  <2>2. FreeCount' = FreeCount /\ KHType' /\ Heap(mh_First, live)' /\ MarkInv'
    BY <2>1 DEF KHInv, FreeCount, KHType, Heap, Tiled, Extent, MarkInv, Block
  <2>3. program = "kern.c" => CallAt' /\ BlockInv' /\ CountInv'
    BY <2>1, <2>2 DEF KHInv, CallAt, BlockInv, Holds, Own, CountInv
  <2> QED  BY <2>1, <2>2, <2>3 DEF KHInv
<1> QED  BY <1>1, <1>2, <1>3 DEF KHNext

\* The invariant of both programs (mem.c and kern.c).
THEOREM HeapInvariant == KHSpec => []KHInv
<1>1. KHInit => KHInv
  BY KHStarts
<1>2. KHInv /\ ForbidInv /\ [KHNext]_khVars => KHInv'
  BY KHInductive
<1>3. KHSpec => []ForbidInv
  BY WorkersOnKernel, ForbidInvariant, PTL
<1> QED  BY <1>1, <1>2, <1>3, PTL DEF KHSpec

\* Under the tick, whenever it comes, no byte of the region is lost and none is
\* handed to two workers (kern.c AllocMem, FreeMem over mem.c's allocator).
THEOREM NoByteTwiceUnderTicks == KHSpec => []Tiling
<1>1. KHInv => Tiling
  BY HeapTiles DEF KHInv
<1> QED  BY <1>1, HeapInvariant, PTL

\* Whenever somebody may look, the verifier's checks hold, free chunks are
\* merged and NULL means exhaustion (mem.c freelist_sane, free_sum; kern.c main).
THEOREM HeapAlwaysSound == KHSpec => []HeapSound
<1>1. KHInv /\ CleanShutdown => HeapSound
  <2> SUFFICES ASSUME KHInv, CleanShutdown, program = "mem.c" \/ boot_pc = "done"
               PROVE  Coalesced /\ NullIsExhaustion
    BY DEF HeapSound
  <2>1. Good(mh_First) /\ program \in {"mem.c", "kern.c"}
    BY DEF KHInv, Heap, KHType
  <2>2. mh_Free = FreeCount
    <3>1. CASE program = "mem.c"
      BY <3>1 DEF KHInv
    <3>2. CASE program = "kern.c" /\ boot_pc = "done"
      <4>1. \A t \in Task : pc[t] # "crit2"
        BY <3>2 DEF CleanShutdown, CritLabel
      <4> QED  BY <3>2, <4>1 DEF KHInv, CountInv
    <3> QED  BY <2>1, <3>1, <3>2
  <2> QED  BY <2>1, <2>2, HeapCoalesced, HeapExhaustion DEF FreeCount
<1>2. KHSpec => []CleanShutdown
  BY WorkersOnKernel, ShutdownClean, PTL
<1> QED  BY <1>1, <1>2, HeapInvariant, PTL

\* No worker ever finds a byte of its block changed by another (kern.c body(),
\* okp, which main() counts as good = ran).
THEOREM NobodyOverwrites == KHSpec => []PatternsSurvive
<1>1. KHInv => PatternsSurvive
  BY DEF KHInv, MarkInv, PatternsSurvive
<1> QED  BY <1>1, HeapInvariant, PTL
=============================================================================
