----------------------------- MODULE MemHeader ------------------------------
(***************************************************************************)
(* The H5 allocator of hosted/mem.c over one region, with a client that    *)
(* allocates, frees, frees at an unaligned address and frees twice.        *)
(***************************************************************************)
EXTENDS MemLists

CONSTANTS mh_Lower, RegionLen,   \* the mmap'd region
          Sizes,                 \* the request sizes of the client
          MaxLive                \* the bound on blocks allocated at a time

ASSUME MemHeaderAssumption ==
    /\ mh_Lower \in Nat /\ mh_Lower > 0 /\ mh_Lower % MEMCHUNK_TOTAL = 0
    /\ RegionLen \in Nat /\ RegionLen >= MEMCHUNK_TOTAL
    /\ mh_Lower + RegionLen < Word
    \* The code adds without a check: a size so large that ROUNDUP of it, or the
    \* end of a block of it, would wrap is outside what its clients ask for.
    /\ \A size \in Sizes :
          size \in Nat /\ mh_Lower + RegionLen + size + 2 * MEMCHUNK_TOTAL <= Word

VARIABLES mh_First,   \* the free list
          mh_Free,
          live        \* the blocks the client owns: [addr, size]

memVars == <<mh_First, mh_Free, live>>

mh_Upper == mh_Lower + RoundDown(RegionLen)

\* mh_Init: one chunk; the region's length is rounded down.
MemInit ==
    /\ mh_First = <<[addr |-> mh_Lower, bytes |-> RoundDown(RegionLen)]>>
    /\ mh_Free = RoundDown(RegionLen)
    /\ live = {}

\* What Allocate(size, flags) does when it returns a block.
Succeeds(size, reverse) ==
    /\ size # 0
    /\ mh_Free >= ROUNDUP(size)
    /\ Pick(mh_First, ROUNDUP(size), reverse) # 0

Allocate(size, reverse) ==
    LET bs == ROUNDUP(size)
        i  == Pick(mh_First, bs, reverse)
    IN  /\ Succeeds(size, reverse)
        /\ mh_First' = TakeFrom(mh_First, i, bs)
        /\ mh_Free' = mh_Free - bs
        /\ live' = live \cup {[addr |-> mh_First[i].addr, size |-> size]}

\* Allocate returning NULL changes nothing.
AllocateNull(size, reverse) ==
    /\ ~Succeeds(size, reverse)
    /\ UNCHANGED memVars

\* Deallocate(addr, size): the block is aligned outwards; FreeTwice returns 0
\* and leaves the list alone.
Deallocate(addr, size) ==
    LET a  == RoundDown(addr)
        bs == ROUNDUP(size + (addr % MEMCHUNK_TOTAL))
    IN  IF size = 0 \/ FreeTwice(mh_First, a, bs)
          THEN UNCHANGED <<mh_First, mh_Free>>
          ELSE /\ mh_First' = GiveBack(mh_First, a, bs)
               /\ mh_Free' = mh_Free + bs

\* The client frees a block it owns, perhaps at an unaligned address of it.
FreeLive(b, off) ==
    /\ off < b.size
    /\ Deallocate(b.addr + off, b.size - off)
    /\ live' = live \ {b}

\* The client frees a range that is not entirely its own: some byte of it is
\* free already.
FreeAgain(a, size) ==
    /\ \E i \in 1..Len(mh_First) :
          a < End(mh_First[i]) /\ a + size > mh_First[i].addr
    /\ Deallocate(a, size)
    /\ UNCHANGED live

MemNext ==
    \/ \E size \in Sizes, reverse \in BOOLEAN :
         \/ Cardinality(live) < MaxLive /\ Allocate(size, reverse)
         \/ AllocateNull(size, reverse)
    \/ \E b \in live, off \in {0, 1} : FreeLive(b, off)
    \/ \E a \in mh_Lower..mh_Upper - 1, size \in Sizes \ {0} : FreeAgain(a, size)

MemSpec == MemInit /\ [][MemNext]_memVars

-----------------------------------------------------------------------------

Extent(b) == b.addr..(b.addr + ROUNDUP(b.size) - 1)
Free(a)   == \E i \in 1..Len(mh_First) : a >= mh_First[i].addr /\ a < End(mh_First[i])

\* Memory is never handed out twice: after any mix of allocations, frees and
\* refused double frees the blocks of the client and the free chunks tile the
\* region, each byte in exactly one of them.
Tiling ==
    \A a \in mh_Lower..mh_Upper - 1 :
        Cardinality({b \in live : a \in Extent(b)}) + (IF Free(a) THEN 1 ELSE 0) = 1

\* The code's own verifier holds at all times, and adjacent free chunks are
\* always merged.
Coalesced ==
    /\ freelist_sane(mh_First, mh_Lower, mh_Upper)
    /\ free_sum(mh_First) = mh_Free
    /\ \A i \in 1..Len(mh_First) - 1 : End(mh_First[i]) < mh_First[i + 1].addr

\* NULL means there really was no contiguous free range of the wanted size
\* (otherwise fragmentation would be the allocator's own making).
NullIsExhaustion ==
    \A size \in Sizes \ {0}, reverse \in BOOLEAN :
        ~Succeeds(size, reverse) =>
            ~\E a \in mh_Lower..mh_Upper - 1 :
                /\ a + size <= mh_Upper
                /\ a % MEMCHUNK_TOTAL = 0
                /\ \A x \in a..a + size - 1 : Free(x)
=============================================================================
