------------------------------ MODULE KernHeap ------------------------------
(***************************************************************************)
(* The H6 program of hosted/kern.c: workers that share one heap under the  *)
(* preemptive scheduler.  AllocMem and FreeMem are a Forbid ... Permit     *)
(* section each; inside, the free list and mh_Free are updated one after   *)
(* the other, so a switch in between would be seen.  The allocator itself  *)
(* is the one of MemHeader, whose client H5 is: one specification checks   *)
(* both programs.                                                          *)
(***************************************************************************)
EXTENDS ExecKernel, MemHeader

CONSTANTS BlockSize             \* the workers' request (256)

ASSUME KernHeapAssumption ==
    /\ BlockSize \in Nat /\ BlockSize > 0
    /\ mh_Lower + RegionLen + BlockSize + 2 * MEMCHUNK_TOTAL <= Word
    /\ Ops = {"Crit"}   \* kern.c has Forbid and Permit, and no Wait or Signal

VARIABLES mem,     \* who wrote each byte last (0: cleared)
          at,      \* the statement of body() to run next
          p,       \* the worker's block, 0 for NULL
          intact,  \* the worker's last verify succeeded (okp)
          program  \* which of the two programs runs: "mem.c" or "kern.c"

workVars == <<mem, at, p, intact>>
heapVars == <<mh_First, mh_Free, live, workVars>>
khVars   == <<vars, heapVars, program>>

bs       == ROUNDUP(BlockSize)
Addr     == mh_Lower..mh_Upper - 1
Block(t) == p[t]..p[t] + BlockSize - 1

KHInit ==
    /\ Init
    /\ MemInit
    /\ program \in {"mem.c", "kern.c"}
    /\ mem = [a \in Addr |-> 0]
    /\ at = [t \in Task |-> "alloc"]
    /\ p = [t \in Task |-> 0]
    /\ intact = [t \in Task |-> TRUE]

Own(t)       == [addr |-> p[t], size |-> BlockSize]
AtStmt(t, l) == At(t, "user") /\ at[t] = l
Then(t, l)   == at' = [at EXCEPT ![t] = l]

-----------------------------------------------------------------------------
(* AllocMem(256, MEMF_CLEAR) *)

AllocMem(t) ==
    /\ at[t] = "alloc"
    /\ CallCrit(t)
    /\ Then(t, "allocating")
    /\ UNCHANGED <<mh_First, mh_Free, live, mem, p, intact>>

\* The search and the unlink or split.
AllocateList(t) ==
    /\ at[t] = "allocating"
    /\ CritFirst(t)
    /\ LET i == IF mh_Free < bs THEN 0 ELSE Pick(mh_First, bs, FALSE)
       IN  IF i = 0
             THEN p' = [p EXCEPT ![t] = 0] /\ UNCHANGED <<mh_First, live>>
             ELSE /\ p' = [p EXCEPT ![t] = mh_First[i].addr]
                  /\ live' = live \cup {[addr |-> mh_First[i].addr, size |-> BlockSize]}
                  /\ mh_First' = TakeFrom(mh_First, i, bs)
    /\ UNCHANGED <<mh_Free, mem, at, intact>>

\* mh_Free -= bs and the MEMF_CLEAR memset, still under Forbid.
AllocateFree(t) ==
    /\ at[t] = "allocating"
    /\ CritLast(t)
    /\ IF p[t] = 0
         THEN Then(t, "alloc") /\ UNCHANGED <<mh_Free, mem>>
         ELSE /\ mh_Free' = mh_Free - bs
              /\ mem' = [a \in Addr |-> IF a \in p[t]..p[t] + bs - 1 THEN 0 ELSE mem[a]]
              /\ Then(t, "stamp")
    /\ UNCHANGED <<mh_First, live, p, intact>>

-----------------------------------------------------------------------------
(* body(): stamp, work, verify, FreeMem *)

Stamp(t) ==
    /\ AtStmt(t, "stamp")
    /\ mem' = [a \in Addr |-> IF a \in Block(t) THEN t ELSE mem[a]]
    /\ Then(t, "verify")
    /\ UNCHANGED <<vars, mh_First, mh_Free, live, p, intact>>

Verify(t) ==
    /\ AtStmt(t, "verify")
    /\ intact' = [intact EXCEPT ![t] = \A a \in Block(t) : mem[a] = t]
    /\ Then(t, "free")
    /\ UNCHANGED <<vars, mh_First, mh_Free, live, mem, p>>

FreeMem(t) ==
    /\ at[t] = "free"
    /\ CallCrit(t)
    /\ Then(t, "freeing")
    /\ UNCHANGED <<mh_First, mh_Free, live, mem, p, intact>>

DeallocateList(t) ==
    /\ at[t] = "freeing"
    /\ CritFirst(t)
    /\ IF FreeTwice(mh_First, p[t], bs)
         THEN p' = [p EXCEPT ![t] = 0] /\ UNCHANGED mh_First
         ELSE mh_First' = GiveBack(mh_First, p[t], bs) /\ UNCHANGED p
    /\ live' = live \ {Own(t)}
    /\ UNCHANGED <<mh_Free, mem, at, intact>>

DeallocateFree(t) ==
    /\ at[t] = "freeing"
    /\ CritLast(t)
    /\ mh_Free' = IF p[t] = 0 THEN mh_Free ELSE mh_Free + bs
    /\ p' = [p EXCEPT ![t] = 0]
    /\ Then(t, "alloc")
    /\ UNCHANGED <<mh_First, live, mem, intact>>

Body(t) ==
    \/ AllocMem(t) \/ AllocateList(t) \/ AllocateFree(t)
    \/ Stamp(t) \/ Verify(t)
    \/ FreeMem(t) \/ DeallocateList(t) \/ DeallocateFree(t)

Workers ==
    \/ \E t \in Task : Body(t)
    \/ (\E t \in Task : ForbidStore(t) \/ PermitLoad(t) \/ PermitStore(t))
          /\ UNCHANGED heapVars
    \/ (Boot \/ Tick) /\ UNCHANGED heapVars

KHNext ==
    \/ program = "kern.c" /\ Workers /\ UNCHANGED program
    \/ program = "mem.c" /\ MemNext /\ UNCHANGED <<vars, workVars, program>>

KHSpec == KHInit /\ [][KHNext]_khVars

-----------------------------------------------------------------------------

\* No worker ever finds its block overwritten: main() counts on good = ran.
PatternsSurvive == \A t \in Task : intact[t]

\* Whenever somebody may look - at all times for mem.c, and for kern.c when
\* main() has control, as nobody can be inside the allocator then, whatever
\* the tick interrupted - the code's own verifier (freelist_sane, free_sum =
\* mh_Free) holds, adjacent free chunks are merged, and a NULL would mean that
\* there really is no contiguous free range of the wanted size.
HeapSound == (program = "mem.c" \/ boot_pc = "done") => Coalesced /\ NullIsExhaustion
=============================================================================
