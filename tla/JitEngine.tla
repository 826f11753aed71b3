----------------------------- MODULE JitEngine -----------------------------
(***************************************************************************)
(* The dispatcher and the translated code around the guest's instructions  *)
(* (src/hosted/jit68k/j5d_engine.c): blocks are translated on first use    *)
(* and kept in a cache; a block's outer entry loads the register file from *)
(* the state and its epilogue stores it back; a resolved branch is patched *)
(* to jump from block to block with the registers still in the host, past  *)
(* the dispatcher; a budget counted down at every block entry brings such  *)
(* chains back; a stop request, a yield and a blocked library call leave   *)
(* the run, and the run resumes.                                           *)
(*                                                                         *)
(* Everything here is control and register transport.  What the blocks     *)
(* compute is GuestCpu's, and the engine implements GuestCpu.              *)
(***************************************************************************)
EXTENDS Integers, Sequences

CONSTANTS
  Programs, RegMod, StackMax,   \* as in GuestCpu
  MaxBlocks,    \* J5D_MAX_BLOCKS
  IndexMod,     \* a block's own index is recorded modulo this: 2^16
  Quantum,      \* chain_quantum
  MaxStops      \* stop requests in a behaviour
ASSUME JitEngineAssumption ==
  /\ RegMod \in Nat \ {0} /\ StackMax \in Nat
  /\ {MaxBlocks, IndexMod, Quantum} \subseteq Nat \ {0} /\ MaxStops \in Nat

VARIABLES
  prog,         \* the guest program
  st,           \* struct j5d_m68k_state and the guest's stack: r, fp, cc, s, stack, pc
  host,         \* the host registers translated code computes in: r, fp
  eng,          \* the engine: slots, budget, yield, stop, terminal, resume
  run           \* the run: mode, pc, at, t, base, out, stops and late, the
                \* blocks run since a stop request, counted up to 2
jitVars == <<prog, st, host, eng, run>>

\* The guest, seen through the engine: in the host's registers while
\* translated code runs, in the state otherwise.
InHost == {"load", "store", "body", "tail"}
Here == IF run.mode \in InHost \cup {"returned"} THEN eng.slots[run.at].pc ELSE run.pc
Guest ==
  [pc |-> IF run.mode = "returned" /\ eng.yield # <<>> THEN eng.yield[1] ELSE Here,
   ph |-> IF run.mode = "tail" \/ (run.mode = "returned" /\ eng.yield = <<>>) THEN "term" ELSE "body",
   r |-> IF run.mode \in InHost THEN host.r ELSE st.r,
   fp |-> IF run.mode = "tail" THEN [n \in DOMAIN st.fp |-> IF n \in prog[Here].fw THEN host.fp[n] ELSE st.fp[n]]
          ELSE st.fp,
   cc |-> st.cc, s |-> st.s, stack |-> st.stack, out |-> run.out]
G == INSTANCE GuestCpu WITH g <- Guest

-----------------------------------------------------------------------------
JitInit ==
  /\ prog \in Programs
  /\ st = [r |-> [n \in G!IntRegs |-> 0], fp |-> [n \in G!FloatRegs |-> n], cc |-> FALSE, s |-> FALSE, stack |-> <<>>]
  /\ host = [r |-> [n \in G!IntRegs |-> 0], fp |-> [n \in G!FloatRegs |-> 9]]
  /\ eng = [slots |-> <<>>, budget |-> Quantum, yield |-> <<>>, stop |-> FALSE, terminal |-> 0, resume |-> <<>>]
  /\ run = [mode |-> "top", pc |-> 0, at |-> 0, t |-> 0, base |-> 0, out |-> "run", late |-> 0, stops |-> 0]

IsFp(pc) == prog[pc].fr \cup prog[pc].fw # {}
\* chain_targets: where a block can be patched to go.
chain_targets(pc) ==
  LET t == prog[pc].t
  IN  IF IsFp(pc) \/ t.k \notin {"bra", "bcc"} THEN <<>>
      ELSE IF t.k = "bra" THEN <<t.to>> ELSE <<t.to, t.ret>>
\* cache_find and translate_block.
cache_find(slots, pc) == {k \in DOMAIN slots : slots[k].pc = pc}
translate_block(pc) == [pc |-> pc, link |-> [k \in DOMAIN chain_targets(pc) |-> 0]]
Cached(slots, pc) == IF cache_find(slots, pc) # {} THEN slots ELSE Append(slots, translate_block(pc))
Slot(slots, pc) == CHOOSE k \in cache_find(slots, pc) : TRUE
\* FP blocks are linked to as well.
MutLink(slots, k, pc) ==
  IF k \notin DOMAIN slots \/ cache_find(slots, pc) = {} THEN slots
  ELSE [slots EXCEPT ![k].link = [j \in DOMAIN @ |->
          IF @[j] = 0 /\ chain_targets(slots[k].pc)[j] = pc THEN Slot(slots, pc) ELSE @[j]]]
\* link_if_resolved and try_link: patch the branches of block k to pc, unless
\* pc is an FP block or not translated yet.
link_if_resolved(slots, k, pc) ==
  IF k \notin DOMAIN slots \/ cache_find(slots, pc) = {} \/ IsFp(pc) THEN slots
  ELSE [slots EXCEPT ![k].link = [j \in DOMAIN @ |->
          IF @[j] = 0 /\ chain_targets(slots[k].pc)[j] = pc THEN Slot(slots, pc) ELSE @[j]]]

In(m) == run.mode = m /\ run.out = "run"
Leave(out) == [run EXCEPT !.out = out]
\* The top of the dispatcher's loop: a stop or the poll may end or park the
\* run; both take the stop request with them.
PollKill ==
  /\ In("top") /\ eng.stop
  /\ eng' = [eng EXCEPT !.stop = FALSE, !.budget = Quantum]
  /\ run' = [Leave("killed") EXCEPT !.late = 0]
  /\ UNCHANGED <<prog, st, host>>
PollYield ==
  /\ In("top")
  /\ eng' = [eng EXCEPT !.stop = FALSE, !.budget = Quantum, !.resume = <<run.base>>]
  /\ run' = [run EXCEPT !.mode = "yielded", !.late = 0]
  /\ UNCHANGED <<prog, st, host>>
\* j5d_run again, from where the state says: the run's first stack pointer
\* comes from the engine, not from the stack as it is now.
Resume ==
  /\ In("yielded")
  /\ eng' = [eng EXCEPT !.resume = <<>>]
  /\ run' = [run EXCEPT !.mode = "top", !.base = IF eng.resume # <<>> THEN eng.resume[1] ELSE Len(st.stack)]
  /\ UNCHANGED <<prog, st, host>>
\* get_block and the outer entry: the whole register file is loaded, of the
\* FP registers the ones the block reads.
OuterEntry ==
  /\ In("top") /\ ~eng.stop /\ run.pc \in DOMAIN prog
  /\ LET slots == Cached(eng.slots, run.pc)
         k == Slot(slots, run.pc)
     IN  IF Len(slots) > MaxBlocks
         THEN run' = Leave("error") /\ UNCHANGED <<host, eng>>
         ELSE /\ eng' = [eng EXCEPT !.slots = slots, !.budget = Quantum, !.terminal = k - 1]
              /\ host' = [r |-> st.r, fp |-> [n \in G!FloatRegs |-> IF n \in prog[run.pc].fr THEN st.fp[n] ELSE host.fp[n]]]
              /\ run' = [run EXCEPT !.mode = "load", !.at = k]
  /\ UNCHANGED <<prog, st>>
\* The chain entry's safe point loads the budget, and stores it one less.
SafePointLoad ==
  /\ In("load")
  /\ run' = [run EXCEPT !.mode = "store", !.t = eng.budget]
  /\ UNCHANGED <<prog, st, host, eng>>
\* The epilogue: every register goes back to the state, of the FP registers
\* the ones the block writes; the block records its index as the chain's last.
Epilogue(fp) ==
  /\ st' = [st EXCEPT !.r = host.r,
                      !.fp = [n \in G!FloatRegs |-> IF n \in prog[Here].fw THEN fp[n] ELSE @[n]]]
  /\ run' = [run EXCEPT !.mode = "returned"]
Terminal == (run.at - 1) % IndexMod
\* With the budget used up the block parks: the FP registers it would store
\* but did not load are loaded, and its address is left for the dispatcher.
\* The budget is tested but never counted down.
MutSafePointStore ==
  /\ In("store")
  /\ \/ /\ run.t > 0
        /\ eng' = [eng EXCEPT !.budget = run.t]
        /\ run' = [run EXCEPT !.mode = "body"]
     \/ /\ run.t <= 0
        /\ eng' = [eng EXCEPT !.yield = <<Here>>]
        /\ run' = [run EXCEPT !.mode = "returned"]
  /\ UNCHANGED <<prog, st, host>>
SafePointStore ==
  /\ In("store")
  /\ \/ /\ run.t - 1 > 0
        /\ eng' = [eng EXCEPT !.budget = run.t - 1]
        /\ run' = [run EXCEPT !.mode = "body"]
        /\ UNCHANGED <<st, host>>
     \/ /\ ~(run.t - 1 > 0)
        /\ eng' = [eng EXCEPT !.budget = run.t - 1, !.yield = <<Here>>, !.terminal = Terminal]
        /\ LET loaded == [n \in G!FloatRegs |-> IF n \in prog[Here].fw \ prog[Here].fr THEN st.fp[n] ELSE host.fp[n]]
           IN  host' = [host EXCEPT !.fp = loaded] /\ Epilogue(loaded)
  /\ UNCHANGED prog
\* The body, in the host's registers; the condition codes go to memory.
Body ==
  /\ In("body")
  /\ LET b == prog[Here]
         r == G!Counted(host.r, b)
     IN  /\ host' = [r |-> r, fp |-> G!Floated(host.fp, b)]
         /\ st' = [st EXCEPT !.cc = IF b.inc = {} THEN @ ELSE r[0] = 0]
  /\ run' = [run EXCEPT !.mode = "tail", !.late = IF eng.stop THEN IF @ < 2 THEN @ + 1 ELSE @ ELSE 0]
  /\ UNCHANGED <<prog, eng>>
\* The tail's condition chooses a branch: patched, it goes to the chain entry
\* of the next block; unpatched, or with none, to the epilogue.
Hop(k) ==
  LET link == eng.slots[k].link
  IN  IF link = <<>> THEN 0 ELSE IF prog[Here].t.k = "bcc" /\ ~st.cc THEN link[2] ELSE link[1]
Chained ==
  /\ In("tail") /\ Hop(run.at) # 0
  /\ run' = [run EXCEPT !.mode = "load", !.at = Hop(run.at)]
  /\ UNCHANGED <<prog, st, host, eng>>
\* The dispatcher takes the block it entered for the one the chain ended in.
MutFallsBack ==
  /\ In("tail") /\ Hop(run.at) = 0
  /\ Epilogue(host.fp)
  /\ UNCHANGED <<prog, host, eng>>
FallsBack ==
  /\ In("tail") /\ Hop(run.at) = 0
  /\ Epilogue(host.fp)
  /\ eng' = [eng EXCEPT !.terminal = Terminal]
  /\ UNCHANGED <<prog, host>>
\* Back in the dispatcher from a park: nothing of the parked block ran.
Parked ==
  /\ In("returned") /\ eng.yield # <<>>
  /\ run' = [run EXCEPT !.mode = "top", !.pc = eng.yield[1]]
  /\ eng' = [eng EXCEPT !.yield = <<>>]
  /\ UNCHANGED <<prog, st, host>>

-----------------------------------------------------------------------------
(* The terminator of the block the chain ended in, decoded in C.            *)
Last1 == eng.terminal + 1
Term == prog[eng.slots[Last1].pc].t
Decoding(k) == In("returned") /\ eng.yield = <<>> /\ Term.k = k /\ UNCHANGED <<prog, host>>
\* On to pc at the top of the loop, the branch linked on the way.
Continue(s, pc) ==
  /\ st' = s
  /\ run' = [run EXCEPT !.mode = "top", !.pc = pc]
  /\ eng' = [eng EXCEPT !.slots = link_if_resolved(@, Last1, pc)]
Fails == run' = Leave("error") /\ UNCHANGED <<st, eng>>
sp_push(s, x) == [s EXCEPT !.stack = Append(@, x)]
NoRoom == Len(st.stack) >= StackMax
raise_exception(s, ret) == [sp_push(s, [cc |-> s.cc, s |-> s.s, ret |-> ret]) EXCEPT !.s = TRUE]
\* An address outside the sandbox is a bus error, taken before a block is
\* looked for.
WildPc ==
  /\ In("top") /\ ~eng.stop /\ run.pc \notin DOMAIN prog
  /\ IF NoRoom THEN Fails
     ELSE st' = raise_exception(st, run.pc) /\ run' = [run EXCEPT !.pc = G!Trapped] /\ UNCHANGED eng
  /\ UNCHANGED <<prog, host>>
Outermost == Len(st.stack) <= run.base
cond_taken == st.cc
DoBranch ==
  \/ Decoding("bra") /\ Continue(st, Term.to)
  \/ Decoding("bcc") /\ Continue(st, IF cond_taken THEN Term.to ELSE Term.ret)
DoDbcc ==
  /\ Decoding("dbcc")
  /\ LET n == (st.r[1] - 1) % RegMod
     IN  IF cond_taken THEN Continue(st, Term.ret)
         ELSE Continue([st EXCEPT !.r[1] = n], IF n = RegMod - 1 THEN Term.ret ELSE Term.to)
DoBsr ==
  /\ Decoding("bsr")
  /\ IF NoRoom THEN Fails ELSE Continue(sp_push(st, Term.ret), Term.to)
DoRts ==
  /\ Decoding("rts")
  /\ IF Outermost THEN run' = Leave("exit") /\ UNCHANGED <<st, eng>>
     ELSE Continue([st EXCEPT !.stack = G!Front(@)], G!Last(st.stack))
DoTrap ==
  /\ Decoding("trap")
  /\ IF NoRoom THEN Fails ELSE Continue(raise_exception(st, Term.ret), G!Trapped)
DoRte ==
  /\ Decoding("rte")
  /\ LET f == G!Last(st.stack)
     IN  IF st.stack = <<>> THEN Fails ELSE Continue([st EXCEPT !.stack = G!Front(@), !.cc = f.cc, !.s = f.s], f.ret)
\* A blocked call leaves the run with its return address as the place to go on.
BlockYieldAt(s, pc) ==
  /\ st' = s
  /\ run' = [run EXCEPT !.mode = "yielded", !.pc = pc]
  /\ eng' = [eng EXCEPT !.resume = <<run.base>>]
\* The library may unload guest code while it serves the call: j5d_run_free
\* drops every block.
ServedAndFreed(pc) ==
  /\ run' = [run EXCEPT !.mode = "top", !.pc = pc]
  /\ eng' = [eng EXCEPT !.slots = <<>>]
  /\ UNCHANGED st
DoLib ==
  /\ Decoding("lib")
  /\ \/ Continue(st, Term.ret)
     \/ ServedAndFreed(Term.ret)
     \/ BlockYieldAt(st, Term.ret)
     \/ IF NoRoom THEN Fails ELSE Continue(sp_push(st, Term.ret), Term.to)
     \/ IF NoRoom THEN Fails ELSE Continue(raise_exception(st, Term.ret), G!Trapped)
DoTail ==
  /\ Decoding("tail")
  /\ LET popped == [st EXCEPT !.stack = G!Front(@)]
     IN  \/ IF Outermost THEN run' = Leave("exit") /\ UNCHANGED <<st, eng>> ELSE Continue(popped, G!Last(st.stack))
         \/ IF Outermost THEN Fails ELSE BlockYieldAt(popped, G!Last(st.stack))
         \/ Continue(st, Term.to)
         \/ IF Outermost THEN Fails ELSE Continue(raise_exception(popped, G!Last(st.stack)), G!Trapped)

\* j5d_request_stop, from a signal handler at any moment.
RequestStop ==
  /\ run.stops < MaxStops /\ run.out = "run" /\ ~eng.stop
  /\ eng' = [eng EXCEPT !.stop = TRUE, !.budget = 0]
  /\ run' = [run EXCEPT !.stops = @ + 1, !.late = 0]
  /\ UNCHANGED <<prog, st, host>>
\* The run is over.
Over == run.out # "run" /\ UNCHANGED jitVars
EngineStep ==
  \/ PollKill \/ Resume \/ WildPc \/ OuterEntry \/ SafePointLoad \/ SafePointStore \/ Body \/ Chained
  \/ FallsBack \/ Parked \/ DoBranch \/ DoDbcc \/ DoBsr \/ DoRts \/ DoTrap \/ DoRte \/ DoLib \/ DoTail
JitNext == EngineStep \/ PollYield \/ RequestStop \/ Over
\* The host runs the engine, and resumes it after a yield.
JitSpec == JitInit /\ [][JitNext]_jitVars /\ WF_jitVars(EngineStep)

-----------------------------------------------------------------------------
\* A patched branch leads to the block of the address it stands for, which is
\* still there and is not an FP block (whose chain entry is past the code that
\* saves the host's FP registers).
LinksLive ==
  \A k \in DOMAIN eng.slots : \A j \in DOMAIN eng.slots[k].link :
    LET to == eng.slots[k].link[j]
    IN  to # 0 => /\ to \in DOMAIN eng.slots
                  /\ eng.slots[to].pc = chain_targets(eng.slots[k].pc)[j]
                  /\ ~IsFp(eng.slots[to].pc)
\* Chaining, parking, yielding, stopping and unloading never show: the guest
\* does what the interpreter does, whatever path its registers take.
GuestUnaware == G!GSpec
\* A stop request reaches the dispatcher, even from a loop of patched branches
\* that never leaves translated code.
StopLands == eng.stop ~> (~eng.stop \/ run.out # "run")
\* "a stop takes effect at the very next block": once requested, at most the
\* block being entered still runs.
StopAtNextBlock == run.late <= 1
=============================================================================
