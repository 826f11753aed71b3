------------------------------ MODULE GuestCpu ------------------------------
(***************************************************************************)
(* What a guest program does, one block body and one control transfer at a *)
(* time: the interpreter of src/hosted/jit68k/j5d_interp.c, without blocks *)
(* being cached, linked, parked or resumed.  j5d_engine.c is shown to      *)
(* implement it (JitEngine).                                               *)
(*                                                                         *)
(* A program is a function from block addresses to blocks: "inc" are the   *)
(* registers its body counts up, "fr" and "fw" the FP registers it reads   *)
(* and writes, "t" the instruction that ends it.  The stack holds return   *)
(* addresses and exception frames; registers count modulo RegMod.          *)
(***************************************************************************)
EXTENDS Integers, Sequences, SequencesExt

CONSTANTS
  Programs,     \* the programs tried
  RegMod,       \* registers count modulo this
  StackMax      \* entries the sandbox has room for
IntRegs == {0, 1}
FloatRegs == {0, 1}
Trapped == 1            \* the handler the vector table names for every exception

VARIABLES
  prog,         \* the program
  g             \* the guest: pc, ph, r, fp, cc, s, stack, out
guestVars == <<prog, g>>
Blk == prog[g.pc]

GInit ==
  /\ prog \in Programs
  /\ g = [pc |-> 0, ph |-> "body", r |-> [n \in IntRegs |-> 0], fp |-> [n \in FloatRegs |-> n],
          cc |-> FALSE, s |-> FALSE, stack |-> <<>>, out |-> "run"]
Running == g.out = "run"
\* The straight-line part.  The condition code says that register 0 is zero.
Counted(r, b) == [n \in IntRegs |-> IF n \in b.inc THEN (r[n] + 1) % RegMod ELSE r[n]]
Floated(fp, b) ==
  [n \in FloatRegs |-> IF n \notin b.fw THEN fp[n]
                       ELSE (1 + (IF 0 \in b.fr THEN fp[0] ELSE 0) + (IF 1 \in b.fr THEN 2 * fp[1] ELSE 0)) % RegMod]
GBody ==
  /\ Running /\ g.ph = "body" /\ g.pc \in DOMAIN prog
  /\ g' = [g EXCEPT !.r = Counted(@, Blk), !.fp = Floated(@, Blk),
                    !.cc = IF Blk.inc = {} THEN @ ELSE Counted(g.r, Blk)[0] = 0, !.ph = "term"]
Ending(k) == Running /\ g.ph = "term" /\ Blk.t.k = k
Goto(s, pc) == [s EXCEPT !.pc = pc, !.ph = "body"]
Room == Len(g.stack) < StackMax
Push(s, x) == [s EXCEPT !.stack = Append(@, x)]
Frame(s, ret) == [cc |-> s.cc, s |-> s.s, ret |-> ret]
\* Bcc and BRA, jmp, DBcc, BSR and jsr, RTS, RTE, TRAP, RTR.
GBranch ==
  \/ Ending("bra") /\ g' = Goto(g, Blk.t.to)
  \/ Ending("bcc") /\ g' = Goto(g, IF g.cc THEN Blk.t.to ELSE Blk.t.ret)
  \/ Ending("dbcc") /\
       LET n == (g.r[1] - 1) % RegMod
       IN  g' = IF g.cc THEN Goto(g, Blk.t.ret)
                ELSE Goto([g EXCEPT !.r[1] = n], IF n = RegMod - 1 THEN Blk.t.ret ELSE Blk.t.to)
GCall == Ending("bsr") /\ Room /\ g' = Goto(Push(g, Blk.t.ret), Blk.t.to)
GReturn ==
  /\ Ending("rts")
  /\ g' = IF g.stack = <<>> THEN [g EXCEPT !.out = "exit"]
          ELSE Goto([g EXCEPT !.stack = Front(@)], Last(g.stack))
GTrap == Ending("trap") /\ Room /\ g' = Goto([Push(g, Frame(g, Blk.t.ret)) EXCEPT !.s = TRUE], Trapped)
GRte ==
  /\ Ending("rte") /\ g.stack # <<>>
  /\ LET f == Last(g.stack)
     IN  g' = Goto([g EXCEPT !.stack = Front(@), !.cc = f.cc, !.s = f.s], f.ret)
\* A fetch outside the sandbox is a bus error; its frame holds the bad address.
GWild ==
  /\ Running /\ g.ph = "body" /\ g.pc \notin DOMAIN prog /\ Room
  /\ g' = Goto([Push(g, Frame(g, g.pc)) EXCEPT !.s = TRUE], Trapped)
\* A library call: served; or the library is guest code, which returns with
\* rts, or with rte when it is to run in supervisor mode.  A blocked call is
\* a served one that took longer.
GLib ==
  /\ Ending("lib")
  /\ \/ g' = Goto(g, Blk.t.ret)
     \/ Room /\ g' = Goto(Push(g, Blk.t.ret), Blk.t.to)
     \/ Room /\ g' = Goto([Push(g, Frame(g, Blk.t.ret)) EXCEPT !.s = TRUE], Trapped)
\* A jump onto a library vector: the call serves for the caller's return too.
GTail ==
  /\ Ending("tail")
  /\ \/ g' = IF g.stack = <<>> THEN [g EXCEPT !.out = "exit"]
             ELSE Goto([g EXCEPT !.stack = Front(@)], Last(g.stack))
     \/ g' = Goto(g, Blk.t.to)
     \/ /\ g.stack # <<>>
        /\ g' = Goto([g EXCEPT !.stack = Append(Front(@), Frame(g, Last(@))), !.s = TRUE], Trapped)
\* The run may be killed, or fail, between any two steps.
GEnd == Running /\ \E o \in {"killed", "error"} : g' = [g EXCEPT !.out = o]
GNext == UNCHANGED prog /\ (GBody \/ GBranch \/ GCall \/ GReturn \/ GTrap \/ GWild \/ GRte \/ GLib \/ GTail \/ GEnd)
GSpec == GInit /\ [][GNext]_guestVars
=============================================================================
