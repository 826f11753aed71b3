----------------------------- MODULE M68kDispatch -----------------------------
(***************************************************************************)
(* Integer instructions that end a block and that the dispatcher executes  *)
(* itself (src/hosted/jit68k/j5d_engine.c): word divisions, which may trap,*)
(* instructions whose source is relative to the program counter, which     *)
(* translated code does not have, and the moves of the status register.    *)
(* "vec" is the vector of the exception the instruction raises, or zero.   *)
(***************************************************************************)
EXTENDS J5dInterp

\* brief_ea.
brief_ea(s, ea, base) ==
  Trunc(base + ea.d + (IF ea.xl THEN s.r[ea.x] ELSE Sext(s.r[ea.x], 2 * ByteBits)) * 2^ea.sc, LongBits)
\* div_word_source: any data mode; a pointer is moved before the read.
div_word_source(s, ea) ==
  LET an == AddrReg(ea)
      t == CASE ea.m = "post" -> [s EXCEPT !.r[an] = Trunc(@ + 2, LongBits)]
             [] ea.m = "pre" -> [s EXCEPT !.r[an] = Trunc(@ - 2, LongBits)]
             [] OTHER -> s
      addr == CASE ea.m \in {"ind", "post"} -> s.r[an]
                [] ea.m = "pre" -> t.r[an]
                [] ea.m = "disp" -> Trunc(s.r[an] + ea.d, LongBits)
                [] ea.m = "idx" -> brief_ea(s, ea, s.r[an])
                [] ea.m = "pcx" -> brief_ea(s, ea, 0)
                [] OTHER -> Trunc(ea.d, LongBits)
  IN  CASE ea.m = "dn" -> [s |-> s, v |-> Trunc(s.r[ea.r], 2 * ByteBits)]
        [] ea.m = "imm" -> [s |-> s, v |-> Trunc(ea.d, 2 * ByteBits)]
        [] OTHER -> IF Checked(addr, 2) THEN [s |-> t, v |-> Load(s, addr, 2)] ELSE [s |-> Fault(s), v |-> 1]

\* What a result of n bytes says: N and Z; the rest is the caller's.
NZof(cc, n, v) ==
  [cc EXCEPT !["N"] = Trunc(v, Bits(n)) >= 2^(Bits(n) - 1), !["Z"] = Trunc(v, Bits(n)) = 0,
             !["V"] = FALSE, !["C"] = FALSE]
\* DIVU.W and DIVS.W: a zero divisor takes vector 5; a quotient that does not
\* fit leaves the register; otherwise remainder and quotient share it.
WordMagnitude(a) == IF a < 0 THEN -a ELSE a
WordQuotient(a, b) ==
  (IF (a < 0) = (b < 0) THEN 1 ELSE -1) * (WordMagnitude(a) \div WordMagnitude(b))
QuotientFits(signed, q, w) == IF signed THEN -(w \div 2) <= q /\ q < w \div 2 ELSE q < w
WriteQuotient(t, i, a, b, q) ==
  IF QuotientFits(i.signed, q, 2^Bits(2))
  THEN [t EXCEPT !.r[i.reg] = 2^Bits(2) * Trunc(a - q * b, Bits(2)) + Trunc(q, Bits(2)),
                 !.cc = NZof(@, 2, q)]
  ELSE [t EXCEPT !.cc = [f \in CCFlags |-> IF f = "X" THEN @[f] ELSE f = "V"]]
DivideOperands(t, i, a, b) == WriteQuotient(t, i, a, b, WordQuotient(a, b))
DivideBy(t, i, v) ==
  CASE t.fault -> t
    [] ~t.fault /\ v = 0 -> [t EXCEPT !.vec = 5]
    [] OTHER -> DivideOperands(t, i, IF i.signed THEN Signed(t.r[i.reg], LongBits) ELSE t.r[i.reg],
                                     IF i.signed THEN Signed(v, Bits(2)) ELSE v)
DivideFrom(i, src) == DivideBy(src.s, i, src.v)
Divide(s, i) == DivideFrom(i, div_word_source(s, i.ea))

-----------------------------------------------------------------------------
(* j5d_exec_pcrel.                                                         *)
Source(s, ea) == IF ea.m = "pcx" THEN brief_ea(s, ea, 0) ELSE Trunc(ea.d, LongBits)
PCREL_RD(s, i) == Load(s, Source(s, i.ea), i.n)
\* MOVE to a data register or memory, MOVEA.
PcrelMove(s, i) ==
  LET v == PCREL_RD(s, i)
      dn == AddrReg(i.dst)
      step == Step(i.dst, i.n)
      t == CASE i.dst.m = "post" -> [s EXCEPT !.r[dn] = Trunc(@ + step, LongBits)]
             [] i.dst.m = "pre" -> [s EXCEPT !.r[dn] = Trunc(@ - step, LongBits)]
             [] OTHER -> s
      to == CASE i.dst.m = "pre" -> t.r[dn]
              [] i.dst.m = "disp" -> Trunc(s.r[dn] + i.dst.d, LongBits)
              [] OTHER -> s.r[dn]
  IN  CASE i.dst.m = "an" -> [s EXCEPT !.r[dn] = IF i.n = 2 THEN Sext(v, Bits(2)) ELSE v]
        [] i.dst.m = "dn" -> [Merge(s, i.dst.r, i.n, v) EXCEPT !.cc = NZof(@, i.n, v)]
        [] OTHER -> [Store(t, to, i.n, v) EXCEPT !.cc = NZof(@, i.n, v)]
\* LEA and PEA take the address.
PcrelLea(s, i) == [s EXCEPT !.r[i.reg] = Source(s, i.ea)]
PcrelPea(s, i) ==
  LET sp == Trunc(s.r[SP] - 4, LongBits) IN [Store(s, sp, 4, Source(s, i.ea)) EXCEPT !.r[SP] = sp]
PcrelTst(s, i) == [s EXCEPT !.cc = NZof(@, i.n, PCREL_RD(s, i))]
\* CMP, ADD, SUB, AND, OR into a data register.  The carry of an addition is
\* looked for above the mask, so a long has none; AND and OR forget X.
PcrelResult(i, a, v) ==
  CASE i.op \in {"SUB", "CMP"} -> Trunc(a - v, Bits(i.n))
    [] i.op = "ADD" -> Trunc(a + v, Bits(i.n))
    [] i.op = "AND" -> a & v
    [] i.op = "OR" -> a | v
PcrelFlags(x, i, a, v, res, m) ==
  LET top(y) == y >= m \div 2
      carry == \/ i.op \in {"SUB", "CMP"} /\ a < v
               \/ i.op = "ADD" /\ i.n # 4 /\ a + v >= m
  IN  [X |-> CASE i.op = "CMP" -> x [] i.op \in {"ADD", "SUB"} -> carry [] OTHER -> FALSE,
       N |-> top(res), Z |-> res = 0, C |-> carry,
       V |-> \/ i.op \in {"SUB", "CMP"} /\ top(a) # top(v) /\ top(a) # top(res)
             \/ i.op = "ADD" /\ top(a) = top(v) /\ top(a) # top(res)]
PcrelWrite(s, i, a, v, res) ==
  [IF i.op = "CMP" THEN s ELSE Merge(s, i.reg, i.n, res)
     EXCEPT !.cc = PcrelFlags(s.cc["X"], i, a, v, res, 2^Bits(i.n))]
PcrelOperands(s, i, a, v) == PcrelWrite(s, i, a, v, PcrelResult(i, a, v))
PcrelAlu(s, i) == PcrelOperands(s, i, Trunc(s.r[i.reg], Bits(i.n)), PCREL_RD(s, i))
exec_pcrel(s, i) ==
  CASE i.op = "LEA" -> PcrelLea(s, i)
    [] i.op = "PEA" -> PcrelPea(s, i)
    [] i.op \notin {"LEA", "PEA"} /\ ~Checked(Source(s, i.ea), i.n) -> Fault(s)
    [] i.op = "MOVE" /\ Checked(Source(s, i.ea), i.n) -> PcrelMove(s, i)
    [] i.op = "TST" /\ Checked(Source(s, i.ea), i.n) -> PcrelTst(s, i)
    [] OTHER -> PcrelAlu(s, i)
\* has_pcrel_src, of the instructions modelled here.
has_pcrel_src(i) == i.ea.m \in {"pc", "pcx"} /\ i.op # "DIVW"
\* What the dispatcher executes, and what the interpreter does for it.
Dispatched(s, i) == IF i.op = "DIVW" THEN Divide(s, i) ELSE exec_pcrel(s, i)

-----------------------------------------------------------------------------
\* j5d_pack_sr and j5d_unpack_sr: the bits of a 68k status register (C at 0)
\* from and to the flags, which are kept with V at 0 and C at 1.
j5d_pack_sr(ccr) ==
  {b \in 0 .. 4 : \/ b = 0 /\ 1 \in ccr
                  \/ b = 1 /\ 0 \in ccr
                  \/ b \in 2 .. 4 /\ b \in ccr}
j5d_unpack_sr(sr) ==
  {b \in 0 .. 4 : \/ b = 1 /\ 0 \in sr
                  \/ b = 0 /\ 1 \in sr
                  \/ b \in 2 .. 4 /\ b \in sr}
\* The bits the translator keeps for a set of flags, and the manual's.
Kept(flags) == {CASE f = "V" -> 0 [] f = "C" -> 1 [] f = "Z" -> 2 [] f = "N" -> 3 [] f = "X" -> 4 : f \in flags}
ManualSr(flags) == {CASE f = "C" -> 0 [] f = "V" -> 1 [] f = "Z" -> 2 [] f = "N" -> 3 [] f = "X" -> 4 : f \in flags}
=============================================================================
