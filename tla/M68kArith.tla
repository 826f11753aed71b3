------------------------------ MODULE M68kArith ------------------------------
(***************************************************************************)
(* Two-operand arithmetic and logic of the 68k: lines 5, 8, 9, B, C and D  *)
(* (src/hosted/jit68k/emu68/M68k_LINE5.c, _LINE8.c, _LINE9.c, _LINEB.c,    *)
(* _LINEC.c, _LINED.c).  An instruction names a register reg and an operand *)
(* ea; store says that the operand is the destination.  At the end the     *)
(* decimal instructions of lines 4, 8 and C.                               *)
(***************************************************************************)
EXTENDS M68kEA

\* The operand is added to, or combined with, a data register.
RegResult(i, l, h) == [s |-> Merge(l.s, i.reg, i.n, Low(h.r, i.n)), h |-> h]
RegOp(s, i, l, Op(_, _)) == RegResult(i, l, Op(Top(s.r[i.reg], i.n), Top(l.v, i.n)))
ToReg(s, i, Op(_, _)) == RegOp(s, i, LoadEA(s, i.n, FALSE, i.ea), Op)
\* The register is combined into the operand.
ToMem(s, i, Op(_, _)) == MemResult(s, i, Op(MemOld(s, i), Top(s.r[i.reg], i.n)))

\* addq, subq: a data register or memory; an address register whole, no flags.
Quick(i) == Top(i.imm, i.n)
ADDQ_Reg(s, i) == DnResult(s, i, Adds(DnOld(s, i), Quick(i)))
ADDQ_Mem(s, i) == MemResult(s, i, Adds(MemOld(s, i), Quick(i)))
EMIT_ADDQ(s, i) ==
  IF i.ea.m = "an" THEN SetReg(s, AddrReg(i.ea), Trunc(s.r[AddrReg(i.ea)] + i.imm, LongBits))
  ELSE AddFlags(s, IF OnDn(i) THEN ADDQ_Reg(s, i) ELSE ADDQ_Mem(s, i))
SUBQ_Reg(s, i) == DnResult(s, i, Subs(DnOld(s, i), Quick(i)))
SUBQ_Mem(s, i) == MemResult(s, i, Subs(MemOld(s, i), Quick(i)))
EMIT_SUBQ(s, i) ==
  IF i.ea.m = "an" THEN SetReg(s, AddrReg(i.ea), Trunc(s.r[AddrReg(i.ea)] - i.imm, LongBits))
  ELSE SubFlags(s, IF OnDn(i) THEN SUBQ_Reg(s, i) ELSE SUBQ_Mem(s, i))

\* A byte of ones or zeroes.
EMIT_Scc(s, i) == StoreEA(s, 1, i.ea, IF TestCondition(s.cc, i.cond) THEN 2^ByteBits - 1 ELSE 0)

SUB_ToReg(s, i) == ToReg(s, i, Subs)
SUB_ToMem(s, i) == ToMem(s, i, Subs)
EMIT_SUB(s, i) == SubFlags(s, IF i.store THEN SUB_ToMem(s, i) ELSE SUB_ToReg(s, i))
ADD_ToReg(s, i) == ToReg(s, i, Adds)
ADD_ToMem(s, i) == ToMem(s, i, Adds)
EMIT_ADD(s, i) == AddFlags(s, IF i.store THEN ADD_ToMem(s, i) ELSE ADD_ToReg(s, i))

\* The whole address register; a word operand is sign-extended.
EMIT_ADDA(s, i) ==
  LET l == LoadEA(s, i.n, TRUE, i.ea) IN SetReg(l.s, i.reg, Trunc(l.s.r[i.reg] + l.v, LongBits))
EMIT_SUBA(s, i) ==
  LET l == LoadEA(s, i.n, TRUE, i.ea) IN SetReg(l.s, i.reg, Trunc(l.s.r[i.reg] - l.v, LongBits))

\* subx, addx below a long: computed at full width; bit w is the carry.
XShort(t, n, v) == LET w == Bits(n) IN
  [r |-> Top(t, n), n |-> Bit(t, w - 1), z |-> Trunc(t, w) = 0, c |-> Bit(t, w), v |-> v]
\* The overflow of an addition.
MutSubxShort(s, n, d, x) ==
  LET t == Trunc(d - x - Bool(s.cc["X"]), LongBits)
  IN  XShort(t, n, Bit((d ^^ t) & (x ^^ t), Bits(n) - 1))
SubxShort(s, n, d, x) ==
  LET t == Trunc(d - x - Bool(s.cc["X"]), LongBits)
  IN  XShort(t, n, Bit((d ^^ x) & (d ^^ t), Bits(n) - 1))
AddxShort(s, n, d, x) ==
  LET t == Trunc(d + x + Bool(s.cc["X"]), LongBits)
  IN  XShort(t, n, Bit((d ^^ t) & (x ^^ t), Bits(n) - 1))
Subx(s, n, d, x) ==
  IF n = 4 THEN LET h == SbcsW(d, x, Bool(~s.cc["X"]), LongBits) IN [h EXCEPT !.c = ~@]
           ELSE SubxShort(s, n, d, x)
Addx(s, n, d, x) == IF n = 4 THEN Adcs(d, x, Bool(s.cc["X"])) ELSE AddxShort(s, n, d, x)
\* Registers, or -(Ax) then -(Ay): both move, the result goes to the second.
XFlags(s, t, h) == WithCC([s |-> t], StickyZ(s.cc, h, h.c))
XRegResult(s, i, h) == XFlags(s, Merge(s, i.reg, i.n, Low(h.r, i.n)), h)
XMemResult(s, i, t, h) == XFlags(s, Raw(Store(t, t.r[8 + i.reg], i.n, Low(h.r, i.n))), h)
XReg(s, i, Op(_, _, _, _)) ==
  LET low(x) == Trunc(s.r[x], Bits(i.n)) IN XRegResult(s, i, Op(s, i.n, low(i.reg), low(i.src)))
XMemOp(s, i, x, d, Op(_, _, _, _)) == XMemResult(s, i, d.s, Op(s, i.n, d.v, x.v))
XMemFrom(s, i, x, Op(_, _, _, _)) ==
  XMemOp(s, i, x, LoadEA(x.s, i.n, FALSE, [m |-> "pre", r |-> i.reg]), Op)
XMem(s, i, Op(_, _, _, _)) ==
  XMemFrom(s, i, LoadEA(s, i.n, FALSE, [m |-> "pre", r |-> i.src]), Op)
SUBX_Reg(s, i) == XReg(s, i, Subx)
SUBX_Mem(s, i) == XMem(s, i, Subx)
ADDX_Reg(s, i) == XReg(s, i, Addx)
ADDX_Mem(s, i) == XMem(s, i, Addx)

\* Comparisons: X is kept.
EMIT_CMP(s, i) ==
  LET l == LoadEA(s, i.n, FALSE, i.ea)
  IN  WithCC(l, GetNZnCV(s.cc, NZVC, Subs(Top(s.r[i.reg], i.n), Top(l.v, i.n))))
EMIT_CMPA(s, i) ==
  LET l == LoadEA(s, i.n, TRUE, i.ea)
  IN  WithCC(l, GetNZnCV(s.cc, NZVC, Subs(l.s.r[i.reg], l.v)))
\* (Ay)+ first, then (Ax)+.
EMIT_CMPM(s, i) ==
  LET y == LoadEA(s, i.n, FALSE, [m |-> "post", r |-> i.src])
      x == LoadEA(y.s, i.n, FALSE, [m |-> "post", r |-> i.reg])
  IN  WithCC(x, GetNZnCV(s.cc, NZVC, Subs(Top(x.v, i.n), Top(y.v, i.n))))

OrTop(a, b) == Cmn0(a | b)
EorTop(a, b) == Cmn0(a ^^ b)
AndTop(a, b) == Ands(a & b)
EMIT_OR(s, i) == LogicFlags(s, IF i.store THEN ToMem(s, i, OrTop) ELSE ToReg(s, i, OrTop))
EMIT_AND(s, i) == LogicFlags(s, IF i.store THEN ToMem(s, i, AndTop) ELSE ToReg(s, i, AndTop))
EMIT_EOR(s, i) ==
  LogicFlags(s, IF OnDn(i) THEN DnResult(s, i, EorTop(DnOld(s, i), Top(s.r[i.reg], i.n)))
                           ELSE ToMem(s, i, EorTop))

EMIT_EXG(s, i) == SetReg(SetReg(s, i.reg, s.r[i.src]), i.src, s.r[i.reg])

-----------------------------------------------------------------------------
(* ABCD, SBCD, NBCD, PACK, UNPK.  A byte is two digits of four bits and    *)
(* cannot be scaled: these emitters are functions on real bytes, of the    *)
(* operands d and s and the extend bit x, giving the byte r and the flags  *)
(* C (copied to X) and Z (only cleared).  Host registers keep enough bits  *)
(* for the tests the emitters make.                                        *)

Host(v) == v % 4096
Lo(b) == b % 16
Hi(b) == b - Lo(b)
Decimal(b, c) == [r |-> b % 256, c |-> c, z |-> b % 256 = 0]

\* Digits added apart; six corrects a low digit above nine, sixty a high one.
ABCD(d, s, x) ==
  LET a == Lo(s) + Lo(d) + x
      b == a + Hi(s) + Hi(d)
      e == IF a > 9 THEN b + 6 ELSE b
      c == (e & 1008) > 144
  IN  Decimal(IF c THEN e + 96 ELSE e, c)
EMIT_ABCD_reg(d, s, x) == ABCD(d, s, x)
EMIT_ABCD_mem(d, s, x) == ABCD(d, s, x)

\* A borrow of the low digits takes six off the result and off the carry's own
\* copy of the difference; a borrow of the byte takes sixty off.
SBCD(d, s, x) ==
  LET a == Host(Lo(d) - Lo(s) - x)
      n == Host(d - s - x)
      b == Host(a + Hi(d) - Hi(s))
      low == (a & 240) # 0
      b1 == IF low THEN Host(b - 6) ELSE b
      d1 == IF low THEN Host(n - 6) ELSE n
  IN  Decimal(IF (n & 256) # 0 THEN Host(b1 - 96) ELSE b1, (d1 & 768) # 0)
EMIT_SBCD_reg(d, s, x) == SBCD(d, s, x)
EMIT_SBCD_mem(d, s, x) == SBCD(d, s, x)

\* Zero minus the operand minus X.
EMIT_NBCD(d, x) ==
  LET lo == -Lo(d) - x
      lo1 == IF lo < 0 THEN lo - 6 ELSE lo
      t == Host(lo1 - Hi(d))
      c == (t & 496) >= 160
  IN  Decimal(IF c THEN Host(t - 96) ELSE t, c)

\* Two digits of a word into a byte after the adjustment, and back before it.
EMIT_PACK(w, adj) == LET t == (w + adj) % 65536 IN ((t \div 256) % 16) * 16 + (t % 16)
EMIT_UNPK(b, adj) == ((b \div 16) * 256 + Lo(b) + adj) % 65536
=============================================================================
