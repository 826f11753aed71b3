------------------------------ MODULE M68kMisc ------------------------------
(***************************************************************************)
(* Line 4 of the 68k: one-operand arithmetic, the stack frame, MOVEM, CHK  *)
(* (src/hosted/jit68k/emu68/M68k_LINE4.c).  The calls, returns and moves of *)
(* the status register of this line end a block and are the dispatcher's.  *)
(* The build sandboxes only this line's pushes, pops and MOVEM: the other  *)
(* read-modify-writes reach memory through the guest address itself.  Then *)
(* MOVE, MOVEA, MOVEQ (M68k_MOVE.c), and the multiplications and long      *)
(* divisions (M68k_MULDIV.c).                                              *)
(***************************************************************************)
EXTENDS M68kEA

EMIT_CLR(s, i) ==
  [StoreEA(s, i.n, i.ea, 0) EXCEPT !.cc = SetFlags(ClearFlags(@, NZVC), {"Z"})]

NOT_Dn(s, i) == DnResult(s, i, Cmn0(Top(Mvn(s.r[i.ea.r]), i.n)))
NOT_Mem(s, i) == RawResult(s, i, Cmn0(Top(Mvn(Low(MemOld(s, i), i.n)), i.n)))
EMIT_NOT(s, i) == LogicFlags(s, IF OnDn(i) THEN NOT_Dn(s, i) ELSE NOT_Mem(s, i))

NEG_Dn(s, i) == DnResult(s, i, Subs(0, DnOld(s, i)))
NEG_Mem(s, i) == RawResult(s, i, Subs(0, MemOld(s, i)))
EMIT_NEG(s, i) == SubFlags(s, IF OnDn(i) THEN NEG_Dn(s, i) ELSE NEG_Mem(s, i))

\* 0 - d - X.  A long uses the host's carry, loaded with the complement of X.
NegxLong(s, d) == SbcsW(0, d, Bool(~s.cc["X"]), LongBits)
\* A shorter operand is negated at full width; bit w of the result is the
\* borrow, bit w - 1 of result AND operand the overflow.
NegxShort(s, n, d) ==
  LET t == Trunc(0 - d - Bool(s.cc["X"]), LongBits)
      w == Bits(n)
  IN  [r |-> Top(t, n), n |-> Bit(t, w - 1), z |-> Trunc(t, w) = 0,
       c |-> ~Bit(t, w), v |-> Bit(t & d, w - 1)]
Negx(s, n, d) == IF n = 4 THEN NegxLong(s, d) ELSE NegxShort(s, n, d)
NEGX_Dn(s, i) == DnResult(s, i, Negx(s, i.n, Trunc(s.r[i.ea.r], Bits(i.n))))
NEGX_Mem(s, i) == RawResult(s, i, Negx(s, i.n, Low(MemOld(s, i), i.n)))
NegxFlags(s, o) == WithCC(o, StickyZ(s.cc, o.h, ~o.h.c))
EMIT_NEGX(s, i) == NegxFlags(s, IF OnDn(i) THEN NEGX_Dn(s, i) ELSE NEGX_Mem(s, i))

EMIT_TST(s, i) ==
  LET l == LoadEA(s, i.n, FALSE, i.ea)
  IN  WithCC(l, GetNZ00(s.cc, NZVC, Cmn0(Top(l.v, i.n))))

\* The old byte is tested, its top bit set.
EMIT_TAS(s, i) ==
  LET set(h) == [r |-> h | 2^(LongBits - 1)]
      h == IF OnDn(i) THEN DnOld(s, i) ELSE MemOld(s, i)
      o == IF OnDn(i) THEN DnResult(s, i, set(h)) ELSE RawResult(s, i, set(h))
  IN  WithCC(o, GetNZ00(s.cc, NZVC, Cmn0(h)))

\* ext.w, ext.l, extb.l (i.n the size of the result); an ext.w followed by an
\* ext.l of the same register is emitted as one extb.l.
EMIT_EXT(s, i) ==
  LET r == s.r[i.reg]
      fused == i.n = 2 /\ i.fused
      v == IF i.n = 2 \/ i.byte THEN Sext(r, ByteBits) ELSE Sext(r, 2 * ByteBits)
      t == IF i.n = 2 /\ ~fused THEN Merge(s, i.reg, 2, v) ELSE SetReg(s, i.reg, v)
  IN  [t EXCEPT !.cc = GetNZ00(@, NZVC, Subs(v, 0))]

\* The halves change places.
EMIT_SWAP(s, i) ==
  LET v == Ror(s.r[i.reg], 2 * ByteBits)
  IN  [SetReg(s, i.reg, v) EXCEPT !.cc = GetNZ00(@, NZVC, Cmn0(v))]

-----------------------------------------------------------------------------
Push(s, v) ==
  LET sp == Trunc(s.r[SP] - 4, LongBits) IN SetReg(Store(s, sp, 4, v), SP, sp)

\* link An,#d: LINK of A7 pushes the decremented stack pointer and only that.
EMIT_LINK(s, i) ==
  LET a == AddrReg(i.ea)
      t == Push(s, IF a = SP THEN Trunc(s.r[SP] - 4, LongBits) ELSE s.r[a])
      u == IF a = SP THEN t ELSE SetReg(t, a, t.r[SP])
  IN  SetReg(u, SP, Trunc(t.r[SP] + i.imm, LongBits))
EMIT_UNLK(s, i) ==
  LET a == AddrReg(i.ea)
      sp == s.r[a]
      t == SetReg(Touch(s, sp, 4), SP, sp)
      u == SetReg(t, a, Load(s, sp, 4))
  IN  SetReg(u, SP, Trunc(u.r[SP] + 4, LongBits))
EMIT_PEA(s, i) == Push(s, AddressOf(s, i.ea))
EMIT_LEA(s, i) == SetReg(s, i.reg, AddressOf(s, i.ea))

\* The registers of a MOVEM list in the order they meet memory: ascending.
ListOrder(set) == [k \in 1 .. Cardinality(set) |->
                     CHOOSE x \in set : Cardinality({y \in set : y < x}) = k - 1]
\* Registers to memory.  -(An) is lowered by the whole block first; An itself
\* is stored lowered by one element.
MOVEM_Store(s, i) ==
  LET order == ListOrder(i.list)
      block == i.n * Cardinality(i.list)
      pre == i.ea.m = "pre"
      base == Trunc(AddressOf(s, i.ea) - (IF pre THEN block ELSE 0), LongBits)
      val(x) == IF pre /\ x = AddrReg(i.ea) THEN s.r[x] - i.n ELSE s.r[x]
      put[k \in 0 .. Len(order)] ==
        IF k = 0 THEN s
        ELSE Store(put[k - 1], Trunc(base + i.n * (k - 1), LongBits), i.n, Trunc(val(order[k]), LongBits))
      t == put[Len(order)]
  IN  IF pre /\ i.list # {} THEN SetReg(t, AddrReg(i.ea), base) ELSE t
\* Memory to registers; (An)+ skips An's own slot and adds the block at the
\* end, except that two longs are left to the paired load with post-increment.
MOVEM_Load(s, i) ==
  LET order == ListOrder(i.list)
      block == i.n * Cardinality(i.list)
      post == i.ea.m = "post"
      base == AddressOf(s, i.ea)
      skip(x) == post /\ x = AddrReg(i.ea)
      at(k) == Trunc(base + i.n * (k - 1), LongBits)
      get[k \in 0 .. Len(order)] ==
        IF k = 0 THEN s
        ELSE IF skip(order[k]) THEN get[k - 1]
        ELSE SetReg(Touch(get[k - 1], at(k), i.n), order[k], Sext(Load(s, at(k), i.n), Bits(i.n)))
      t == get[Len(order)]
      paired == i.n = 4 /\ Cardinality(i.list) = 2
      bump == post /\ (~paired \/ AddrReg(i.ea) \notin i.list)
  IN  IF bump THEN SetReg(t, AddrReg(i.ea), Trunc(base + block, LongBits)) ELSE t
EMIT_MOVEM(s, i) == IF i.store THEN MOVEM_Store(s, i) ELSE MOVEM_Load(s, i)

\* The bounds check sets N; the exception it would raise is not emitted.
EMIT_CHK(s, i) ==
  LET l == LoadEA(s, i.n, FALSE, i.ea)
      src == Top(l.v, i.n)
      d == Top(s.r[i.reg], i.n)
      h == Subs(src, d)
      neg == Msb(d, LongBits)
      n == neg \/ (Holds(h, "GE") /\ Msb(src, LongBits))
  IN  WithCC(l, [ClearFlags(s.cc, {"C"}) EXCEPT !["N"] = n])

-----------------------------------------------------------------------------
(* MOVE, MOVEA, MOVEQ.  The build translates with the merging of two MOVEs *)
(* off.                                                                    *)

EMIT_moveq(s, i) ==
  LET v == Sext(i.imm, ByteBits)
  IN  [SetReg(s, i.reg, v) EXCEPT !.cc = GetNZ00(@, NZVC, Cmn0(v))]

\* A move into a data register and the sign extension that follows it are one:
\* i.fused is the size extended from (0: none).
Extends(i) == i.fused # 0 /\ i.dst.m = "dn"
\* N and Z: of the constant where the source is one (the byte or word as it
\* stands in the instruction, also when the extension was fused), else of the
\* value at its final size.
MoveNZ(s, i, v) ==
  IF i.ea.m = "imm"
  THEN LET w == IF Extends(i) THEN LongBits ELSE Bits(i.n)
           u == Trunc(i.ea.d, Bits(i.n))
       IN  HostFlags(Trunc(u, w), w, FALSE, FALSE)
  ELSE Cmn0(Top(v, IF Extends(i) THEN 4 ELSE i.n))
\* movea takes the whole register and no flags.  A source (An)+ or -(An) of the
\* very register that is written: the loaded value is what stays.
Moved(s, i, l) ==
  LET n == IF Extends(i) \/ i.dst.m = "an" THEN 4 ELSE i.n
  IN  [StoreEA(l.s, n, i.dst, l.v) EXCEPT
         !.cc = IF i.dst.m = "an" THEN @ ELSE GetNZ00(s.cc, NZVC, MoveNZ(s, i, l.v))]
EMIT_move(s, i) == Moved(s, i, LoadEA(s, i.n, Extends(i) \/ i.dst.m = "an", i.ea))

-----------------------------------------------------------------------------
(* MULS, MULU, DIVS, DIVU.  The word divisions end a block and are the     *)
(* dispatcher's.                                                           *)

WordProduct(s, i, l, a, b) ==
  LET p == Trunc(a * b, LongBits)
  IN  [SetReg(l.s, i.reg, p) EXCEPT !.cc = GetNZ00(s.cc, NZVC, Cmn0(p))]
EMIT_MULS_W(s, i) ==
  LET l == LoadEA(s, 2, TRUE, i.ea)
      w == 2 * ByteBits
  IN  WordProduct(s, i, l, Signed(l.s.r[i.reg], w), Signed(l.v, w))
EMIT_MULU_W(s, i) ==
  LET l == LoadEA(s, 2, FALSE, i.ea)
      w == 2 * ByteBits
  IN  WordProduct(s, i, l, Trunc(l.s.r[i.reg], w), Trunc(l.v, w))

MulOperand(i, v, w) == IF i.signed THEN Signed(v, w) ELSE v
\* smull or umull into the X register of dl.  A 64-bit product hands its upper
\* half to dh; of a 32-bit product the upper half only decides V.
WriteProduct(s, i, t, lo, hi) ==
  LET h == IF i.wide THEN HostFlags(hi * 2^LongBits + lo, XBits, FALSE, FALSE) ELSE Cmn0(lo)
      sign == IF i.signed /\ Msb(lo, LongBits) THEN 2^LongBits - 1 ELSE 0
  IN  [SetReg(IF i.wide /\ i.dh # i.dl THEN SetReg(t, i.dh, hi) ELSE t, i.dl, lo) EXCEPT
         !.cc = [GetNZ00(s.cc, NZVC, h) EXCEPT !["V"] = ~i.wide /\ hi # sign]]
LongProduct(s, i, t, p) == WriteProduct(s, i, t, Trunc(p, LongBits), p \div 2^LongBits)
MultiplyBy(s, i, l) ==
  LongProduct(s, i, l.s,
    Trunc(MulOperand(i, l.s.r[i.dl], LongBits) * MulOperand(i, l.v, LongBits), XBits))
EMIT_MULS_L(s, i) == MultiplyBy(s, i, LoadEA(s, 4, FALSE, i.ea))

\* Division truncates towards zero, as the host's sdiv does.
Magnitude(a) == IF a < 0 THEN -a ELSE a
Quotient(a, b) == (IF (a < 0) = (b < 0) THEN 1 ELSE -1) * (Magnitude(a) \div Magnitude(b))
Divided(s, i, a, b, z) ==
  SetReg(IF i.dr = i.dq THEN s ELSE SetReg(s, i.dr, Trunc(a - z * b, LongBits)),
         i.dq, Trunc(z, LongBits))
\* 64 by 32 bits: a quotient that does not fit leaves both registers and sets
\* V; 32 by 32 bits never sets it.
DIVUS_Wide(s, i, a, b, z) ==
  IF MulOperand(i, Trunc(z, LongBits), LongBits) = z
  THEN [s |-> Divided(s, i, a, b, z), v |-> FALSE] ELSE [s |-> s, v |-> TRUE]
DIVUS_Long(s, i, a, b, z) == [s |-> Divided(s, i, a, b, z), v |-> FALSE]
DIVUS(s, i, a, b) ==
  IF i.wide THEN DIVUS_Wide(s, i, a, b, Quotient(a, b)) ELSE DIVUS_Long(s, i, a, b, Quotient(a, b))
Dividend(s, i) ==
  IF i.wide THEN MulOperand(i, s.r[i.dr] * 2^LongBits + s.r[i.dq], XBits)
            ELSE MulOperand(i, s.r[i.dq], LongBits)
DivideFlags(s, i, o) ==
  [o.s EXCEPT !.cc = GetNZxx([ClearFlags(s.cc, {"V", "C"}) EXCEPT !["V"] = o.v], {"N", "Z"},
                             Cmn0(o.s.r[i.dq]))]
\* A zero divisor leaves the block; the exception itself is not emitted.
DivideLong(s, i, l) ==
  IF l.v = 0 THEN l.s
  ELSE DivideFlags(s, i, DIVUS(l.s, i, Dividend(l.s, i), MulOperand(i, l.v, LongBits)))
EMIT_DIVUS_L(s, i) == DivideLong(s, i, LoadEA(s, 4, FALSE, i.ea))
=============================================================================
