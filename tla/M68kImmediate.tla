--------------------------- MODULE M68kImmediate ---------------------------
(***************************************************************************)
(* Line 0 of the 68k: immediates, bit operations, CMP2/CHK2, CAS, MOVEP    *)
(* (src/hosted/jit68k/emu68/M68k_LINE0.c).  An emitter is the state change  *)
(* of the host instructions it emits; the mask of wanted condition codes is *)
(* always the instruction's own (M68K_GetSRMask, j5c_shims.c).             *)
(* An instruction is a record: n its size in bytes, ea its operand, imm an  *)
(* immediate, reg a register, dyn a bit number taken from a register.      *)
(***************************************************************************)
EXTENDS M68kEA

Imm(i) == Top(i.imm, i.n)

EMIT_CMPI(s, i) ==
  LET l == IF OnDn(i) THEN [s |-> s, v |-> s.r[i.ea.r]] ELSE LoadEA(s, i.n, FALSE, i.ea)
      h == Subs(Top(l.v, i.n), Imm(i))
  IN  WithCC(l, GetNZnCV(s.cc, NZVC, h))

SUBI_Dn(s, i) == DnResult(s, i, Subs(DnOld(s, i), Imm(i)))
SUBI_Mem(s, i) == MemResult(s, i, Subs(MemOld(s, i), Imm(i)))
EMIT_SUBI(s, i) ==
  LET o == IF OnDn(i) THEN SUBI_Dn(s, i) ELSE SUBI_Mem(s, i)
  IN  WithCC(o, GetNZnCVX(s.cc, CCFlags, o.h))

ADDI_Dn(s, i) == DnResult(s, i, Adds(DnOld(s, i), Imm(i)))
ADDI_Mem(s, i) == MemResult(s, i, Adds(MemOld(s, i), Imm(i)))
EMIT_ADDI(s, i) ==
  LET o == IF OnDn(i) THEN ADDI_Dn(s, i) ELSE ADDI_Mem(s, i)
  IN  WithCC(o, GetNZCVX(s.cc, CCFlags, o.h))

ORI_Dn(s, i) == DnResult(s, i, Cmn0(DnOld(s, i) | Imm(i)))
ORI_Mem(s, i) == MemResult(s, i, Cmn0(MemOld(s, i) | Imm(i)))
EMIT_ORI(s, i) ==
  LET o == IF OnDn(i) THEN ORI_Dn(s, i) ELSE ORI_Mem(s, i)
  IN  WithCC(o, GetNZ00(s.cc, NZVC, o.h))

ANDI_Dn(s, i) == DnResult(s, i, Ands(DnOld(s, i) & Imm(i)))
ANDI_Mem(s, i) == MemResult(s, i, Ands(MemOld(s, i) & Imm(i)))
EMIT_ANDI(s, i) ==
  LET o == IF OnDn(i) THEN ANDI_Dn(s, i) ELSE ANDI_Mem(s, i)
  IN  WithCC(o, GetNZ00(s.cc, NZVC, o.h))

EORI_Dn(s, i) == DnResult(s, i, Cmn0(DnOld(s, i) ^^ Imm(i)))
EORI_Mem(s, i) == MemResult(s, i, Cmn0(MemOld(s, i) ^^ Imm(i)))
EMIT_EORI(s, i) ==
  LET o == IF OnDn(i) THEN EORI_Dn(s, i) ELSE EORI_Mem(s, i)
  IN  WithCC(o, GetNZ00(s.cc, NZVC, o.h))

\* The three forms on the condition codes; i.imm is a set of flags.  The
\* register keeps V and C in swapped places, so the emitters swap the two bits.
EMIT_ORI_TO_CCR(s, i) == [s EXCEPT !.cc = SetFlags(@, i.imm)]
EMIT_ANDI_TO_CCR(s, i) == [s EXCEPT !.cc = ClearFlags(@, CCFlags \ i.imm)]
EMIT_EORI_TO_CCR(s, i) == [s EXCEPT !.cc = [f \in CCFlags |-> @[f] # (f \in i.imm)]]

-----------------------------------------------------------------------------
\* A bit number counts modulo a long in a register, modulo a byte in memory.
BitNumber(s, i) ==
  (IF i.dyn THEN s.r[i.reg] ELSE i.imm) % (IF OnDn(i) THEN LongBits ELSE ByteBits)
\* tst of the bit, then its new value: the register whole, one byte of memory.
BitWrite(s, i, Op(_)) ==
  LET k == BitNumber(s, i)
      old == IF OnDn(i) THEN s.r[i.ea.r] ELSE Low(MemOld(s, i), 1)
      new == Bfi(old, Bool(Op(Bit(old, k))), k, 1)
      o == IF OnDn(i) THEN [s |-> SetReg(s, i.ea.r, new)]
           ELSE MemResult(s, i, [r |-> Top(new, 1)])
  IN  WithCC(o, SetFlagsConditional(s.cc, {"Z"}, ~Bit(old, k)))
EMIT_BTST(s, i) ==
  LET l == LoadEA(s, IF OnDn(i) THEN 4 ELSE 1, FALSE, i.ea)
  IN  WithCC(l, SetFlagsConditional(s.cc, {"Z"}, ~Bit(l.v, BitNumber(s, i))))
EMIT_BCHG(s, i) == BitWrite(s, i, LAMBDA b : ~b)
EMIT_BCLR(s, i) == BitWrite(s, i, LAMBDA b : FALSE)
EMIT_BSET(s, i) == BitWrite(s, i, LAMBDA b : TRUE)

\* Both bounds are sign-extended and compared unsigned; the bounds of a signed
\* interval that crosses zero are in descending order.  CHK2 is the same: the
\* exception it would raise is not emitted.
EMIT_CMP2(s, i) ==
  LET a == AddressOf(s, i.ea)
      t == Raw(Touch(s, a, 2 * i.n))
      lo == Sext(Load(s, a, i.n), Bits(i.n))
      hi == Sext(Load(s, a + i.n, i.n), Bits(i.n))
      x == IF i.reg < 8 THEN Sext(s.r[i.reg], Bits(i.n)) ELSE s.r[i.reg]
      z == x = lo \/ x = hi
      c == IF lo > hi THEN x > hi /\ x < lo ELSE x > hi \/ x < lo
  IN  [t EXCEPT !.cc = [@ EXCEPT !["Z"] = z, !["C"] = ~z /\ c]]

\* Compare the operand with dc; equal: store du; else the operand goes to dc.
\* The exclusive pair and the plain pair (misaligned operands) do the same.
CAS_Body(s, i, addr) ==
  LET v == Load(s, addr, i.n)
      h == Subs(Top(v, i.n), Top(s.r[i.dc], i.n))
  IN  [s |-> IF h.z THEN Store(s, addr, i.n, s.r[i.du])
                    ELSE Merge(Touch(s, addr, i.n), i.dc, i.n, v), h |-> h]
EMIT_CAS(s, i) ==
  LET addr == RmwAddr(s, i.n, i.ea)
      o == CAS_Body(s, i, addr)
  IN  WithCC([s |-> RmwDone(o.s, i.n, i.ea, addr)], GetNZnCV(s.cc, NZVC, o.h))

\* Two operands at registers a1 and a2; both must match.
EMIT_CAS2(s, i) ==
  LET v == [k \in 1 .. 2 |-> Load(s, s.r[i.at[k]], i.n)]
      h == [k \in 1 .. 2 |-> Subs(Top(v[k], i.n), Top(s.r[i.dcs[k]], i.n))]
      t == Raw(Touch(Touch(s, s.r[i.at[1]], i.n), s.r[i.at[2]], i.n))
      o == IF h[1].z /\ h[2].z
           THEN Store(Store(t, s.r[i.at[2]], i.n, s.r[i.dus[2]]), s.r[i.at[1]], i.n, s.r[i.dus[1]])
           ELSE Merge(Merge(t, i.dcs[1], i.n, v[1]), i.dcs[2], i.n, v[2])
  IN  WithCC([s |-> o], GetNZnCV(s.cc, NZVC, IF h[1].z THEN h[2] ELSE h[1]))

\* Every other byte from (d16,An) on, to or from a word or a long of Dn.
MovepAddr(s, i, k) == Trunc(AddressOf(s, i.ea) + 2 * k, LongBits)
MOVEP_ToMem(s, i) ==
  LET byte(k) == Shr(s.r[i.reg], ByteBits * (i.n - 1 - k))
      put[k \in 0 .. i.n] ==
        IF k = 0 THEN s ELSE Store(put[k - 1], MovepAddr(s, i, k - 1), 1, byte(k - 1))
  IN  Raw(put[i.n])
MOVEP_ToReg(s, i) ==
  LET get[k \in 0 .. i.n] ==
        IF k = 0 THEN 0 ELSE get[k - 1] * 2^ByteBits + Load(s, MovepAddr(s, i, k - 1), 1)
      t[k \in 0 .. i.n] == IF k = 0 THEN s ELSE Touch(t[k - 1], MovepAddr(s, i, k - 1), 1)
  IN  Merge(Raw(t[i.n]), i.reg, i.n, get[i.n])
EMIT_MOVEP(s, i) == IF i.store THEN MOVEP_ToMem(s, i) ELSE MOVEP_ToReg(s, i)
=============================================================================
