---------------------------- MODULE M68kBitfield ----------------------------
(***************************************************************************)
(* Bit field instructions of the 68k                                       *)
(* (src/hosted/jit68k/emu68/M68k_LINEE.c).  A field is width bits from bit *)
(* off on, bit 0 being the most significant of the operand; either number  *)
(* is a constant of the instruction or a data register.  In a register the *)
(* field wraps around; in memory it starts off bits after the address,     *)
(* which may be negative, and the emitters fetch one, two, four or eight   *)
(* bytes around it.                                                        *)
(***************************************************************************)
EXTENDS M68kEA

\* enum BF_OP; the first five leave the field, the last three fill dest.
BF_OP == {"EOR", "SET", "CLR", "TST", "INS", "EXTS", "EXTU", "FFO"}
ToField == {"EOR", "SET", "CLR", "INS"}
ToDest == {"EXTS", "EXTU", "FFO"}

\* A width of zero means 32.
Width(w) == IF w % LongBits = 0 THEN LongBits ELSE w % LongBits
FieldOff(s, i) == IF i.offReg THEN s.r[i.off] ELSE i.off
FieldWidth(s, i) == Width(IF i.widReg THEN s.r[i.wid] ELSE i.wid)

\* Fields are worked on at the top of a host register of size bits.
TopMask(size, w) == 2^size - 2^(size - w)
Clz(v, size) == IF v = 0 THEN size ELSE size - 1 - CHOOSE k \in 0 .. size - 1 : v \div 2^k = 1
BicMask(v, m) == v - (v & m)
\* N and Z of a field that was moved to the top, or of the value inserted.
FieldCC(s, v, size) == GetNZ00(s.cc, NZVC, HostFlags(v, size, FALSE, FALSE))
\* The value bfins takes from its source register, at the top.
Inserted(s, i, size, w) == Trunc(s.r[i.data], w) * 2^(size - w)
\* A window d of size bits, with the field b bits below its top: the flags, the
\* window after the operation, and what the destination register receives.
WindowResult(s, i, d, size, b, w, mask, field, ins) ==
  LET low == field \div 2^(size - w)
  IN  [cc |-> FieldCC(s, IF i.op = "INS" THEN ins ELSE field, size),
       d |-> CASE i.op = "EOR" -> d ^^ Shr(mask, b)
               [] i.op = "SET" -> d | Shr(mask, b)
               [] i.op = "CLR" -> BicMask(d, Shr(mask, b))
               [] i.op = "INS" -> BicMask(d, Shr(mask, b)) | Shr(ins, b)
               [] OTHER -> d,
       v |-> CASE i.op = "EXTU" -> low
               [] i.op = "EXTS" -> Sext(low, w)
               [] i.op = "FFO" ->
                    Trunc(Clz(field | (2^(size - w) - 1), size) + FieldOff(s, i), LongBits)
               [] OTHER -> 0]
FieldOp(s, i, d, size, b, w) ==
  WindowResult(s, i, d, size, b, w, TopMask(size, w), Trunc(d * 2^b, size) & TopMask(size, w),
              Inserted(s, i, size, w))

-----------------------------------------------------------------------------
(* In memory.                                                              *)
LoadN(s, addr, k) ==
  IF k = 8 THEN Load(s, addr, 4) * 2^LongBits + Load(s, addr + 4, 4) ELSE Load(s, addr, k)
StoreN(s, addr, k, v) ==
  IF k = 8 THEN Store(Store(s, addr, 4, v \div 2^LongBits), addr + 4, 4, Trunc(v, LongBits))
           ELSE Store(s, addr, k, v)
\* All of them through the guest address itself.  bftst and the operations
\* with a destination do not write back.
WriteBack(s, i, addr, k, o) ==
  LET t == IF i.op \in ToField THEN StoreN(s, addr, k, o.d) ELSE s
  IN  Raw([IF i.op \in ToDest THEN SetReg(t, i.data, o.v) ELSE t EXCEPT !.cc = o.cc])
OnWindow(s, i, addr, k, b, w) ==
  WriteBack(s, i, addr, k, FieldOp(s, i, LoadN(s, addr, k), k * ByteBits, b, w))

\* Constant offset and width: the smallest window that holds the field.
EMIT_BFxxx_II(s, i, base) ==
  LET b == i.off % ByteBits
      w == Width(i.wid)
      k == CHOOSE n \in {1, 2, 4, 8} :
             /\ b + w <= n * ByteBits
             /\ \A m \in {1, 2, 4, 8} : b + w <= m * ByteBits => n <= m
  IN  OnWindow(s, i, base + i.off \div ByteBits, k, b, w)

\* Otherwise one that holds the width at any bit offset: chosen when the
\* instruction runs if the width is in a register,
WindowFor(w) ==
  IF w = 1 THEN 1 ELSE IF w <= ByteBits THEN 2 ELSE IF w <= 3 * ByteBits THEN 4 ELSE 8
EMIT_BFxxx_IR(s, i, base) ==
  LET w == FieldWidth(s, i)
  IN  OnWindow(s, i, base + i.off \div ByteBits, WindowFor(w), i.off % ByteBits, w)
\* ... and when it is translated if it is not.  A register's offset is signed:
\* its byte part is added with an arithmetic shift.
FieldBase(s, i, base) == Trunc(base + Signed(s.r[i.off], LongBits) \div ByteBits, LongBits)
FieldBit(s, i) == s.r[i.off] % ByteBits
\* One bit: a select on the tested bit replaces the general formula.
RI_Bit(s, i, addr) ==
  LET d == Load(s, addr, 1)
      mask == Shr(2^(ByteBits - 1), FieldBit(s, i))
      one == IF i.op = "INS" THEN Bit(s.r[i.data], 0) ELSE (d & mask) # 0
  IN  WriteBack(s, i, addr, 1,
        [cc |-> [s.cc EXCEPT !["N"] = one, !["Z"] = ~one, !["V"] = FALSE, !["C"] = FALSE],
         d |-> CASE i.op = "EOR" -> d ^^ mask
                 [] i.op = "SET" -> d | mask
                 [] i.op = "CLR" -> BicMask(d, mask)
                 [] i.op = "INS" -> IF one THEN d | mask ELSE BicMask(d, mask)
                 [] OTHER -> d,
         v |-> CASE i.op = "EXTU" -> Bool(one)
                 [] i.op = "EXTS" -> IF one THEN 2^LongBits - 1 ELSE 0
                 [] i.op = "FFO" -> Trunc(s.r[i.off] + 1 - Bool(one), LongBits)
                 [] OTHER -> 0])
RI_Half(s, i, addr) == OnWindow(s, i, addr, 2, FieldBit(s, i), Width(i.wid))
RI_Long(s, i, addr) == OnWindow(s, i, addr, 4, FieldBit(s, i), Width(i.wid))
RI_Double(s, i, addr) == OnWindow(s, i, addr, 8, FieldBit(s, i), Width(i.wid))
EMIT_BFxxx_RI(s, i, base) ==
  LET addr == FieldBase(s, i, base)
      k == WindowFor(Width(i.wid))
  IN  CASE k = 1 -> RI_Bit(s, i, addr)
        [] k = 2 -> RI_Half(s, i, addr)
        [] k = 4 -> RI_Long(s, i, addr)
        [] k = 8 -> RI_Double(s, i, addr)
EMIT_BFxxx_RR(s, i, base) ==
  LET w == FieldWidth(s, i)
  IN  OnWindow(s, i, FieldBase(s, i, base), WindowFor(w), FieldBit(s, i), w)

\* Which of the four: the same choice in every bit field emitter.
BitfieldAt(s, i, base) ==
  CASE ~i.offReg /\ ~i.widReg -> EMIT_BFxxx_II(s, i, base)
    [] ~i.offReg /\ i.widReg -> EMIT_BFxxx_IR(s, i, base)
    [] i.offReg /\ ~i.widReg -> EMIT_BFxxx_RI(s, i, base)
    [] i.offReg /\ i.widReg -> EMIT_BFxxx_RR(s, i, base)
BitfieldMem(s, i) == BitfieldAt(s, i, AddressOf(s, i.ea))
EMIT_BFTST(s, i) == BitfieldMem(s, [i EXCEPT !.op = "TST"])
EMIT_BFEXTU(s, i) == BitfieldMem(s, [i EXCEPT !.op = "EXTU"])
EMIT_BFEXTS(s, i) == BitfieldMem(s, [i EXCEPT !.op = "EXTS"])
EMIT_BFFFO(s, i) == BitfieldMem(s, [i EXCEPT !.op = "FFO"])
EMIT_BFCHG(s, i) == BitfieldMem(s, [i EXCEPT !.op = "EOR"])
EMIT_BFSET(s, i) == BitfieldMem(s, [i EXCEPT !.op = "SET"])
EMIT_BFCLR(s, i) == BitfieldMem(s, [i EXCEPT !.op = "CLR"])
EMIT_BFINS(s, i) == BitfieldMem(s, [i EXCEPT !.op = "INS"])

-----------------------------------------------------------------------------
(* In a register: the register is doubled and moved up by the offset.      *)
Doubled(v, off) == Lsl64(v * 2^LongBits + v, off % LongBits)
FieldTop(s, i) ==
  Doubled(s.r[i.reg], FieldOff(s, i)) & TopMask(XBits, FieldWidth(s, i))
RegField(s, i) == FieldTop(s, i) \div 2^(XBits - FieldWidth(s, i))
\* The 32-bit mask of the field, rotated to its place.
RegMask(s, i) == Ror(TopMask(LongBits, FieldWidth(s, i)), FieldOff(s, i))
RegCC(s, i) == FieldCC(s, FieldTop(s, i), XBits)

EMIT_BFTST_reg(s, i) == [s EXCEPT !.cc = RegCC(s, i)]
EMIT_BFEXTU_reg(s, i) == [SetReg(s, i.data, RegField(s, i)) EXCEPT !.cc = RegCC(s, i)]
EMIT_BFEXTS_reg(s, i) ==
  [SetReg(s, i.data, Sext(RegField(s, i), FieldWidth(s, i))) EXCEPT !.cc = RegCC(s, i)]
\* The bits below the field are set, so an empty field counts its width.  The
\* offset added is the register's own, not reduced.
EMIT_BFFFO_reg(s, i) ==
  LET t == FieldTop(s, i) | (2^(XBits - FieldWidth(s, i)) - 1)
  IN  [SetReg(s, i.data, Trunc(Clz(t, XBits) + FieldOff(s, i), LongBits))
         EXCEPT !.cc = RegCC(s, i)]
EMIT_BFCHG_reg(s, i) == [SetReg(s, i.reg, s.r[i.reg] ^^ RegMask(s, i)) EXCEPT !.cc = RegCC(s, i)]
EMIT_BFSET_reg(s, i) == [SetReg(s, i.reg, s.r[i.reg] | RegMask(s, i)) EXCEPT !.cc = RegCC(s, i)]
EMIT_BFCLR_reg(s, i) == [SetReg(s, i.reg, BicMask(s.r[i.reg], RegMask(s, i))) EXCEPT !.cc = RegCC(s, i)]
EMIT_BFINS_reg(s, i) ==
  LET src == Inserted(s, i, LongBits, FieldWidth(s, i))
      d == BicMask(s.r[i.reg], RegMask(s, i)) | Ror(src, FieldOff(s, i))
  IN  [SetReg(s, i.reg, d) EXCEPT !.cc = FieldCC(s, src, LongBits)]
=============================================================================
