------------------------------ MODULE M68kShift ------------------------------
(***************************************************************************)
(* Shifts and rotates of the 68k (src/hosted/jit68k/emu68/M68k_LINEE.c).   *)
(* An instruction has a size n, a direction left, and shifts the register  *)
(* reg by the constant imm (1 .. ByteBits) or by the register cnt, or a    *)
(* word in memory, ea, by one.                                             *)
(***************************************************************************)
EXTENDS M68kEA

\* What an emitter has at its end: the host register with the result in its
\* low bytes, and the bits it made C, V and (extend) X from.
Shifted(t, c, v) == [t |-> t, c |-> c, v |-> v]
\* N and Z of the low n bytes; a rotate without extend leaves X alone.
ShiftCC(s, n, o, ext) ==
  LET h == Cmn0(Top(Trunc(o.t, LongBits), n))
  IN  Put(s.cc, [X |-> o.c, N |-> h.n, Z |-> h.z, V |-> o.v, C |-> o.c],
          IF ext THEN CCFlags ELSE NZVC)
ShiftDn(s, i, o, ext) ==
  [Merge(s, i.reg, i.n, o.t) EXCEPT !.cc = ShiftCC(s, i.n, o, ext)]
\* Count zero: N and Z of the register, V and C clear, X kept.
ShiftZero(s, i) == [s EXCEPT !.cc = GetNZ00(@, NZVC, Cmn0(Top(s.r[i.reg], i.n)))]
\* The count register modulo 64.
Count(s, i) == s.r[i.cnt] % XBits
\* Bit width of the operand, and the operand alone.
W(i) == Bits(i.n)
Operand(s, i) == Trunc(s.r[i.reg], W(i))

-----------------------------------------------------------------------------
(* asl, asr.  V: the sign changed on the way, found by comparing the bits   *)
(* that pass through the sign position.                                     *)
ASL_Overflow(s, i, n) ==
  LET mask == Asr64(2^(XBits - 1), n) \div 2^(XBits - W(i))
      v == Operand(s, i)
  IN  (v & mask) # 0 /\ (n >= W(i) \/ ((v ^^ mask) & mask) # 0)
ASL_Left(s, i, n) ==
  LET t == Lsl64(s.r[i.reg], n) IN Shifted(t, Bit(t, W(i)), ASL_Overflow(s, i, n))
ASL_Right(s, i, n) ==
  LET t == Sext64(s.r[i.reg], W(i)) IN Shifted(Asr64(t, n), Bit(t, n - 1), FALSE)
EMIT_ASL_reg(s, i) ==
  LET n == Count(s, i)
  IN  IF n = 0 THEN ShiftZero(s, i)
      ELSE ShiftDn(s, i, IF i.left THEN ASL_Left(s, i, n) ELSE ASL_Right(s, i, n), TRUE)

\* By a constant: the top imm + 1 bits decide V; a byte shifted out whole
\* overflows unless it was zero.
ASL_ImmV(s, i) ==
  LET width == IF i.n = 1 /\ i.imm + 1 > ByteBits THEN ByteBits ELSE i.imm + 1
      v == Operand(s, i) \div 2^(W(i) - width)
  IN  v # 0 /\ ((i.n = 1 /\ i.imm = ByteBits) \/ v # 2^width - 1)
EMIT_ASL(s, i) ==
  LET v == s.r[i.reg]
  IN  ShiftDn(s, i, IF i.left
        THEN Shifted(Shl(v, i.imm), Bit(v, W(i) - i.imm), ASL_ImmV(s, i))
        ELSE Shifted(Asr(Sext(v, W(i)), i.imm), Bit(v, i.imm - 1), FALSE), TRUE)

\* lsl, lsr.
LSL_Right(s, i, n) ==
  LET v == Operand(s, i) IN Shifted(v \div 2^n, Bit(Ror64(v, n), XBits - 1), FALSE)
EMIT_LSL_reg(s, i) ==
  LET n == Count(s, i)
      t == Lsl64(s.r[i.reg], n)
  IN  IF n = 0 THEN ShiftZero(s, i)
      ELSE ShiftDn(s, i, IF i.left THEN Shifted(t, Bit(t, W(i)), FALSE)
                                   ELSE LSL_Right(s, i, n), TRUE)
EMIT_LSL(s, i) ==
  LET v == s.r[i.reg]
  IN  ShiftDn(s, i, IF i.left
        THEN Shifted(Shl(v, i.imm), Bit(v, W(i) - i.imm), FALSE)
        ELSE Shifted(Operand(s, i) \div 2^i.imm, Bit(v, i.imm - 1), FALSE), TRUE)

-----------------------------------------------------------------------------
(* rol, ror: the operand is repeated through the host register and that is  *)
(* rotated; C is the bit that came around.                                  *)
Repeated(v, n) ==
  LET b == IF n = 1 THEN Bfi(v, v, ByteBits, ByteBits) ELSE v
  IN  IF n = 4 THEN b ELSE Bfi(b, b, 2 * ByteBits, 2 * ByteBits)
ROL_Result(s, i, n, some) ==
  LET t == Ror(Repeated(s.r[i.reg], i.n), IF i.left THEN LongBits - n ELSE n)
  IN  Shifted(t, some /\ Bit(t, IF i.left THEN 0 ELSE W(i) - 1), FALSE)
EMIT_ROL_reg(s, i) ==
  ShiftDn(s, i, ROL_Result(s, i, s.r[i.cnt] % LongBits, Count(s, i) # 0), FALSE)
EMIT_ROL(s, i) == ShiftDn(s, i, ROL_Result(s, i, i.imm, TRUE), FALSE)

-----------------------------------------------------------------------------
(* roxl, roxr: X is one more bit of the operand.                            *)
\* By a register: the count modulo the 9, 17 or 33 bits that rotate.
ROXL_Left(t, w, n) ==
  CASE w = ByteBits -> Ror(Bfi(t, t, LongBits - w - 1, w + 1), LongBits - n)
    [] w = 2 * ByteBits -> Ror64(Bfi(t, t, XBits - w - 1, w + 1), XBits - n)
    [] OTHER -> IF n = 0 THEN t
                ELSE IF n = w THEN Ror64(Bfi(t, t, w + 1, ByteBits + 2), 1)
                ELSE LET u == Lsl64(t, w - 1) IN Ror64(Bfxil(u, u, w - 1, w), XBits - n)
ROXL_Right(t, d, w, n) ==
  CASE w = ByteBits -> Ror(Bfi(t, t, w + 1, w + 1), n)
    [] w = 2 * ByteBits -> Ror64(Bfi(t, t, w + 1, w + 1), n)
    [] OTHER -> IF n < w THEN Ror64(Bfi(t, t, w + 1, w - 1), n)
                ELSE Ror64(Bfi(t \div 2^w, d, 1, w), n - w)
\* Count zero copies X to C.
ROXL_Zero(s, i) ==
  LET o == ShiftZero(s, i) IN [o EXCEPT !.cc["C"] = s.cc["X"]]
EMIT_ROXL_reg(s, i) ==
  LET w == W(i)
      n == Count(s, i) % (w + 1)
      d == s.r[i.reg]
      t == Operand(s, i) + Bool(s.cc["X"]) * 2^w
      u == IF i.left THEN ROXL_Left(t, w, n) ELSE ROXL_Right(t, d, w, n)
  IN  IF Count(s, i) = 0 THEN ROXL_Zero(s, i)
      ELSE ShiftDn(s, i, Shifted(u, Bit(u, w), FALSE), TRUE)

\* By a constant: to the left X is put above a copy of the operand at the top
\* of the host register, to the right above the operand itself.
ROXL_ImmLeft(d, x, w, n) ==
  LET top == IF w = LongBits THEN XBits ELSE LongBits
      u == IF w = LongBits THEN Lsl64(d, w - 1) ELSE d
      t == Bfi(u, x, top - 1, 1)
      r == IF w = LongBits THEN Bfxil(t, t, w - 1, w) ELSE Bfi(t, t, top - 1 - w, w)
      y == IF w = LongBits THEN Ror64(r, XBits - n) ELSE Ror(r, LongBits - n)
  IN  Shifted(y, Bit(y, top - 1), FALSE)
ROXL_ImmRight(d, x, w, n) ==
  LET t == Bfi(d, x, w, 1)
      r == CASE w = ByteBits -> Ror(Bfi(t, t, w + 1, w + 1), n)
             [] w = 2 * ByteBits -> Ror64(Bfi(t, t, w + 1, w + 1), n)
             [] OTHER -> Ror64(Bfi(Bfi(Lsl64(d, w + 1), d, 0, w), x, w, 1), n)
  IN  Shifted(r, Bit(r, w), FALSE)
EMIT_ROXL(s, i) ==
  LET d == s.r[i.reg]
      x == Bool(s.cc["X"])
  IN  ShiftDn(s, i, IF i.left THEN ROXL_ImmLeft(d, x, W(i), i.imm)
                              ELSE ROXL_ImmRight(d, x, W(i), i.imm), TRUE)

-----------------------------------------------------------------------------
(* A word in memory, by one.                                                *)
MemWord(s, i) == Load(s, RmwAddr(s, 2, i.ea), 2)
ShiftMem(s, i, o, ext) ==
  LET addr == RmwAddr(s, 2, i.ea)
      d == RmwDone(Store(s, addr, 2, Trunc(o.t, 2 * ByteBits)), 2, i.ea, addr)
  IN  [d EXCEPT !.cc = ShiftCC(s, 2, o, ext)]
\* asl and asr load through the guest address itself.
EMIT_ASL_mem(s, i) ==
  LET v == Sext(MemWord(s, i), 2 * ByteBits)
      t == IF i.left THEN Shl(v, 1) ELSE Asr(v, 1)
      c == Bit(v, IF i.left THEN 2 * ByteBits - 1 ELSE 0)
  IN  Raw(ShiftMem(s, i, Shifted(t, c, i.left /\ Bit(t ^^ Shl(t, 1), 2 * ByteBits)), TRUE))
EMIT_LSL_mem(s, i) ==
  LET v == MemWord(s, i)
  IN  ShiftMem(s, i, Shifted(IF i.left THEN Shl(v, 1) ELSE Shr(v, 1),
                             Bit(v, IF i.left THEN 2 * ByteBits - 1 ELSE 0), FALSE), TRUE)
EMIT_ROXL_mem(s, i) ==
  LET v == MemWord(s, i)
      x == Bool(s.cc["X"])
      t == IF i.left THEN Ror(Bfi(v, x, LongBits - 1, 1), LongBits - 1)
                     ELSE Ror(Bfi(v, x, 2 * ByteBits, 1), 1)
  IN  ShiftMem(s, i, Shifted(t, Bit(t, IF i.left THEN 2 * ByteBits ELSE LongBits - 1), FALSE), TRUE)
EMIT_ROL_mem(s, i) ==
  LET v == MemWord(s, i)
      t == Ror(Bfi(v, v, 2 * ByteBits, 2 * ByteBits), IF i.left THEN LongBits - 1 ELSE 1)
  IN  ShiftMem(s, i, Shifted(t, Bit(t, IF i.left THEN 2 * ByteBits ELSE LongBits - 1), FALSE), FALSE)
=============================================================================
