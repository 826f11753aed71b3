-------------------------------- MODULE A64 --------------------------------
(***************************************************************************)
(* The host instructions the 68k translator emits, by what they compute,   *)
(* and the helpers of src/hosted/jit68k/emu68/A64.h and M68k_CC.c that move *)
(* condition codes between the two processors.                             *)
(*                                                                         *)
(* Widths are scaled so that the whole range of operands can be tried: a   *)
(* byte has ByteBits bits, a word two bytes, a long four; a host W register *)
(* is a long and an X register two.  Shift counts, sign bits and masks of  *)
(* the code scale with it (24 is LongBits - ByteBits, 63 is 2 * LongBits - 1). *)
(***************************************************************************)
EXTENDS Integers, Sequences, FiniteSets, Bitwise

CONSTANT ByteBits       \* bits in a byte; 8 in the code
ASSUME A64Assumption == ByteBits \in Nat \ {0, 1}

LongBits == 4 * ByteBits
Bits(sz) == sz * ByteBits           \* sz: 1, 2 or 4 bytes

Trunc(v, w) == v % 2^w
Msb(v, w) == (v \div 2^(w - 1)) % 2 = 1
Bit(v, i) == (v \div 2^i) % 2 = 1
Bool(b) == IF b THEN 1 ELSE 0
Signed(v, w) == LET u == Trunc(v, w) IN IF Msb(u, w) THEN u - 2^w ELSE u
\* sxtb, sxth, sbfx: the low w bits as a signed long.
Sext(v, w) == Trunc(Signed(v, w), LongBits)
Shl(v, n) == Trunc(v * 2^n, LongBits)
Shr(v, n) == v \div 2^n
Asr(v, n) == Trunc(Signed(v, LongBits) \div 2^n, LongBits)
Ror(v, n) == LET k == n % LongBits IN Shr(v, k) + Shl(v, LongBits - k)
\* The same in an X register; a count in a register is taken modulo its width.
XBits == 2 * LongBits
Lsl64(v, n) == LET k == n % XBits IN (v % 2^(XBits - k)) * 2^k
Ror64(v, n) == LET k == n % XBits IN v \div 2^k + (v % 2^k) * 2^(XBits - k)
Sext64(v, w) == Trunc(Signed(v, w), XBits)
Asr64(v, n) == Trunc(Signed(v, XBits) \div 2^(n % XBits), XBits)
Mvn(v) == 2^LongBits - 1 - v
\* bfi: the low w bits of v replace the w bits of d from lsb on.
Bfi(d, v, lsb, w) ==
  LET m == Trunc(d, lsb + w) - Trunc(d, lsb) IN d - m + Trunc(v, w) * 2^lsb
\* bfxil: w bits of v from lsb on replace the low bits of d.
Bfxil(d, v, lsb, w) == Bfi(d, v \div 2^lsb, 0, w)

\* The host's flags.  C of a subtraction means "no borrow".
HostFlags(r, w, c, v) == [r |-> r, n |-> Msb(r, w), z |-> r = 0, c |-> c, v |-> v]
AdcsW(a, b, cin, w) ==
  LET t == a + b + cin
      r == Trunc(t, w)
  IN  HostFlags(r, w, t >= 2^w, Msb(a, w) = Msb(b, w) /\ Msb(r, w) # Msb(a, w))
Adcs(a, b, cin) == AdcsW(a, b, cin, LongBits)
Adds(a, b) == Adcs(a, b, 0)                         \* adds, cmn
SbcsW(a, b, cin, w) == AdcsW(a, 2^w - 1 - b, cin, w)
Subs(a, b) == SbcsW(a, b, 1, LongBits)              \* subs, cmp, negs
Ands(r) == HostFlags(r, LongBits, FALSE, FALSE)     \* ands, tst
Cmn0(r) == Adds(r, 0)                               \* cmn r, wzr

\* Condition fields of the host.
Holds(h, cond) ==
  CASE cond = "EQ" -> h.z      [] cond = "NE" -> ~h.z
    [] cond = "CS" -> h.c      [] cond = "CC" -> ~h.c
    [] cond = "MI" -> h.n      [] cond = "PL" -> ~h.n
    [] cond = "VS" -> h.v      [] cond = "VC" -> ~h.v
    [] cond = "HI" -> h.c /\ ~h.z [] cond = "LS" -> ~h.c \/ h.z
    [] cond = "GE" -> h.n = h.v   [] cond = "LT" -> h.n # h.v
    [] cond = "GT" -> ~h.z /\ h.n = h.v [] cond = "LE" -> h.z \/ h.n # h.v

-----------------------------------------------------------------------------
(* The 68k condition codes, held in one host register.                     *)
CCFlags == {"X", "N", "Z", "V", "C"}
NZVC == CCFlags \ {"X"}

\* EMIT_SetFlags and EMIT_ClearFlags.
SetFlags(cc, fs) == [f \in CCFlags |-> f \in fs \/ cc[f]]
ClearFlags(cc, fs) == [f \in CCFlags |-> f \notin fs /\ cc[f]]
\* Clear, then EMIT_SetFlagsConditional.
SetFlagsConditional(cc, fs, b) == [f \in CCFlags |-> IF f \in fs THEN b ELSE cc[f]]

Put(cc, new, fs) == [f \in CCFlags |-> IF f \in fs THEN new[f] ELSE cc[f]]
FromHost(h, carry) ==
  [X |-> carry, N |-> h.n, Z |-> h.z, V |-> h.v, C |-> carry]
\* Two or more flags wanted: the whole nibble is copied.
Nibble(mask) == IF Cardinality(mask \cap CCFlags) > 1 THEN NZVC ELSE mask \cap NZVC

\* N and Z from the host, V and C cleared.
GetNZ00(cc, mask, h) ==
  Put(cc, IF mask = {"N", "Z"} THEN FromHost(h, h.c)
                               ELSE [FromHost(h, FALSE) EXCEPT !.V = FALSE], Nibble(mask))
\* N and Z from the host, V and C kept.
GetNZxx(cc, mask, h) == Put(cc, FromHost(h, FALSE), {"N", "Z"} \cap Nibble(mask))
\* An addition: C is the host's carry.
GetNZCV(cc, mask, h) == Put(cc, FromHost(h, h.c), Nibble(mask))
\* With X: three or more flags copy the nibble, X only when it is asked for.
NibbleX(mask) == IF Cardinality(mask) > 2 THEN NZVC \cup mask ELSE mask
GetNZCVX(cc, mask, h) == Put(cc, FromHost(h, h.c), NibbleX(mask))
\* A subtraction: C and X are the borrow, the complement of the host's carry.
GetNZnCV(cc, mask, h) ==
  Put(cc, FromHost(h, IF "C" \in mask THEN ~h.c ELSE h.c), Nibble(mask))
GetNZnCVX(cc, mask, h) == Put(cc, FromHost(h, ~h.c), NibbleX(mask))

\* EMIT_TestCondition and EMIT_JumpOnCondition: the sixteen conditions of the
\* 68k, tested on the condition code register.
TestCondition(cc, cond) ==
  CASE cond = "T" -> TRUE      [] cond = "F" -> FALSE
    [] cond = "HI" -> ~cc["C"] /\ ~cc["Z"] [] cond = "LS" -> cc["C"] \/ cc["Z"]
    [] cond = "CC" -> ~cc["C"] [] cond = "CS" -> cc["C"]
    [] cond = "NE" -> ~cc["Z"] [] cond = "EQ" -> cc["Z"]
    [] cond = "VC" -> ~cc["V"] [] cond = "VS" -> cc["V"]
    [] cond = "PL" -> ~cc["N"] [] cond = "MI" -> cc["N"]
    [] cond = "GE" -> cc["N"] = cc["V"] [] cond = "LT" -> cc["N"] # cc["V"]
    [] cond = "GT" -> ~cc["Z"] /\ cc["N"] = cc["V"]
    [] cond = "LE" -> cc["Z"] \/ cc["N"] # cc["V"]
=============================================================================
