------------------------------- MODULE M68kFpu -------------------------------
(***************************************************************************)
(* Floating point in translated blocks                                     *)
(* (src/hosted/jit68k/emu68/M68k_LINEF.c, the FP registers of j5c_ra.c and *)
(* the FP part of the dispatcher in j5d_engine.c) against the interpreter  *)
(* of j5d_interp.c.                                                        *)
(*                                                                         *)
(* A block computes in host registers: the prologue loads the FP registers *)
(* the block reads, the epilogue stores the ones it writes, and the        *)
(* condition codes are only computed when a later instruction may look.    *)
(* The exception bytes come afterwards, from a second walk over the block. *)
(*                                                                         *)
(* Numbers are integers with infinities and NaN; a quotient is truncated   *)
(* and inexact when it is not whole; single precision keeps even numbers; *)
(* the library functions are told apart and nothing else is said of them.  *)
(* Memory is one number per cell.                                          *)
(***************************************************************************)
EXTENDS Integers, Sequences, FiniteSets

CONSTANTS
  FpNums,       \* magnitudes tried in registers and memory
  FpAllForms    \* also the blocks the second walk does not follow
ASSUME M68kFpuAssumption == FpNums \subseteq 0 .. 100 /\ FpAllForms \in BOOLEAN

VARIABLE fpu    \* the block, what follows it, the state before, whether it ran,
                \* the translator's and the interpreter's state after
NaN == 10^6
Inf == 10^5
Finite(x) == x \notin {NaN, Inf, -Inf}
Sgn(x) == IF x < 0 THEN -1 ELSE 1
Abs(x) == IF x < 0 THEN -x ELSE x
FpRegs == {0, 1}
Cells == 0 .. 3

-----------------------------------------------------------------------------
(* One operation: its value and the exceptions it raises.                  *)
Q(v, e) == [v |-> v, e |-> e]
Fadd(a, b) ==
  IF NaN \in {a, b} THEN Q(NaN, {})
  ELSE IF {a, b} = {Inf, -Inf} THEN Q(NaN, {"OPERR"})
  ELSE IF Finite(a) /\ Finite(b) THEN Q(a + b, {})
  ELSE Q(IF Finite(a) THEN b ELSE a, {})
Fneg(a) == IF a = NaN THEN NaN ELSE -a
Fmul(a, b) ==
  IF NaN \in {a, b} THEN Q(NaN, {})
  ELSE IF Finite(a) /\ Finite(b) THEN Q(a * b, {})
  ELSE IF 0 \in {a, b} THEN Q(NaN, {"OPERR"})
  ELSE Q(Sgn(a) * Sgn(b) * Inf, {})
Fdiv(a, b) ==
  IF NaN \in {a, b} THEN Q(NaN, {})
  ELSE IF (a = 0 /\ b = 0) \/ (~Finite(a) /\ ~Finite(b)) THEN Q(NaN, {"OPERR"})
  ELSE IF b = 0 THEN Q(Sgn(a) * Inf, IF Finite(a) THEN {"DZ"} ELSE {})
  ELSE IF ~Finite(a) THEN Q(Sgn(a) * Sgn(b) * Inf, {})
  ELSE IF ~Finite(b) THEN Q(0, {})
  ELSE Q(Sgn(a) * Sgn(b) * (Abs(a) \div Abs(b)), IF a % Abs(b) = 0 THEN {} ELSE {"INEX2"})
Fsqrt(a) ==
  CASE a \in {NaN, Inf} -> Q(a, {})
    [] a < 0 -> Q(NaN, {"OPERR"})
    [] OTHER -> LET r == CHOOSE k \in 0 .. a : k * k <= a /\ (k + 1) * (k + 1) > a
                IN  Q(r, IF r * r = a THEN {} ELSE {"INEX2"})
\* Remainders: dst - src * n.
Fmod(a, b) == IF Finite(a) /\ Finite(b) /\ b # 0 THEN Q(a - b * Fdiv(a, b).v, {}) ELSE Q(NaN, {"OPERR"})
Fscale(a, n) == IF Finite(a) /\ n \in 0 .. 8 THEN Q(a * 2^n, {}) ELSE Q(a, {})
\* j5s_round_prec and fcvtsd/fcvtds.
Single(v) == IF Finite(v) THEN Sgn(v) * (2 * ((Abs(v) + 1) \div 2)) ELSE v
Libm == <<"FSIN", "FCOS", "FTAN", "FASIN", "FACOS", "FATAN", "FSINH", "FCOSH", "FTANH", "FATANH",
          "FETOX", "FETOXM1", "FTWOTOX", "FTENTOX", "FLOGN", "FLOGNP1", "FLOG10", "FLOG2",
          "FGETEXP", "FGETMAN">>
LibmOps == {Libm[k] : k \in DOMAIN Libm}
Call(op, x) == LET k == CHOOSE j \in DOMAIN Libm : Libm[j] = op
               IN  IF x = NaN THEN NaN ELSE IF Finite(x) THEN 3 * x + k ELSE k
Monadic == LibmOps \cup {"FMOVE", "FABS", "FNEG", "FSQRT", "FINT", "FINTRZ"}
Dyadic == {"FADD", "FSUB", "FMUL", "FDIV", "FSGLDIV", "FSGLMUL", "FMOD", "FREM", "FSCALE"}
Evaluate(op, dst, src) ==
  CASE op = "FABS" -> Q(IF src = NaN THEN NaN ELSE Abs(src), {})
    [] op = "FNEG" -> Q(Fneg(src), {})
    [] op \in {"FMOVE", "FINT", "FINTRZ"} -> Q(src, {})
    [] op = "FSQRT" -> Fsqrt(src)
    [] op = "FADD" -> Fadd(dst, src)
    [] op = "FSUB" -> Fadd(dst, Fneg(src))
    [] op = "FMUL" -> Fmul(dst, src)
    [] op = "FDIV" -> Fdiv(dst, src)
    [] op = "FSGLMUL" -> [Fmul(dst, src) EXCEPT !.v = Single(@)]
    [] op = "FSGLDIV" -> [Fdiv(dst, src) EXCEPT !.v = Single(@)]
    [] op \in {"FMOD", "FREM"} -> Fmod(dst, src)
    [] op = "FSCALE" -> Fscale(dst, src)
    [] op \in LibmOps -> Q(Call(op, src), {})
\* fcmpd, fcmpzd and EMIT_GetFPUFlags; fpu_fcmp_fpsr.
Compare2(a, b) ==
  IF NaN \in {a, b} THEN {"NAN"} ELSE IF a < b THEN {"N"} ELSE IF a = b THEN {"Z"} ELSE {}
\* j5s_exc_to_aexc.
Accrued(e) ==
  {x \in {"AIOP", "ADZ", "AINEX"} :
     \/ x = "AIOP" /\ "OPERR" \in e
     \/ x = "ADZ" /\ "DZ" \in e
     \/ x = "AINEX" /\ "INEX2" \in e}

-----------------------------------------------------------------------------
(* Instructions.  "k" names the source: an FP register, D0, the cell A0     *)
(* points at, or the same with (A0)+ or -(A0); "look" is an extension word  *)
(* that reads like an FP opcode.                                            *)
Fi(op, dst, k, r) ==
  [op |-> op, dst |-> dst, k |-> k, r |-> r, cos |-> dst, look |-> FALSE, pred |-> 0, mask |-> {}]
InMemory == {"ind", "post", "pre"}
Cell(s, i) == IF i.k = "pre" THEN s.a - 1 ELSE s.a
Stepped(s, i) ==
  CASE i.k = "post" -> [s EXCEPT !.a = @ + 1] [] i.k = "pre" -> [s EXCEPT !.a = @ - 1] [] OTHER -> s
\* FPU_FetchData.
FPU_FetchData(s, i) ==
  [s |-> Stepped(s, i),
   v |-> CASE i.k = "fp" -> s.fp[i.r] [] i.k = "dn" -> s.d [] OTHER -> s.mem[Cell(s, i)]]
\* FPU_StoreData: to a data register as a byte that saturates, or to a cell.
Saturate(v) == IF v = NaN THEN 0 ELSE IF v > 127 THEN 127 ELSE IF v < -128 THEN -128 ELSE v
FPU_StoreData(s, i) ==
  IF i.k = "dn" THEN [s EXCEPT !.d = Saturate(s.fp[i.dst])]
  ELSE [Stepped(s, i) EXCEPT !.mem[Cell(s, i)] = s.fp[i.dst]]

\* What looks at the condition codes, and what ends the search for it.
Consumers == {"FBcc", "FScc", "FMOVEM", "TOMEM"}
\* FPSR_Update_Needed: the first word after the instruction that reads like an
\* FP opcode decides; a branch means yes.
Skipped(i) == (i.op = "INT" /\ ~i.look) \/ i.op = "FNOP"
FPSR_Update_Needed(p, at) ==
  LET from[k \in 1 .. Len(p) + 1] ==
        IF k > Len(p) THEN TRUE
        ELSE IF Skipped(p[k]) THEN from[k + 1]
        ELSE p[k].op \in Consumers \cup {"Bcc"}
  IN  from[at + 1]

-----------------------------------------------------------------------------
(* Translated code.  "h" is the state with the host's registers in place   *)
(* of fp; "need" is what FPSR_Update_Needed answered.                       *)
Result(h, i, v, need) ==
  [h EXCEPT !.fp[i.dst] = v, !.cc = IF need THEN Compare2(v, 0) ELSE @]
OneSource(h, i, op, need) ==
  LET f == FPU_FetchData(h, i) IN Result(f.s, i, Evaluate(op, 0, f.v).v, need)
TwoSources(h, i, op, need) ==
  LET f == FPU_FetchData(h, i) IN Result(f.s, i, Evaluate(op, f.s.fp[i.dst], f.v).v, need)
EMIT_FMOVE(h, i, need) == OneSource(h, i, "FMOVE", need)
EMIT_FABS(h, i, need) == OneSource(h, i, "FABS", need)
EMIT_FNEG(h, i, need) == OneSource(h, i, "FNEG", need)
EMIT_FSQRT(h, i, need) == OneSource(h, i, "FSQRT", need)
EMIT_FINT(h, i, need) == OneSource(h, i, "FINT", need)
EMIT_FINTRZ(h, i, need) == OneSource(h, i, "FINTRZ", need)
EMIT_FGETEXP(h, i, need) == OneSource(h, i, "FGETEXP", need)
EMIT_FGETMAN(h, i, need) == OneSource(h, i, "FGETMAN", need)
EMIT_FADD(h, i, need) == TwoSources(h, i, "FADD", need)
EMIT_FSUB(h, i, need) == TwoSources(h, i, "FSUB", need)
EMIT_FMUL(h, i, need) == TwoSources(h, i, "FMUL", need)
EMIT_FDIV(h, i, need) == TwoSources(h, i, "FDIV", need)
EMIT_FSGLMUL(h, i, need) == TwoSources(h, i, "FSGLMUL", need)
EMIT_FSGLDIV(h, i, need) == TwoSources(h, i, "FSGLDIV", need)
EMIT_FMOD(h, i, need) == TwoSources(h, i, "FMOD", need)
EMIT_FREM(h, i, need) == TwoSources(h, i, "FREM", need)
\* The scale is loaded as an integer operand when the source field says 0, 4
\* or 6, which for a register source is its number: FP0 reads D0.
EMIT_FSCALE(h, i, need) ==
  LET f == FPU_FetchData(h, i)
      n == IF i.k = "fp" /\ i.r = 0 THEN h.d ELSE f.v
  IN  Result(f.s, i, Fscale(f.s.fp[i.dst], n).v, need)
EMIT_FCMP(h, i, need) ==
  LET f == FPU_FetchData(h, i)
  IN  [f.s EXCEPT !.cc = IF need THEN Compare2(f.s.fp[i.dst], f.v) ELSE @]
EMIT_FTST(h, i, need) ==
  LET f == FPU_FetchData(h, i) IN [f.s EXCEPT !.cc = IF need THEN Compare2(f.v, 0) ELSE @]
EMIT_FMOVECR(h, i, need) == Result(h, i, 1, need)
\* The cosine is copied first: with one register for both the sine stays.
EMIT_FSINCOS(h, i, need) ==
  LET f == FPU_FetchData(h, i)
  IN  Result([f.s EXCEPT !.fp[i.cos] = Call("FCOS", f.v)], i, Call("FSIN", f.v), need)
\* The library functions, called with the live registers saved.
ViaLibm(h, i, op, need) == OneSource(h, i, op, need)
EMIT_FSIN(h, i, need) == ViaLibm(h, i, "FSIN", need)
EMIT_FCOS(h, i, need) == ViaLibm(h, i, "FCOS", need)
EMIT_FTAN(h, i, need) == ViaLibm(h, i, "FTAN", need)
EMIT_FASIN(h, i, need) == ViaLibm(h, i, "FASIN", need)
EMIT_FACOS(h, i, need) == ViaLibm(h, i, "FACOS", need)
EMIT_FATAN(h, i, need) == ViaLibm(h, i, "FATAN", need)
EMIT_FSINH(h, i, need) == ViaLibm(h, i, "FSINH", need)
EMIT_FCOSH(h, i, need) == ViaLibm(h, i, "FCOSH", need)
EMIT_FTANH(h, i, need) == ViaLibm(h, i, "FTANH", need)
EMIT_FATANH(h, i, need) == ViaLibm(h, i, "FATANH", need)
EMIT_FETOX(h, i, need) == ViaLibm(h, i, "FETOX", need)
EMIT_FETOXM1(h, i, need) == ViaLibm(h, i, "FETOXM1", need)
EMIT_FTWOTOX(h, i, need) == ViaLibm(h, i, "FTWOTOX", need)
EMIT_FTENTOX(h, i, need) == ViaLibm(h, i, "FTENTOX", need)
EMIT_FLOGN(h, i, need) == ViaLibm(h, i, "FLOGN", need)
EMIT_FLOGNP1(h, i, need) == ViaLibm(h, i, "FLOGNP1", need)
EMIT_FLOG10(h, i, need) == ViaLibm(h, i, "FLOG10", need)
EMIT_FLOG2(h, i, need) == ViaLibm(h, i, "FLOG2", need)
\* An integer instruction between: it may change what a later source names.
Integer(s, i) == CASE i.k = "dn" -> [s EXCEPT !.d = 0] [] i.k = "an" -> [s EXCEPT !.a = @ + 1] [] OTHER -> s
EMIT_FPU(h, i, need) ==
  CASE i.op = "FMOVE" -> EMIT_FMOVE(h, i, need) [] i.op = "FABS" -> EMIT_FABS(h, i, need)
    [] i.op = "FNEG" -> EMIT_FNEG(h, i, need) [] i.op = "FSQRT" -> EMIT_FSQRT(h, i, need)
    [] i.op = "FINT" -> EMIT_FINT(h, i, need) [] i.op = "FINTRZ" -> EMIT_FINTRZ(h, i, need)
    [] i.op = "FGETEXP" -> EMIT_FGETEXP(h, i, need) [] i.op = "FGETMAN" -> EMIT_FGETMAN(h, i, need)
    [] i.op = "FADD" -> EMIT_FADD(h, i, need) [] i.op = "FSUB" -> EMIT_FSUB(h, i, need)
    [] i.op = "FMUL" -> EMIT_FMUL(h, i, need) [] i.op = "FDIV" -> EMIT_FDIV(h, i, need)
    [] i.op = "FSGLMUL" -> EMIT_FSGLMUL(h, i, need) [] i.op = "FSGLDIV" -> EMIT_FSGLDIV(h, i, need)
    [] i.op = "FMOD" -> EMIT_FMOD(h, i, need) [] i.op = "FREM" -> EMIT_FREM(h, i, need)
    [] i.op = "FSCALE" -> EMIT_FSCALE(h, i, need) [] i.op = "FCMP" -> EMIT_FCMP(h, i, need)
    [] i.op = "FTST" -> EMIT_FTST(h, i, need) [] i.op = "FMOVECR" -> EMIT_FMOVECR(h, i, need)
    [] i.op = "FSINCOS" -> EMIT_FSINCOS(h, i, need)
    [] i.op = "FSIN" -> EMIT_FSIN(h, i, need) [] i.op = "FCOS" -> EMIT_FCOS(h, i, need)
    [] i.op = "FTAN" -> EMIT_FTAN(h, i, need) [] i.op = "FASIN" -> EMIT_FASIN(h, i, need)
    [] i.op = "FACOS" -> EMIT_FACOS(h, i, need) [] i.op = "FATAN" -> EMIT_FATAN(h, i, need)
    [] i.op = "FSINH" -> EMIT_FSINH(h, i, need) [] i.op = "FCOSH" -> EMIT_FCOSH(h, i, need)
    [] i.op = "FTANH" -> EMIT_FTANH(h, i, need) [] i.op = "FATANH" -> EMIT_FATANH(h, i, need)
    [] i.op = "FETOX" -> EMIT_FETOX(h, i, need) [] i.op = "FETOXM1" -> EMIT_FETOXM1(h, i, need)
    [] i.op = "FTWOTOX" -> EMIT_FTWOTOX(h, i, need) [] i.op = "FTENTOX" -> EMIT_FTENTOX(h, i, need)
    [] i.op = "FLOGN" -> EMIT_FLOGN(h, i, need) [] i.op = "FLOGNP1" -> EMIT_FLOGNP1(h, i, need)
    [] i.op = "FLOG10" -> EMIT_FLOG10(h, i, need) [] i.op = "FLOG2" -> EMIT_FLOG2(h, i, need)
    [] i.op = "TOMEM" -> FPU_StoreData(h, i)
    [] i.op = "INT" -> Integer(h, i)
    [] OTHER -> h

\* The registers an emitter maps for reading (RA_MapFPURegister) and the ones
\* it maps for writing or marks dirty.  FMOD, FREM and FSCALE map the
\* destination they read for writing only.
\* FCMP does not map its destination.
MutMapsForRead(i) ==
  (IF i.k = "fp" /\ i.op \notin {"TOMEM", "FMOVECR"} THEN {i.r} ELSE {})
  \cup (IF i.op \in {"FADD", "FSUB", "FMUL", "FDIV", "FSGLDIV", "FSGLMUL", "TOMEM"} THEN {i.dst} ELSE {})
MapsForRead(i) ==
  (IF i.k = "fp" /\ i.op \notin {"TOMEM", "FMOVECR"} THEN {i.r} ELSE {})
  \cup (IF i.op \in {"FADD", "FSUB", "FMUL", "FDIV", "FSGLDIV", "FSGLMUL", "FCMP", "TOMEM"} THEN {i.dst} ELSE {})
MapsForWrite(i) ==
  IF i.op \in Monadic \cup Dyadic \cup {"FMOVECR"} THEN {i.dst}
  ELSE IF i.op = "FSINCOS" THEN {i.dst, i.cos} ELSE {}
Junk == 77      \* what a host register holds that the prologue did not load
\* The prologue loads the registers that are read before they are written.
Live(p) == {n \in FpRegs : \E k \in DOMAIN p : /\ n \in MapsForRead(p[k])
                                              /\ \A j \in 1 .. k - 1 : n \notin MapsForWrite(p[j])}
DirtyRegs(p) == UNION {MapsForWrite(p[k]) : k \in DOMAIN p}
FpLoaded(s, p) == [s EXCEPT !.fp = [n \in FpRegs |-> IF n \in Live(p) THEN s.fp[n] ELSE Junk]]
\* The epilogue stores the ones that are written, rounded.
FpStored(s, h, p) ==
  [h EXCEPT !.fp = [n \in FpRegs |-> CASE n \notin DirtyRegs(p) -> s.fp[n]
                                       [] n \in DirtyRegs(p) /\ s.single -> Single(@[n])
                                       [] OTHER -> @[n]]]
\* The translated block: prologue, body, epilogue.  "after" is what follows it.
Native(s, p, after) ==
  LET run[k \in 0 .. Len(p)] ==
        IF k = 0 THEN FpLoaded(s, p)
        ELSE EMIT_FPU(run[k - 1], p[k], FPSR_Update_Needed(p \o after, k))
  IN  FpStored(s, run[Len(p)], p)

-----------------------------------------------------------------------------
(* The dispatcher's second walk, for the exception bytes.                   *)
\* j5s_one_op_exc: what it does not know writes nothing and raises nothing.
Unknown == {"FSINCOS", "FSGLDIV", "FSGLMUL", "FMOVECR"}
\* The operation's result is not carried to the next one.
Mutj5s_one_op_exc(fp, i, src, single) ==
  IF i.op \in Unknown \cup {"FCMP", "FTST"} THEN [fp |-> fp, e |-> {}]
  ELSE [fp |-> fp, e |-> IF i.op = "FMOVE" THEN {} ELSE Evaluate(i.op, fp[i.dst], src).e]
j5s_one_op_exc(fp, i, src, single) ==
  IF i.op \in Unknown \cup {"FCMP", "FTST"} THEN [fp |-> fp, e |-> {}]
  ELSE LET o == Evaluate(i.op, fp[i.dst], src)
       IN  [fp |-> [fp EXCEPT ![i.dst] = IF single THEN Single(o.v) ELSE o.v],
            e |-> IF i.op = "FMOVE" THEN {} ELSE o.e]
\* j5s_fp_exc_walk: FP registers from before the block, everything else from
\* after it; (A0)+ is read at A0 and -(A0) below it.
j5s_fp_exc_walk(before, after, p) ==
  LET src(fp, i) == CASE i.k = "fp" -> fp[i.r] [] i.k = "dn" -> after.d
                      [] i.k = "pre" -> (IF after.a - 1 \in Cells THEN after.mem[after.a - 1] ELSE 0)
                      [] OTHER -> (IF after.a \in Cells THEN after.mem[after.a] ELSE 0)
      walk[k \in 0 .. Len(p)] ==
        IF k = 0 THEN [fp |-> before, exc |-> {}, aexc |-> {}]
        ELSE LET w == walk[k - 1]
                 o == j5s_one_op_exc(w.fp, p[k], src(w.fp, p[k]), after.single)
             IN  IF p[k].op \in {"INT", "TOMEM", "FNOP"} THEN w
                 ELSE [fp |-> o.fp, exc |-> o.e, aexc |-> w.aexc \cup Accrued(o.e)]
  IN  walk[Len(p)]
\* j5s_fp_exc_apply: the bytes are merged; an enabled exception traps with the
\* end of the block as its return address.
j5s_fp_exc_apply(s, w, end) ==
  [s EXCEPT !.exc = w.exc, !.aexc = @ \cup w.aexc,
            !.trap = IF w.exc \cap s.enabled # {} THEN end ELSE 0]
\* j5d_fp_imm_arith: an operation with an immediate is the dispatcher's own.
j5d_fp_imm_arith(s, i, need) ==
  LET o == j5s_one_op_exc(s.fp, i, 2, s.single)
  IN  [s EXCEPT !.fp = o.fp, !.exc = o.e, !.aexc = @ \cup Accrued(o.e),
                !.cc = IF need THEN Compare2(o.fp[i.dst], 0) ELSE @]
\* A block, and the instruction after it if that is an immediate operation.
SecondWalk(s, n, p) == j5s_fp_exc_apply(n, j5s_fp_exc_walk(s.fp, n, p), Len(p))
ThenImmediate(t, after) ==
  IF t.trap = 0 /\ after[1].op = "FADD"
  THEN j5d_fp_imm_arith(t, after[1], FPSR_Update_Needed(after, 1)) ELSE t
Translated(s, p, after) == ThenImmediate(SecondWalk(s, Native(s, p, after), p), after)

-----------------------------------------------------------------------------
(* The interpreter, one instruction after the other; a trap is taken at     *)
(* once.  It decodes neither FMOVECR nor the FSGL operations, and skips the  *)
(* same condition code updates: here the processor's manual speaks.        *)
Interpret(s, i) ==
  LET f == FPU_FetchData(s, i)
      round(v) == IF s.single THEN Single(v) ELSE v
      o == Evaluate(i.op, f.s.fp[i.dst], f.v)
      excepted(t, x) == [t EXCEPT !.exc = x, !.aexc = @ \cup Accrued(x)]
      sine == round(Call("FSIN", f.v))
  IN  CASE i.op \in Monadic \cup Dyadic ->
             excepted([f.s EXCEPT !.fp[i.dst] = round(o.v), !.cc = Compare2(round(o.v), 0)],
                      IF i.op = "FMOVE" THEN {} ELSE o.e)
        [] i.op = "FSINCOS" ->
             excepted([f.s EXCEPT !.fp = [@ EXCEPT ![i.dst] = sine, ![i.cos] = round(Call("FCOS", f.v))],
                                  !.cc = Compare2(sine, 0)], {})
        [] i.op = "FCMP" -> excepted([f.s EXCEPT !.cc = Compare2(f.s.fp[i.dst], f.v)], {})
        [] i.op = "FTST" -> excepted([f.s EXCEPT !.cc = Compare2(f.v, 0)], {})
        [] i.op = "FMOVECR" -> excepted([s EXCEPT !.fp[i.dst] = round(1), !.cc = Compare2(1, 0)], {})
        [] i.op = "TOMEM" -> FPU_StoreData(s, i)
        [] i.op = "INT" -> Integer(s, i)
        [] OTHER -> s
Trapping(t, i, k) ==
  IF i.op \notin {"INT", "TOMEM"} /\ t.exc \cap t.enabled # {} THEN [t EXCEPT !.trap = k] ELSE t
Immediate(s, i) ==
  LET o == Evaluate("FADD", s.fp[i.dst], 2)
      v == IF s.single THEN Single(o.v) ELSE o.v
  IN  IF s.trap # 0 \/ i.op # "FADD" THEN s
      ELSE [s EXCEPT !.fp[i.dst] = v, !.cc = Compare2(v, 0), !.exc = o.e, !.aexc = @ \cup Accrued(o.e)]
Interpreter(s, p, after) ==
  LET run[k \in 0 .. Len(p)] ==
        IF k = 0 THEN s
        ELSE IF run[k - 1].trap # 0 THEN run[k - 1]
        ELSE Trapping(Interpret(run[k - 1], p[k]), p[k], k)
  IN  Immediate(run[Len(p)], after[1])

-----------------------------------------------------------------------------
(* FP instructions the dispatcher executes itself, at a block's end: the     *)
(* conditionals, and the moves of register lists.  "pred" is the predicate's *)
(* number, "mask" the bits of the list; a failed run has the trap RunFails.  *)
RunFails == -1
FpControls == 1 .. 3        \* FPCR, FPSR, FPIAR
LastFp == Cardinality(FpRegs) - 1
j5q_fp_cond_taken(pred, cc) ==
  LET n == "N" \in cc
      z == "Z" \in cc
      un == "NAN" \in cc
      p == pred % 16
  IN  CASE p = 0 -> FALSE
        [] p = 1 -> z
        [] p = 2 -> ~un /\ ~z /\ ~n
        [] p = 3 -> z \/ (~n /\ ~un)
        [] p = 4 -> n /\ ~un /\ ~z
        [] p = 5 -> z \/ (n /\ ~un)
        [] p = 6 -> ~un /\ ~z
        [] p = 7 -> ~un
        [] p = 8 -> un
        [] p = 9 -> z \/ un
        [] p = 10 -> un \/ (~n /\ ~z)
        [] p = 11 -> un \/ z \/ ~n
        [] p = 12 -> un \/ (n /\ ~z)
        [] p = 13 -> un \/ z \/ n
        [] p = 14 -> ~z
        [] OTHER -> TRUE
\* A signalling predicate on an unordered result: BSUN, and a trap when enabled.
j5s_engine_bsun(s, pred) ==
  IF (pred \div 16) % 2 = 0 \/ "NAN" \notin s.cc THEN s
  ELSE [s EXCEPT !.exc = @ \cup {"BSUN"}, !.aexc = @ \cup {"AIOP"},
                 !.trap = IF "BSUN" \in s.enabled THEN 48 ELSE 0]
\* The count is the low word of the register.
Counts(s) ==
  LET n == (s.d - 1) % 2^16 IN [s EXCEPT !.d = n, !.pc = IF n = 2^16 - 1 THEN "next" ELSE "to"]
SetByte(s, i, v) ==
  CASE i.k = "dn" -> [s EXCEPT !.d = @ - (@ % 256) + v]
    [] i.k # "dn" /\ s.a \in Cells -> [s EXCEPT !.mem[s.a] = v]
    [] OTHER -> [s EXCEPT !.trap = RunFails]
FDBcc(s, i) == IF j5q_fp_cond_taken(i.pred, s.cc) THEN s ELSE Counts(s)
FTRAPcc(s, i) == [s EXCEPT !.trap = IF j5q_fp_cond_taken(i.pred, s.cc) THEN 7 ELSE 0]
FScc(s, i) == SetByte(s, i, IF j5q_fp_cond_taken(i.pred, s.cc) THEN 255 ELSE 0)
FBcc(s, i) == [s EXCEPT !.pc = IF j5q_fp_cond_taken(i.pred, s.cc) THEN "to" ELSE "next"]

\* The first of count slots; -(An) is lowered by all of them.
fmovem_resolve_ea(s, i, count) == IF i.k = "pre" THEN s.a - count ELSE s.a
Committed(s, i, count) ==
  CASE i.k = "pre" -> [s EXCEPT !.a = @ - count] [] i.k = "post" -> [s EXCEPT !.a = @ + count] [] OTHER -> s
\* The lowest register of the list at the lowest address.
Slots(s, i, sel) ==
  [n \in sel |-> fmovem_resolve_ea(s, i, Cardinality(sel)) + Cardinality({m \in sel : m < n})]
Stored(mem, at, file) ==
  [c \in Cells |-> IF \E n \in DOMAIN at : at[n] = c THEN file[CHOOSE n \in DOMAIN at : at[n] = c] ELSE mem[c]]
Loaded(mem, at, file) == [n \in DOMAIN file |-> IF n \in DOMAIN at THEN mem[at[n]] ELSE file[n]]
\* Bit k of the list is FPk for -(An), and FP7-k for every other mode.
j5d_fmovem_x(s, i) ==
  LET sel == {n \in FpRegs : (IF i.k = "pre" THEN n ELSE LastFp - n) \in i.mask}
      at == Slots(s, i, sel)
      t == Committed(s, i, Cardinality(sel))
  IN  IF \E n \in sel : at[n] \notin Cells THEN [s EXCEPT !.trap = RunFails]
      ELSE IF i.op = "FMOVEM_out" THEN [t EXCEPT !.mem = Stored(@, at, s.fp)]
      ELSE [t EXCEPT !.fp = Loaded(s.mem, at, @)]
\* The one register selected.
Only(sel) == CHOOSE n \in sel : TRUE
\* A control register from or to D0, from an immediate, or a list in memory.
j5d_fmove_sysreg(s, i) ==
  LET sel == i.mask
      one == Only(sel)
      at == Slots(s, i, sel)
      t == Committed(s, i, Cardinality(sel))
  IN  CASE i.k \in {"dn", "imm"} /\ Cardinality(sel) # 1 -> [s EXCEPT !.trap = RunFails]
        [] i.k = "dn" /\ Cardinality(sel) = 1 ->
             IF i.op = "FCTRL_out" THEN [s EXCEPT !.d = s.ctl[one]] ELSE [s EXCEPT !.ctl[one] = s.d]
        [] i.k = "imm" /\ Cardinality(sel) = 1 -> [s EXCEPT !.ctl[one] = i.r]
        [] i.k \notin {"dn", "imm"} /\ \E n \in sel : at[n] \notin Cells -> [s EXCEPT !.trap = RunFails]
        [] i.k \notin {"dn", "imm"} /\ (\A n \in sel : at[n] \in Cells) /\ i.op = "FCTRL_out" ->
             [t EXCEPT !.mem = Stored(@, at, s.ctl)]
        [] OTHER -> [t EXCEPT !.ctl = Loaded(s.mem, at, @)]
Conditional == {"FDBcc", "FTRAPcc", "FScc", "FBcc"}
ListMoves == {"FMOVEM_out", "FMOVEM_in", "FCTRL_out", "FCTRL_in"}
FpDispatched(s, i) ==
  LET b == j5s_engine_bsun(s, i.pred)
  IN  CASE i.op \in Conditional /\ b.trap # 0 -> b
        [] i.op = "FDBcc" /\ b.trap = 0 -> FDBcc(b, i)
        [] i.op = "FTRAPcc" /\ b.trap = 0 -> FTRAPcc(b, i)
        [] i.op = "FScc" /\ b.trap = 0 -> FScc(b, i)
        [] i.op = "FBcc" /\ b.trap = 0 -> FBcc(b, i)
        [] i.op \in {"FMOVEM_out", "FMOVEM_in"} -> j5d_fmovem_x(s, i)
        [] OTHER -> j5d_fmove_sysreg(s, i)

\* The manual: a predicate's number has a bit for each of equal, greater, less
\* and unordered, and holds when the bit of what FCMP found is set.
Relation(cc) == CASE "NAN" \in cc -> 8 [] cc = {"Z"} -> 1 [] cc = {"N"} -> 4 [] OTHER -> 2
PredicateHolds(pred, cc) == ((pred % 16) \div Relation(cc)) % 2 = 1
\* The interpreter's conditionals, with the manual's predicate.
Conditionally(s, i) ==
  LET signals == i.pred \in 16 .. 31 /\ "NAN" \in s.cc
      traps == signals /\ "BSUN" \in s.enabled
      t == IF signals THEN [s EXCEPT !.exc = @ \cup {"BSUN"}, !.aexc = @ \cup {"AIOP"}] ELSE s
      true == PredicateHolds(i.pred, s.cc)
  IN  CASE traps -> [t EXCEPT !.trap = 48]
        [] i.op = "FDBcc" /\ ~traps -> IF true THEN t ELSE Counts(t)
        [] i.op = "FTRAPcc" /\ ~traps -> IF true THEN [t EXCEPT !.trap = 7] ELSE t
        [] i.op = "FScc" /\ ~traps -> SetByte(t, i, IF true THEN 255 ELSE 0)
        [] OTHER -> [t EXCEPT !.pc = IF true THEN "to" ELSE "next"]
\* A list one register at a time: -(An) goes down from the last register, every
\* other mode up from the first.
MovedOne(v, n, i, sel, file) ==
  LET out == i.op \in {"FMOVEM_out", "FCTRL_out"}
      c == IF i.k = "pre" THEN v.at - 1 ELSE v.at
  IN  IF n \notin sel THEN v
      ELSE IF c \notin Cells THEN [v EXCEPT !.ok = FALSE]
      ELSE [at |-> IF i.k = "pre" THEN c ELSE c + 1, ok |-> v.ok,
            mem |-> IF out THEN [v.mem EXCEPT ![c] = file[n]] ELSE v.mem,
            file |-> IF out THEN v.file ELSE [v.file EXCEPT ![n] = v.mem[c]]]
OneByOne(s, i, sel, file) ==
  LET count == Cardinality(DOMAIN file)
      first == CHOOSE n \in DOMAIN file : \A m \in DOMAIN file : n <= m
      w[k \in 0 .. count] ==
        IF k = 0 THEN [at |-> s.a, mem |-> s.mem, file |-> file, ok |-> TRUE]
        ELSE MovedOne(w[k - 1], first + (IF i.k = "pre" THEN count - k ELSE k - 1), i, sel, file)
  IN  w[count]
ListMoved(s, i) ==
  LET fmovem == i.op \in {"FMOVEM_out", "FMOVEM_in"}
      file == IF fmovem THEN s.fp ELSE s.ctl
      sel == IF ~fmovem THEN i.mask
             ELSE {n \in FpRegs : (IF i.k = "pre" THEN n ELSE LastFp - n) \in i.mask}
      w == OneByOne(s, i, sel, file)
      t == [s EXCEPT !.mem = w.mem, !.a = IF i.k = "ind" THEN @ ELSE w.at]
      x == Only(sel)
  IN  CASE i.k \in {"dn", "imm"} ->
             IF Cardinality(sel) # 1 THEN [s EXCEPT !.trap = RunFails]
             ELSE IF i.op = "FCTRL_out" THEN [s EXCEPT !.d = s.ctl[x]]
             ELSE [s EXCEPT !.ctl[x] = IF i.k = "imm" THEN i.r ELSE s.d]
        [] i.k \notin {"dn", "imm"} /\ ~w.ok -> [s EXCEPT !.trap = RunFails]
        [] OTHER -> IF fmovem THEN [t EXCEPT !.fp = w.file] ELSE [t EXCEPT !.ctl = w.file]

-----------------------------------------------------------------------------
\* Blocks whose operands the second walk and the register map get right.  The
\* others: a source that moves A0 or that the block changes, an operation the
\* walk does not know, a remainder or scale whose destination the block does
\* not read, a scale by FP0, one register for sine and cosine, an exception
\* that traps before the block's end, single precision carried to a later
\* instruction, an extension word that reads like an FP opcode.
Followed(s, p, after) ==
  LET ops == {p[k].op : k \in DOMAIN p}
      sole == \A k \in DOMAIN p : p[k].op \in {"INT", "TOMEM"} \/ \A j \in DOMAIN p : j # k => p[j].op \in {"INT", "TOMEM"}
  IN  /\ \A k \in DOMAIN p :
           /\ p[k].k \notin {"post", "pre"} \/ p[k].op = "TOMEM"
           /\ ~p[k].look
           /\ p[k].op \in {"FMOD", "FREM", "FSCALE"} =>
                p[k].dst \in Live(p) \cup UNION {MapsForWrite(p[j]) : j \in 1 .. k - 1}
           /\ p[k].op = "FSCALE" => ~(p[k].k = "fp" /\ p[k].r = 0)
           /\ p[k].op = "FSINCOS" => p[k].cos # p[k].dst
           /\ p[k].op \in Unknown => sole
      /\ ops \cap Unknown # {} => Interpreter(s, p, after).aexc = {}
      /\ ops \cap {"INT", "TOMEM"} # {} =>
           \A k \in DOMAIN p : p[k].op \in {"INT", "TOMEM"} \/ p[k].k = "fp"
      /\ s.single \/ s.enabled # {} => \A k \in 1 .. Len(p) - 1 : p[k].op \in {"INT", "TOMEM"}
FpMem(v) == [c \in Cells |-> CASE c = 1 -> v [] c = 2 -> 0 [] OTHER -> 3]
Fs(a, b, m, single, enabled) ==
  [fp |-> [n \in FpRegs |-> IF n = 0 THEN a ELSE b], d |-> 2, a |-> 1, mem |-> FpMem(m), cc |-> {"NAN"},
   exc |-> {}, aexc |-> {}, single |-> single, enabled |-> enabled, trap |-> 0,
   ctl |-> [k \in FpControls |-> 10 + k], pc |-> "next"]
FpFetched(s, p, after) == [p |-> p, after |-> after, s |-> s, ran |-> FALSE, o |-> s, ref |-> s]
FpIdle == FpFetched(Fs(0, 0, 0, FALSE, {}), <<>>, <<>>)
FpInit == fpu = FpIdle
FpSources == {<<"fp", 0>>, <<"fp", 1>>, <<"dn", 0>>, <<"ind", 0>>, <<"post", 0>>, <<"pre", 0>>}
FpVals == FpNums \cup {-x : x \in FpNums} \cup {NaN, Inf}
FpBody == {Fi(op, dst, sr[1], sr[2]) :
             op \in (Monadic \ LibmOps) \cup Dyadic \cup {"FCMP", "FTST"}, dst \in FpRegs, sr \in FpSources}
          \cup {Fi(op, 0, "fp", 1) : op \in LibmOps}
          \cup {[Fi("FSINCOS", 0, "fp", 1) EXCEPT !.cos = c] : c \in FpRegs} \cup {Fi("FMOVECR", 0, "none", 0)}
FpSecond == {Fi(op, dst, "fp", 0) : op \in {"FDIV", "FADD", "FSCALE", "FTST"}, dst \in FpRegs}
            \cup {Fi("TOMEM", 1, k, 0) : k \in {"dn", "ind", "post"}} \cup {Fi("INT", 0, k, 0) : k \in {"dn", "an"}}
            \cup {[Fi("INT", 0, "none", 0) EXCEPT !.look = TRUE]}
FpAfter == {<<Fi("FBcc", 0, "none", 0)>>, <<Fi("Bcc", 0, "none", 0)>>,
            <<Fi("FADD", 1, "imm", 0), Fi("FNOP", 0, "none", 0), Fi("FBcc", 0, "none", 0)>>}
\* One block from one state.
FpRun(s, p, after) == (FpAllForms \/ Followed(s, p, after)) /\ fpu' = FpFetched(s, p, after)
FpOne ==
  /\ fpu.p = <<>>
  /\ \E i \in FpBody, a, b \in FpVals, after \in FpAfter, single \in BOOLEAN, enabled \in {{}, {"DZ"}} :
       FpRun(Fs(a, b, a, single, enabled), <<i>>, after)
FpTwo ==
  /\ fpu.p = <<>>
  /\ \E i \in FpBody, j \in FpSecond, a, b \in FpNums, after \in FpAfter, swapped \in BOOLEAN :
       FpRun(Fs(a, b, b, FALSE, {}), IF swapped THEN <<j, i>> ELSE <<i, j>>, after)
\* One instruction of the dispatcher's own.
FpAlone(s, i) == fpu' = FpFetched(s, <<i>>, <<>>)
FpTests ==
  /\ fpu.p = <<>>
  /\ \E op \in Conditional, k \in {"dn", "ind"}, pred \in 0 .. 31, a \in {1, 4}, d \in {0, 1, 257},
        cc \in {{}, {"Z"}, {"N"}, {"NAN"}}, enabled \in {{}, {"BSUN"}} :
       /\ k = "dn" \/ op = "FScc"
       /\ FpAlone([Fs(3, 0, 5, FALSE, enabled) EXCEPT !.cc = cc, !.d = d, !.a = a],
                  [Fi(op, 0, k, 0) EXCEPT !.pred = pred])
FpLists ==
  /\ fpu.p = <<>>
  /\ \E op \in ListMoves, a \in 0 .. 4, k \in {"dn", "imm", "ind", "post", "pre"} :
     \E mask \in SUBSET (IF op \in {"FMOVEM_out", "FMOVEM_in"} THEN FpRegs ELSE FpControls) :
       /\ k = "imm" => op = "FCTRL_in"
       /\ k = "dn" => op \in {"FCTRL_in", "FCTRL_out"}
       /\ k = "post" => op \in {"FMOVEM_in", "FCTRL_in"}
       /\ k = "pre" => op \in {"FMOVEM_out", "FCTRL_out"}
       /\ FpAlone([Fs(3, 7, 5, FALSE, {}) EXCEPT !.a = a], [Fi(op, 0, k, 9) EXCEPT !.mask = mask])
\* Translated code and the interpreter, from the same state.
FpPending == fpu.p # <<>> /\ ~fpu.ran
FpBlock ==
  /\ FpPending /\ fpu.after # <<>>
  /\ fpu' = [fpu EXCEPT !.ran = TRUE, !.o = Translated(fpu.s, fpu.p, fpu.after),
                        !.ref = Interpreter(fpu.s, fpu.p, fpu.after)]
FpSingle ==
  /\ FpPending /\ fpu.after = <<>>
  /\ fpu' = [fpu EXCEPT !.ran = TRUE, !.o = FpDispatched(fpu.s, fpu.p[1]),
        !.ref = IF fpu.p[1].op \in Conditional THEN Conditionally(fpu.s, fpu.p[1]) ELSE ListMoved(fpu.s, fpu.p[1])]
FpAgain == fpu.ran /\ fpu' = FpIdle
FpNext == FpOne \/ FpTwo \/ FpTests \/ FpLists \/ FpBlock \/ FpSingle \/ FpAgain
FpSpec == FpInit /\ [][FpNext]_fpu

-----------------------------------------------------------------------------
\* A translated block leaves the FP registers, the cells and the integer
\* registers the interpreter leaves, and the same condition codes for the
\* instruction that looks at them: no register is used without being loaded or
\* written without being stored, and a skipped update is never missed.  The
\* dispatcher's own conditionals and list moves do what the manual says.
FpBlockMatchesOracle ==
  LET same(a, b) == /\ a.fp = b.fp /\ a.d = b.d /\ a.a = b.a /\ a.mem = b.mem /\ a.cc = b.cc
                    /\ a.ctl = b.ctl /\ a.pc = b.pc
  IN  (fpu.after # <<>> /\ fpu.ref.trap # 0) \/ same(fpu.o, fpu.ref)
\* j5d_engine.c 1307-1309: the second walk gives each operation the operands
\* the interpreter gives it, so the exception bytes and the trap are the same.
FpExceptionsMatchOracle ==
  fpu.o.exc = fpu.ref.exc /\ fpu.o.aexc = fpu.ref.aexc /\ fpu.o.trap = fpu.ref.trap
=============================================================================
