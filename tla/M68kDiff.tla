------------------------------ MODULE M68kDiff ------------------------------
(***************************************************************************)
(* The lockstep driver (j5d_run_diff in src/hosted/jit68k/j5d_engine.c):   *)
(* the translated instruction and the reference run from the same state,   *)
(* and the two states are compared at the boundary.  The guest's program   *)
(* is every instruction of a family on sampled operands: one action per    *)
(* family fetches, and Lockstep executes.  What the interpreter does not   *)
(* decode is compared with M68kManual.                                     *)
(***************************************************************************)
EXTENDS M68kImmediate, M68kMisc, M68kArith, M68kShift, M68kBitfield,
        M68kManual, M68kDispatch

CONSTANTS
  Vals,         \* register contents tried
  FewVals,      \* the same where more dimensions vary
  BcdVals       \* numbers tried in decimal arithmetic
ASSUME M68kDiffAssumption ==
  /\ Vals \subseteq 0 .. 2^LongBits - 1 /\ FewVals \subseteq Vals
  /\ BcdVals \subseteq 0 .. 99

VARIABLE cpu    \* the instruction, the state before, whether it ran, the translator's state after
Sizes == {1, 2, 4}
CCs == {[f \in CCFlags |-> f = "X"], [f \in CCFlags |-> f # "X"]}
\* Memory with a different number in every byte, and with mostly ones.
Mems == {[a \in 0 .. MemTop |-> (3 * a + 1) % 2^ByteBits],
         [a \in 0 .. MemTop |-> IF a % 3 = 1 THEN 0 ELSE 2^ByteBits - 1]}
Mem0 == [a \in 0 .. MemTop |-> (3 * a + 1) % 2^ByteBits]
\* D0, D1, D2 from the sample, A0 to A2 and A7 given.
State(d0, d1, d2, a0, a1, m, cc) ==
  [r |-> [x \in 0 .. 15 |-> CASE x = 0 -> d0 [] x = 1 -> d1 [] x = 2 -> d2
                              [] x = 8 -> a0 [] x = 9 -> a1 [] x = 15 -> 8 [] OTHER -> x],
   mem |-> m, cc |-> cc, fault |-> FALSE, vec |-> 0]
Ea(m, r) == [m |-> m, r |-> r, d |-> 0, x |-> 0, xl |-> TRUE, sc |-> 0,
             bs |-> FALSE, is |-> FALSE, ind |-> "none", od |-> 0]
Insn(op, n) ==
  [op |-> op, n |-> n, ea |-> Ea("dn", 1), dst |-> Ea("dn", 0), reg |-> 0, src |-> 1,
   imm |-> 0, dyn |-> FALSE, store |-> FALSE, cond |-> "T", byte |-> FALSE, fused |-> 0,
   left |-> FALSE, cnt |-> 1, off |-> 0, offReg |-> FALSE, wid |-> 0, widReg |-> FALSE,
   data |-> 2, dc |-> 0, du |-> 1, signed |-> FALSE, wide |-> FALSE,
   dl |-> 0, dh |-> 2, dq |-> 0, dr |-> 2, list |-> {},
   at |-> <<8, 9>>, dcs |-> <<0, 1>>, dus |-> <<2, 3>>]
\* The addressing modes, through A0 and with D1 as index.
Modes == {Ea("ind", 0), Ea("post", 0), Ea("pre", 0), [Ea("disp", 0) EXCEPT !.d = 3],
          [Ea("disp", 0) EXCEPT !.d = -2], [Ea("abs", 0) EXCEPT !.d = 5]}
          \cup [m : {"idx"}, r : {0}, d : {-1, 2}, x : {1}, xl : BOOLEAN, sc : {0, 2},
                bs : {FALSE}, is : {FALSE}, ind : {"none"}, od : {0}]
FullModes == [m : {"full"}, r : {0}, d : {1}, x : {1}, xl : {TRUE}, sc : {1},
              bs : BOOLEAN, is : BOOLEAN, ind : {"none", "pre", "post"}, od : {2}]

-----------------------------------------------------------------------------
\* What an instruction translates to, and what it is compared with.
Jit(s, i) ==
  LET mem == i.ea.m # "dn"
  IN CASE i.op = "DIVW" \/ has_pcrel_src(i) -> Dispatched(s, i)
    [] i.op = "CMPI" -> EMIT_CMPI(s, i) [] i.op = "SUBI" -> EMIT_SUBI(s, i)
    [] i.op = "ADDI" -> EMIT_ADDI(s, i) [] i.op = "ORI" -> EMIT_ORI(s, i)
    [] i.op = "ANDI" -> EMIT_ANDI(s, i) [] i.op = "EORI" -> EMIT_EORI(s, i)
    [] i.op = "BTST" -> EMIT_BTST(s, i) [] i.op = "BCHG" -> EMIT_BCHG(s, i)
    [] i.op = "BCLR" -> EMIT_BCLR(s, i) [] i.op = "BSET" -> EMIT_BSET(s, i)
    [] i.op = "CMP2" -> EMIT_CMP2(s, i) [] i.op = "CAS" -> EMIT_CAS(s, i)
    [] i.op = "CAS2" -> EMIT_CAS2(s, i) [] i.op = "MOVEP" -> EMIT_MOVEP(s, i)
    [] i.op = "CLR" -> EMIT_CLR(s, i) [] i.op = "NOT" -> EMIT_NOT(s, i)
    [] i.op = "NEG" -> EMIT_NEG(s, i) [] i.op = "NEGX" -> EMIT_NEGX(s, i)
    [] i.op = "TST" -> EMIT_TST(s, i) [] i.op = "TAS" -> EMIT_TAS(s, i)
    [] i.op = "EXT" -> EMIT_EXT(s, [i EXCEPT !.fused = FALSE]) [] i.op = "SWAP" -> EMIT_SWAP(s, i)
    [] i.op = "LINK" -> EMIT_LINK(s, i) [] i.op = "UNLK" -> EMIT_UNLK(s, i)
    [] i.op = "PEA" -> EMIT_PEA(s, i) [] i.op = "LEA" -> EMIT_LEA(s, i)
    [] i.op = "MOVEM" -> EMIT_MOVEM(s, i) [] i.op = "CHK" -> EMIT_CHK(s, i)
    [] i.op = "ADDQ" -> EMIT_ADDQ(s, i) [] i.op = "SUBQ" -> EMIT_SUBQ(s, i)
    [] i.op = "Scc" -> EMIT_Scc(s, i) [] i.op = "EXG" -> EMIT_EXG(s, i)
    [] i.op = "ADD" -> EMIT_ADD(s, i) [] i.op = "SUB" -> EMIT_SUB(s, i)
    [] i.op = "AND" -> EMIT_AND(s, i) [] i.op = "OR" -> EMIT_OR(s, i)
    [] i.op = "EOR" -> EMIT_EOR(s, i) [] i.op = "CMP" -> EMIT_CMP(s, i)
    [] i.op = "ADDA" -> EMIT_ADDA(s, i) [] i.op = "SUBA" -> EMIT_SUBA(s, i)
    [] i.op = "CMPA" -> EMIT_CMPA(s, i) [] i.op = "CMPM" -> EMIT_CMPM(s, i)
    [] i.op = "ADDX" -> (IF mem THEN ADDX_Mem(s, i) ELSE ADDX_Reg(s, i))
    [] i.op = "SUBX" -> (IF mem THEN SUBX_Mem(s, i) ELSE SUBX_Reg(s, i))
    [] i.op \in {"AS", "LS", "RO", "ROX"} /\ mem ->
         (CASE i.op = "AS" -> EMIT_ASL_mem(s, i) [] i.op = "LS" -> EMIT_LSL_mem(s, i)
            [] i.op = "RO" -> EMIT_ROL_mem(s, i) [] OTHER -> EMIT_ROXL_mem(s, i))
    [] i.op = "AS" -> (IF i.dyn THEN EMIT_ASL_reg(s, i) ELSE EMIT_ASL(s, i))
    [] i.op = "LS" -> (IF i.dyn THEN EMIT_LSL_reg(s, i) ELSE EMIT_LSL(s, i))
    [] i.op = "RO" -> (IF i.dyn THEN EMIT_ROL_reg(s, i) ELSE EMIT_ROL(s, i))
    [] i.op = "ROX" -> (IF i.dyn THEN EMIT_ROXL_reg(s, i) ELSE EMIT_ROXL(s, i))
    [] i.op = "TSTF" -> (IF mem THEN EMIT_BFTST(s, i) ELSE EMIT_BFTST_reg(s, i))
    [] i.op = "EXTU" -> (IF mem THEN EMIT_BFEXTU(s, i) ELSE EMIT_BFEXTU_reg(s, i))
    [] i.op = "EXTS" -> (IF mem THEN EMIT_BFEXTS(s, i) ELSE EMIT_BFEXTS_reg(s, i))
    [] i.op = "FFO" -> (IF mem THEN EMIT_BFFFO(s, i) ELSE EMIT_BFFFO_reg(s, i))
    [] i.op = "CHG" -> (IF mem THEN EMIT_BFCHG(s, i) ELSE EMIT_BFCHG_reg(s, i))
    [] i.op = "SET" -> (IF mem THEN EMIT_BFSET(s, i) ELSE EMIT_BFSET_reg(s, i))
    [] i.op = "CLRF" -> (IF mem THEN EMIT_BFCLR(s, i) ELSE EMIT_BFCLR_reg(s, i))
    [] i.op = "INS" -> (IF mem THEN EMIT_BFINS(s, i) ELSE EMIT_BFINS_reg(s, i))
    [] i.op = "MOVEQ" -> EMIT_moveq(s, i) [] i.op = "MOVE" -> EMIT_move(s, i)
    [] i.op = "MULS" -> EMIT_MULS_W(s, i) [] i.op = "MULU" -> EMIT_MULU_W(s, i)
    [] i.op = "MULL" -> EMIT_MULS_L(s, i) [] i.op = "DIVL" -> EMIT_DIVUS_L(s, i)
    [] i.op = "ORCCR" -> EMIT_ORI_TO_CCR(s, i) [] i.op = "ANDCCR" -> EMIT_ANDI_TO_CCR(s, i)
    [] i.op = "EORCCR" -> EMIT_EORI_TO_CCR(s, i)
    [] i.op = "ABCD" -> (IF i.store THEN EMIT_ABCD_mem(s.d, s.s, s.x) ELSE EMIT_ABCD_reg(s.d, s.s, s.x))
    [] i.op = "SBCD" -> (IF i.store THEN EMIT_SBCD_mem(s.d, s.s, s.x) ELSE EMIT_SBCD_reg(s.d, s.s, s.x))
    [] i.op = "NBCD" -> EMIT_NBCD(s.d, s.x)
    [] i.op = "PACK" -> [r |-> EMIT_PACK(EMIT_UNPK(s.d, s.s), 65536 - s.s), c |-> FALSE, z |-> s.d = 0]
    [] i.op = "SR" -> LET sr == j5d_pack_sr(Kept(s.flags)) IN [sr |-> sr, ccr |-> j5d_unpack_sr(sr)]

FieldOps == {"TSTF", "EXTU", "EXTS", "FFO", "CHG", "SET", "CLRF", "INS"}
FieldName(op) == CASE op = "TSTF" -> "TST" [] op = "CHG" -> "EOR" [] op = "CLRF" -> "CLR" [] OTHER -> op
\* The interpreter's operator, where it decodes the instruction.
Interpreted(s, i) ==
  CASE i.op = "CMPI" -> cmpi_ea(s, i)
    [] i.op \in {"ADDI", "SUBI", "ANDI", "ORI", "EORI"} -> line0_imm(s, i)
    [] i.op \in {"ADD", "SUB"} -> (IF i.store THEN alu_mem(s, i) ELSE add_sub_reg(s, i))
    [] i.op \in {"AND", "OR"} -> (IF i.store THEN alu_mem(s, i) ELSE and_or_reg(s, i))
    [] i.op = "EOR" -> eor_l(s, i) [] i.op = "CMP" -> cmp_ea(s, i)
    [] i.op \in {"ADDQ", "SUBQ"} -> addq_subq(s, i)
    [] i.op \in {"ADDA", "SUBA"} -> adda_suba(s, i) [] i.op = "CMPA" -> cmpa(s, i)
    [] i.op = "CMPM" -> cmpm(s, i)
    [] i.op = "ADDX" -> addx(s, i) [] i.op = "SUBX" -> subx(s, i)
    [] i.op = "CAS" -> cas(s, i)
    [] i.op = "CLR" -> clr(s, i) [] i.op = "TST" -> tst_ea(s, i) [] i.op = "NOT" -> not(s, i)
    [] i.op = "NEG" -> neg(s, i) [] i.op = "NEGX" -> negx(s, i) [] i.op = "SWAP" -> swap(s, i)
    [] i.op = "EXT" -> (IF i.n = 2 THEN ext_w(s, i) ELSE ext_l(s, i))
    [] i.op = "Scc" -> Scc(s, i) [] i.op = "BTST" -> btst(s, i)
    [] i.op = "LINK" -> link(s, i) [] i.op = "UNLK" -> unlk(s, i)
    [] i.op = "PEA" -> pea(s, i) [] i.op = "LEA" -> lea(s, i) [] i.op = "MOVEM" -> movem(s, i)
    [] i.op \in {"AS", "LS", "RO"} -> (IF i.dyn THEN shift_reg(s, i) ELSE shift_imm(s, i))
    [] i.op = "MOVEQ" -> moveq(s, i) [] i.op = "MOVE" -> move(s, i)
    [] i.op = "DIVW" -> div_w(s, i)
    [] i.op = "MULS" -> muls_w(s, i) [] i.op = "MULL" -> mul_l(s, i) [] i.op = "DIVL" -> div_l(s, i)
\* The manual for the rest.
Manual(s, i) ==
  CASE i.op \in {"AS", "LS", "RO", "ROX"} ->
         (IF i.ea.m # "dn" THEN ManualShiftMem(s, i)
          ELSE ManualShift(s, i, IF i.dyn THEN s.r[i.cnt] % XBits ELSE i.imm))
    [] i.op \in FieldOps -> ManualField(s, i, FieldName(i.op))
    [] i.op \in {"BTST", "BCHG", "BCLR", "BSET"} -> ManualBit(s, i, i.op)
    [] i.op = "CMP2" -> ManualCmp2(s, i) [] i.op = "CAS" -> ManualCas(s, i)
    [] i.op = "CAS2" -> ManualCas2(s, i) [] i.op = "MOVEP" -> ManualMovep(s, i)
    [] i.op = "TAS" -> ManualTas(s, i) [] i.op = "DIVL" -> ManualDivWide(s, i)
    [] i.op = "ORCCR" -> [s EXCEPT !.cc = [f \in CCFlags |-> @[f] \/ f \in i.imm]]
    [] i.op = "ANDCCR" -> [s EXCEPT !.cc = [f \in CCFlags |-> @[f] /\ f \in i.imm]]
    [] i.op = "EORCCR" -> [s EXCEPT !.cc = [f \in CCFlags |-> @[f] # (f \in i.imm)]]
    [] i.op = "MULU" -> [s EXCEPT !.r[i.reg] = Low_n(s, i.reg, 2) * Low_n(s, i.ea.r, 2),
                           !.cc = nz32(@, Low_n(s, i.reg, 2) * Low_n(s, i.ea.r, 2))]
    [] i.op \in {"NOT", "NEG", "NEGX"} -> ManualUnary(s, i)
    [] i.op \in {"ADDX", "SUBX"} -> ManualExtended(s, i)
    [] i.op = "MULL" -> ManualMul(s, i) [] i.op = "MOVEM" -> ManualMovem(s, i)
    [] i.op = "LINK" -> ManualLink(s, i)
    [] i.op = "LEA" -> [s EXCEPT !.r[i.reg] = ea_addr(s, 4, i.ea)]
    [] i.op = "EXG" -> [s EXCEPT !.r[i.reg] = s.r[i.src], !.r[i.src] = s.r[i.reg]]

\* Where the interpreter departs from the manual and the translator does not:
\* an arithmetic left shift of all ones past
\* its width, and of a byte by eight; the borrow of a long negx that wraps; cas
\* compares the wrong way around; a long product never overflows, nor keeps its
\* low half when both halves name one register; lea forgets the scale; movem
\* with its own base register; link of A7.  (It also moves A7 by one for a byte:
\* no sample addresses bytes through A7.)
InterpreterDeparts(s, i) ==
  \/ i.op \in {"AS", "CAS"}
  \/ i.op = "NEGX" /\ i.n = 4 /\ i.ea.m = "dn" /\ s.cc["X"] /\ s.r[i.ea.r] = 2^LongBits - 1
  \/ i.op = "MULL" /\ (~i.wide \/ i.dh = i.dl)
  \/ i.op = "DIVL" /\ i.wide
  \/ i.op = "LEA" /\ i.ea.m = "idx" /\ i.ea.sc # 0
  \/ i.op = "MOVEM" /\ AddrReg(i.ea) \in i.list
  \/ i.op = "LINK" /\ AddrReg(i.ea) = SP
\* What the interpreter decodes at all.
Decoded(i) ==
  \/ i.op \in {"CMPI", "ADDI", "SUBI", "ANDI", "ORI", "EORI", "ADD", "SUB", "AND", "OR", "EOR",
               "CMP", "ADDQ", "SUBQ", "ADDA", "SUBA", "CMPA", "CMPM", "CLR", "TST", "SWAP", "EXT",
               "Scc", "LINK", "UNLK", "PEA", "LEA", "MOVEM", "MOVEQ", "MOVE", "MULS", "MULL", "DIVW"}
  \/ i.op = "DIVL" /\ ~i.wide
  \/ i.ea.m = "dn" /\ i.op \in {"NOT", "NEG", "NEGX", "BTST", "ADDX", "SUBX", "AS", "LS", "RO"}
  \/ i.op = "CAS" /\ i.ea.m = "ind"
\* A movem of two longs from (An)+ with An one of them: the translator's own
\* departure (M68k_LINE4.c 2657).  The dispatcher's: a long addition relative
\* to the program counter has no carry, AND and OR clear X.
TranslatorDeparts(i) ==
  \/ has_pcrel_src(i) /\ (i.op \in {"AND", "OR"} \/ (i.op = "ADD" /\ i.n = 4))
  \/ i.op = "MOVEM" /\ ~i.store /\ i.ea.m = "post" /\ AddrReg(i.ea) \in i.list
       /\ i.n = 4 /\ Cardinality(i.list) = 2
Reference(s, i) ==
  IF Decoded(i) /\ ~InterpreterDeparts(s, i) THEN Interpreted(s, i) ELSE Manual(s, i)

-----------------------------------------------------------------------------
Idle == Insn("none", 1)
S0 == State(0, 0, 0, 0, 0, Mem0, [f \in CCFlags |-> FALSE])
DiffInit == cpu = [i |-> Idle, s |-> S0, ran |-> FALSE, o |-> S0]
Ready == cpu.i.op = "none"
Fetch(s, i) == cpu' = [i |-> i, s |-> s, ran |-> FALSE, o |-> s]

Bases == {1, 4, 6, MemTop - 1}
ImmOps == {"ADDI", "SUBI", "ANDI", "ORI", "EORI", "CMPI"}
AluOps == {"ADD", "SUB", "AND", "OR", "CMP"}
RegisterAlu ==
  /\ Ready
  /\ \E n \in Sizes, a \in Vals, b \in Vals, cc \in CCs :
       \E i \in {[Insn(op, n) EXCEPT !.ea.r = 0, !.imm = b % 2^Bits(n)] : op \in ImmOps}
                \cup {Insn(op, n) : op \in AluOps \cup {"EOR", "ADDX", "SUBX"}} :
         Fetch(State(a, b, 0, 0, 0, Mem0, cc), i)
AddressAlu ==
  /\ Ready
  /\ \E n \in {2, 4}, a \in Vals, b \in Vals, cc \in CCs, op \in {"ADDA", "SUBA", "CMPA"} :
       Fetch(State(0, b, 0, a, 0, Mem0, cc), [Insn(op, n) EXCEPT !.reg = 8])
MemoryAlu ==
  /\ Ready
  /\ \E n \in Sizes, a \in Bases, d0 \in FewVals, d1 \in {1, 254}, ea \in Modes \cup FullModes :
       \E i \in {[Insn(op, n) EXCEPT !.ea = ea] : op \in AluOps}
                \cup {[Insn(op, n) EXCEPT !.ea = ea, !.store = TRUE] : op \in (AluOps \cup {"EOR"}) \ {"CMP"}}
                \cup {[Insn(op, n) EXCEPT !.ea = ea, !.imm = d0 % 2^Bits(n)] : op \in ImmOps} :
         Fetch(State(d0, d1, 0, a, 0, Mem0, [f \in CCFlags |-> f = "X"]), i)
Quickly ==
  /\ Ready
  /\ \E n \in Sizes, a \in Vals, imm \in 1 .. 3, cc \in CCs, op \in {"ADDQ", "SUBQ"} :
       \/ Fetch(State(0, a, 0, 0, 0, Mem0, cc), [Insn(op, n) EXCEPT !.imm = imm])
       \/ Fetch(State(0, 0, 0, a, 0, Mem0, cc), [Insn(op, n) EXCEPT !.imm = imm, !.ea = Ea("an", 0)])
       \/ \E ea \in Modes, b \in Bases :
            Fetch(State(0, 1, 0, b, 0, Mem0, cc), [Insn(op, n) EXCEPT !.imm = imm, !.ea = ea])
OneOperand ==
  /\ Ready
  /\ \E n \in Sizes, cc \in CCs, op \in {"CLR", "NOT", "NEG", "NEGX", "TST", "TAS"} :
       LET i == Insn(op, IF op = "TAS" THEN 1 ELSE n)
       IN  \/ \E a \in Vals : Fetch(State(0, a, 0, 0, 0, Mem0, cc), i)
           \/ \E ea \in Modes, b \in Bases, m \in Mems :
                Fetch(State(0, 1, 0, b, 0, m, cc), [i EXCEPT !.ea = ea])
InRegister ==
  /\ Ready
  /\ \E a \in Vals, cc \in CCs :
       \/ Fetch(State(a, 9, 0, 0, 0, Mem0, cc), Insn("SWAP", 4))
       \/ \E n \in {2, 4}, byte \in BOOLEAN :
            Fetch(State(a, 9, 0, 0, 0, Mem0, cc), [Insn("EXT", n) EXCEPT !.byte = byte])
       \/ \E x, y \in {0, 1, 8} : Fetch(State(a, 9, 0, 77, 0, Mem0, cc), [Insn("EXG", 4) EXCEPT !.reg = x, !.src = y])
       \/ Fetch(State(0, 9, 0, 0, 0, Mem0, cc), [Insn("MOVEQ", 4) EXCEPT !.imm = a % 2^ByteBits])
BitOps ==
  /\ Ready
  /\ \E op \in {"BTST", "BCHG", "BCLR", "BSET"}, k \in 0 .. LongBits + 1, cc \in CCs, dyn \in BOOLEAN :
       LET i == [Insn(op, 4) EXCEPT !.imm = k, !.dyn = dyn]
       IN  \/ \E a \in FewVals : Fetch(State(k, a, 0, 0, 0, Mem0, cc), i)
           \/ \E ea \in {Ea("ind", 0), Ea("post", 0), Ea("pre", 0)}, b \in {1, MemTop + 1} :
                Fetch(State(k, 0, 0, b, 0, Mem0, cc), [i EXCEPT !.n = 1, !.ea = ea])
Shifts ==
  /\ Ready
  /\ \E op \in {"AS", "LS", "RO", "ROX"}, n \in Sizes, left \in BOOLEAN, a \in Vals, cc \in CCs :
       LET i == [Insn(op, n) EXCEPT !.left = left, !.ea.r = 0]
       IN  \/ \E c \in 0 .. XBits + 1 : Fetch(State(a, c, 0, 0, 0, Mem0, cc), [i EXCEPT !.dyn = TRUE])
           \/ \E c \in 1 .. ByteBits : Fetch(State(a, 0, 0, 0, 0, Mem0, cc), [i EXCEPT !.imm = c])
           \/ /\ n = 2
              /\ \E ea \in {Ea("ind", 0), Ea("post", 0), Ea("pre", 0)} :
                   Fetch(State(0, 0, 0, 4, 0,
                              [Mem0 EXCEPT ![2] = a % 2^ByteBits, ![4] = a % 2^ByteBits, ![5] = (a \div 4) % 2^ByteBits], cc),
                            [i EXCEPT !.ea = ea])
\* Offset and width each constant or in D1 and D3's place; the data register is D2.
BitFields ==
  /\ Ready
  /\ \E op \in FieldOps, w \in 0 .. LongBits - 1, offReg, widReg \in BOOLEAN, cc \in CCs :
       LET i == [Insn(op, 4) EXCEPT !.offReg = offReg, !.widReg = widReg, !.wid = IF widReg THEN 0 ELSE w]
           s(v, o, a) == [State(IF widReg THEN w ELSE 7, o, v, a, 0, Mem0, cc) EXCEPT !.r[3] = v]
       IN  \/ \E v \in {45, 150}, o \in {0, 1, 3, LongBits - 1} :
                Fetch(s(v, o, 0), [i EXCEPT !.off = IF offReg THEN 1 ELSE o, !.reg = 3, !.ea.r = 3])
           \/ \E v \in {45, 150}, o \in {0, 1, 3, 6} \cup (IF offReg THEN {2^LongBits - 3} ELSE {}) :
                Fetch(s(v, o, 3), [i EXCEPT !.off = IF offReg THEN 1 ELSE o, !.ea = Ea("ind", 0)])
Moves ==
  /\ Ready
  /\ \E n \in Sizes,
        src \in Modes \cup {Ea("dn", 2), Ea("an", 1), [Ea("imm", 0) EXCEPT !.d = 2^LongBits - 1]},
        dst \in {Ea("dn", 0), Ea("dn", 1), Ea("an", 1), Ea("an", 0), Ea("ind", 1), Ea("post", 0), Ea("pre", 0),
                 [Ea("disp", 1) EXCEPT !.d = 1], [Ea("abs", 0) EXCEPT !.d = 2]}, a \in Bases, cc \in CCs :
       /\ n = 1 => dst.m # "an" /\ src.m # "an"
       /\ Fetch(State(90, 1, 200, a, 3, Mem0, cc), [Insn("MOVE", n) EXCEPT !.ea = src, !.dst = dst])
Products ==
  /\ Ready
  /\ \E a, b \in Vals, cc \in CCs, signed \in BOOLEAN :
       \/ \E op \in {"MULS", "MULU"} : Fetch(State(a, b, 0, 0, 0, Mem0, cc), Insn(op, 2))
       \/ \E wide \in BOOLEAN :
            Fetch(State(a, b, 0, 0, 0, Mem0, cc), [Insn("MULL", 4) EXCEPT !.signed = signed, !.wide = wide])
       \/ \E wide \in BOOLEAN, dr \in {0, 2}, d2 \in {0, 1, 2^LongBits - 1} :
            /\ b # 0 /\ (wide => dr # 0)
            /\ Fetch(State(a, b, d2, 0, 0, Mem0, cc),
                        [Insn("DIVL", 4) EXCEPT !.signed = signed, !.wide = wide, !.dr = dr])
Frames ==
  /\ Ready
  /\ \E a \in Bases \cup {0, MemTop}, ea \in Modes, cc \in CCs :
       LET s == State(6, 1, 90, a, 5, Mem0, cc)
       IN  \/ \E r \in {0, 7}, d \in {-1, 0} : Fetch(s, [Insn("LINK", 4) EXCEPT !.ea = Ea("an", r), !.imm = d])
           \/ Fetch(s, [Insn("UNLK", 4) EXCEPT !.ea = Ea("an", 0)])
           \/ ea.m \notin {"post", "pre"} /\ Fetch(s, [Insn("PEA", 4) EXCEPT !.ea = ea])
           \/ ea.m \notin {"post", "pre"} /\ Fetch(s, [Insn("LEA", 4) EXCEPT !.ea = ea, !.reg = 9])
           \/ \E n \in {2, 4}, store \in BOOLEAN, list \in {{}, {0}, {2, 9}, {0, 2, 8}, {8, 9}} :
                /\ ~store /\ ea.m = "post" /\ 8 \in list => a + n * Cardinality(list) <= MemTop + 1
                /\ ea.m \in (IF store THEN {"ind", "disp", "pre", "abs"} ELSE {"ind", "disp", "post", "abs"})
                /\ Fetch(s, [Insn("MOVEM", n) EXCEPT !.ea = ea, !.store = store, !.list = list])
Conditions == {"T", "F", "HI", "LS", "CC", "CS", "NE", "EQ", "VC", "VS", "PL", "MI", "GE", "LT", "GT", "LE"}
Flags ==
  /\ Ready
  /\ \E cc \in [CCFlags -> BOOLEAN] :
       \/ \E cond \in Conditions : Fetch(State(0, 85, 0, 0, 0, Mem0, cc), [Insn("Scc", 1) EXCEPT !.cond = cond])
       \/ \E op \in {"ORCCR", "ANDCCR", "EORCCR"}, fs \in {{}, {"V"}, {"C", "X"}, {"N", "Z", "V"}} :
            Fetch(State(0, 0, 0, 0, 0, Mem0, cc), [Insn(op, 1) EXCEPT !.imm = fs])
TwoInMemory ==
  /\ Ready
  /\ \E n \in Sizes, cc \in CCs, a, b \in Bases, m \in Mems :
       \/ Fetch(State(0, 0, 0, a, b, m, cc), [Insn("CMPM", n) EXCEPT !.reg = 0, !.src = 1])
       \/ \E op \in {"ADDX", "SUBX"} :
            Fetch(State(0, 0, 0, a, b, m, cc), [Insn(op, n) EXCEPT !.ea = Ea("pre", 0)])
       \/ \E d0, d1 \in {0, 3, 77, 198} :
            /\ a + 4 <= b \/ b + 4 <= a
            /\ Fetch(State(d0, d1, 90, a, b, m, cc), [Insn("CAS2", n) EXCEPT !.n = IF n = 1 THEN 2 ELSE n])
       \/ n # 1 /\ \E st \in BOOLEAN :
            Fetch(State(150, 0, 90, a, b, m, cc), [Insn("MOVEP", n) EXCEPT !.ea = [Ea("disp", 0) EXCEPT !.d = 1], !.store = st])
Compare ==
  /\ Ready
  /\ \E n \in Sizes, cc \in CCs, a \in Bases, m \in Mems, d0 \in Vals :
       \/ \E ea \in {Ea("ind", 0), Ea("post", 0), Ea("pre", 0)}, du \in {1, 85} :
            Fetch(State(d0, du, 0, a, 0, m, cc), [Insn("CAS", n) EXCEPT !.ea = ea])
       \/ \E r \in {0, 9} : Fetch(State(d0, 0, 0, a, d0, m, cc), [Insn("CMP2", n) EXCEPT !.ea = Ea("ind", 0), !.reg = r])
       \/ n # 1 /\ \E d1 \in FewVals : Fetch(State(d0, d1, 0, a, 0, m, cc), Insn("CHK", n))
\* Decimal bytes, with the extend bit; the record is the operands and the answer.
Decimals ==
  /\ Ready
  /\ \E a, b \in BcdVals, x \in {0, 1} :
       LET d == ToBcd(a)
           s == ToBcd(b)
       IN  \E op \in {"ABCD", "SBCD", "NBCD", "PACK"}, mem \in BOOLEAN :
             Fetch([d |-> d, s |-> s, x |-> x], [Insn(op, 1) EXCEPT !.store = mem])
\* What the dispatcher executes.
PcModes == {[Ea("pc", 0) EXCEPT !.d = d] : d \in {5, MemTop - 1}}
           \cup [m : {"pcx"}, r : {0}, d : {1}, x : {1}, xl : BOOLEAN, sc : {0, 1},
                 bs : {FALSE}, is : {FALSE}, ind : {"none"}, od : {0}]
PcRelative ==
  /\ Ready
  /\ \E n \in Sizes, d0 \in FewVals, d1 \in {1, 254}, a \in Bases, ea \in PcModes, cc \in CCs :
       \E i \in {Insn(op, n) : op \in AluOps \cup {"TST"}} \cup {Insn("PEA", 4), [Insn("LEA", 4) EXCEPT !.reg = 9]}
                \cup {[Insn("MOVE", n) EXCEPT !.dst = dst] : dst \in
                       {Ea("dn", 0), Ea("ind", 0), Ea("post", 0), Ea("pre", 0), [Ea("disp", 0) EXCEPT !.d = 1]}
                       \cup (IF n = 1 THEN {} ELSE {Ea("an", 1)})} :
         Fetch(State(d0, d1, 0, a, 0, Mem0, cc), [i EXCEPT !.ea = ea])
WordDivisions ==
  /\ Ready
  /\ \E d0 \in Vals, signed \in BOOLEAN, cc \in CCs :
       LET i == [Insn("DIVW", 2) EXCEPT !.signed = signed]
       IN  \/ \E d1 \in Vals : Fetch(State(d0, d1, 0, 0, 0, Mem0, cc), i)
           \/ \E d \in {0, 3, 15} : Fetch(State(d0, 0, 0, 0, 0, Mem0, cc), [i EXCEPT !.ea = [Ea("imm", 0) EXCEPT !.d = d]])
           \/ \E a \in Bases, m \in Mems, ea \in Modes \cup PcModes :
                Fetch(State(d0, 1, 0, a, 0, m, cc), [i EXCEPT !.ea = ea])
\* The status register's two layouts; the record is the flags and the words.
StatusMoves ==
  /\ Ready
  /\ \E flags \in SUBSET CCFlags : Fetch([flags |-> flags], Insn("SR", 2))
\* One instruction in the translated code, or in the dispatcher.
Lockstep == ~Ready /\ ~cpu.ran /\ cpu' = [cpu EXCEPT !.ran = TRUE, !.o = Jit(cpu.s, cpu.i)]
\* The two states agreed: on to the next instruction.
NextInsn == cpu.ran /\ cpu' = [i |-> Idle, s |-> S0, ran |-> FALSE, o |-> S0]
DiffNext ==
  \/ RegisterAlu \/ AddressAlu \/ MemoryAlu \/ Quickly \/ OneOperand \/ InRegister \/ BitOps
  \/ Shifts \/ BitFields \/ Moves \/ Products \/ Frames \/ Flags \/ TwoInMemory \/ Compare
  \/ Decimals \/ PcRelative \/ WordDivisions \/ StatusMoves \/ Lockstep \/ NextInsn
DiffSpec == DiffInit /\ [][DiffNext]_cpu

-----------------------------------------------------------------------------
\* diff_compare: registers and condition codes; here memory too.  Both may
\* instead have refused an access.
Agree(a, b, flags) ==
  /\ a.fault = b.fault
  /\ a.fault \/ (a.vec = b.vec /\ a.r = b.r /\ a.mem = b.mem /\ \A f \in flags : a.cc[f] = b.cc[f])
\* A quotient that does not fit leaves N and Z undefined.
Defined(s, i) == IF i.op = "DIVL" /\ i.wide /\ ManualDivWide(s, i).cc["V"] THEN {"X", "V", "C"} ELSE CCFlags
\* Translated code does what the processor does: after every instruction of
\* every family, on the registers, the condition codes (X included) and the
\* sandbox, including the accesses that must be refused.
JitMatchesOracle ==
  CASE ~cpu.ran -> TRUE
    [] cpu.i.op = "ABCD" -> cpu.o = ManualAbcd(cpu.s.d, cpu.s.s, cpu.s.x)
    [] cpu.i.op = "SBCD" -> cpu.o = ManualSbcd(cpu.s.d, cpu.s.s, cpu.s.x)
    [] cpu.i.op = "NBCD" -> cpu.o = ManualSbcd(0, cpu.s.d, cpu.s.x)
    [] cpu.i.op = "SR" -> cpu.o = [sr |-> ManualSr(cpu.s.flags), ccr |-> Kept(cpu.s.flags)]
    [] cpu.i.op = "PACK" -> cpu.o.r = cpu.s.d
    [] cpu.i.op = "CHK" -> LET k == ManualChk(cpu.s, cpu.i)
                           IN  k.traps /\ ~k.s.fault => (cpu.o.cc["N"] = k.n)
    [] OTHER -> TranslatorDeparts(cpu.i) \/ Agree(cpu.o, Reference(cpu.s, cpu.i), Defined(cpu.s, cpu.i))
\* What j5d_interp.c promises in its first lines: the interpreter is an oracle
\* the translator agrees with byte for byte on everything it decodes.
InterpreterIsOracle ==
  cpu.ran /\ cpu.i.op \notin {"ABCD", "SBCD", "NBCD", "PACK", "SR"} /\ Decoded(cpu.i) => Agree(cpu.o, Interpreted(cpu.s, cpu.i), CCFlags)
=============================================================================
