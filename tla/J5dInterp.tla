------------------------------ MODULE J5dInterp ------------------------------
(***************************************************************************)
(* The reference interpreter the translator is compared with               *)
(* (src/hosted/jit68k/j5d_interp.c): one instruction at a time on the same *)
(* registers, condition codes and sandbox, written from the processor's    *)
(* manual and sharing nothing with the translator.  Each form the          *)
(* interpreter decodes has its operator, on instruction records with the   *)
(* translator's fields.  An access outside the sandbox fails the run.      *)
(***************************************************************************)
EXTENDS M68kEA

Mask(n) == 2^(n * ByteBits)
Sign(v, n) == v % Mask(n) >= Mask(n) \div 2
AsSigned(v, n) == (v % Mask(n)) - (IF Sign(v, n) THEN Mask(n) ELSE 0)
Long(v) == v % Mask(4)

\* mem_rd8/16/32 and mem_wr8/16/32.
InSandbox(addr, n) == addr + n <= MemTop + 1
mem_rd(s, addr, n) ==
  LET sum[k \in 0 .. n] == IF k = 0 THEN 0 ELSE Mask(1) * sum[k - 1] + s.mem[addr + k - 1]
  IN  IF InSandbox(addr, n) THEN [s |-> s, v |-> sum[n]] ELSE [s |-> Fault(s), v |-> 0]
mem_wr(s, addr, n, v) ==
  IF ~InSandbox(addr, n) THEN Fault(s)
  ELSE [s EXCEPT !.mem = [a \in DOMAIN @ |->
          IF a - addr \in 0 .. n - 1 THEN (v \div Mask(addr + n - 1 - a)) % Mask(1) ELSE @[a]]]
\* The low n bytes of a register.
Low_n(s, x, n) == s.r[x] % Mask(n)
wr_low(s, x, n, v) == [s EXCEPT !.r[x] = @ - (@ % Mask(n)) + (v % Mask(n))]

\* Condition codes: logic_ccr and nz32; C and X of an addition or subtraction
\* are the unsigned result leaving the range, V the signed one.
logic_ccr(cc, n, v) ==
  [X |-> cc["X"], N |-> Sign(v, n), Z |-> v % Mask(n) = 0, V |-> FALSE, C |-> FALSE]
nz32(cc, v) == logic_ccr(cc, 4, v)
Overflows(t, n) == t < -(Mask(n) \div 2) \/ t >= Mask(n) \div 2
arith_ccr(n, res, carry, signed) ==
  [X |-> carry, N |-> Sign(res, n), Z |-> res % Mask(n) = 0,
   V |-> Overflows(signed, n), C |-> carry]
\* The X chain: Z is only cleared.
sized_x_ccr(cc, n, res, carry, overflow) ==
  [X |-> carry, N |-> Sign(res, n), Z |-> res % Mask(n) = 0 /\ cc["Z"],
   V |-> overflow, C |-> carry]
bcc_taken(cc, cond) ==
  CASE cond = "T" -> TRUE [] cond = "F" -> FALSE
    [] cond = "HI" -> ~(cc["C"] \/ cc["Z"]) [] cond = "LS" -> cc["C"] \/ cc["Z"]
    [] cond = "CC" -> ~cc["C"] [] cond = "CS" -> cc["C"]
    [] cond = "NE" -> ~cc["Z"] [] cond = "EQ" -> cc["Z"]
    [] cond = "VC" -> ~cc["V"] [] cond = "VS" -> cc["V"]
    [] cond = "PL" -> ~cc["N"] [] cond = "MI" -> cc["N"]
    [] cond = "GE" -> cc["N"] = cc["V"] [] cond = "LT" -> cc["N"] # cc["V"]
    [] cond = "GT" -> cc["N"] = cc["V"] /\ ~cc["Z"]
    [] cond = "LE" -> cc["Z"] \/ cc["N"] # cc["V"]

-----------------------------------------------------------------------------
(* Addresses and operands.                                                 *)
brief_ea_i(s, ea, base) ==
  Long(base + ea.d + 2^ea.sc * (IF ea.xl THEN s.r[ea.x] ELSE AsSigned(s.r[ea.x], 2)))
\* The full extension word; a pointer outside the sandbox is refused.
control_indexed_ea_i(s, ea, base) ==
  LET index == IF ea.is THEN 0
               ELSE 2^ea.sc * (IF ea.xl THEN s.r[ea.x] ELSE AsSigned(s.r[ea.x], 2))
      start == (IF ea.bs THEN 0 ELSE base) + ea.d
      pointer == Long(start + (IF ea.ind = "pre" THEN index ELSE 0))
  IN  IF ea.ind = "none" THEN Long(start + index)
      ELSE Long(mem_rd(s, pointer, 4).v + ea.od + (IF ea.ind = "post" THEN index ELSE 0))
\* The switch on the mode that every form repeats; -(An) is already lowered.
ea_addr(s, n, ea) ==
  LET an == s.r[8 + ea.r]
  IN  CASE ea.m \in {"ind", "post"} -> an
        [] ea.m = "pre" -> Long(an - n)
        [] ea.m = "disp" -> Long(an + ea.d)
        [] ea.m = "idx" -> brief_ea_i(s, ea, an)
        [] ea.m = "full" -> control_indexed_ea_i(s, ea, an)
        [] ea.m = "pcx" -> brief_ea_i(s, ea, 0)
        [] ea.m \in {"abs", "pc"} -> Long(ea.d)
\* After the access: An moves by the operand's size.
ea_step(s, n, ea) ==
  CASE ea.m = "post" -> [s EXCEPT !.r[8 + ea.r] = Long(@ + n)]
    [] ea.m = "pre" -> [s EXCEPT !.r[8 + ea.r] = Long(@ - n)]
    [] OTHER -> s
ea_read(s, n, ea) ==
  CASE ea.m = "dn" -> [s |-> s, v |-> Low_n(s, ea.r, n)]
    [] ea.m = "an" -> [s |-> s, v |-> Low_n(s, 8 + ea.r, n)]
    [] ea.m = "imm" -> [s |-> s, v |-> ea.d % Mask(n)]
    [] OTHER -> LET l == mem_rd(s, ea_addr(s, n, ea), n) IN [l EXCEPT !.s = ea_step(@, n, ea)]
ea_write(s, n, ea, v) ==
  CASE ea.m = "dn" -> wr_low(s, ea.r, n, v)
    [] OTHER -> ea_step(mem_wr(s, ea_addr(s, n, ea), n, v), n, ea)

-----------------------------------------------------------------------------
(* Two operands.  A rule gives the result and the condition codes.         *)
add(cc, n, a, b) == [r |-> (a + b) % Mask(n),
  cc |-> arith_ccr(n, a + b, a + b >= Mask(n), AsSigned(a, n) + AsSigned(b, n))]
sub(cc, n, a, b) == [r |-> (a - b) % Mask(n),
  cc |-> arith_ccr(n, a - b, b > a, AsSigned(a, n) - AsSigned(b, n))]
cmp(cc, n, a, b) == [r |-> a, cc |-> [sub(cc, n, a, b).cc EXCEPT !["X"] = cc["X"]]]
and_(cc, n, a, b) == [r |-> a & b, cc |-> logic_ccr(cc, n, a & b)]
or_(cc, n, a, b) == [r |-> a | b, cc |-> logic_ccr(cc, n, a | b)]
eor_(cc, n, a, b) == [r |-> a ^^ b, cc |-> logic_ccr(cc, n, a ^^ b)]
rule(op, cc, n, a, b) ==
  CASE op \in {"ADD", "ADDI", "ADDQ"} -> add(cc, n, a, b)
    [] op \in {"SUB", "SUBI", "SUBQ"} -> sub(cc, n, a, b)
    [] op = "CMP" -> cmp(cc, n, a, b)
    [] op \in {"AND", "ANDI"} -> and_(cc, n, a, b)
    [] op \in {"OR", "ORI"} -> or_(cc, n, a, b)
    [] op \in {"EOR", "EORI"} -> eor_(cc, n, a, b)
\* <ea>,Dn with a memory operand, a register or an immediate.
alu_ea(s, i) ==
  LET l == ea_read(s, i.n, i.ea)
      o == rule(i.op, s.cc, i.n, Low_n(s, i.reg, i.n), l.v)
  IN  [wr_low(l.s, i.reg, i.n, o.r) EXCEPT !.cc = o.cc]
\* Dn,<ea> and #imm,<ea>: read, modify, write.
alu_to_ea(s, i, b) ==
  LET a == IF i.ea.m = "dn" THEN Low_n(s, i.ea.r, i.n)
           ELSE mem_rd(s, ea_addr(s, i.n, i.ea), i.n).v
      o == rule(i.op, s.cc, i.n, a, b % Mask(i.n))
  IN  [ea_write(s, i.n, i.ea, o.r) EXCEPT !.cc = o.cc]
add_sub_reg(s, i) == alu_ea(s, i)
and_or_reg(s, i) == alu_ea(s, i)
cmp_ea(s, i) == alu_ea(s, i)
alu_mem(s, i) == alu_to_ea(s, i, s.r[i.reg])
eor_l(s, i) == alu_to_ea(s, i, s.r[i.reg])
\* addi, subi, andi, ori, eori on a register or memory; cmpi reads only.
line0_imm(s, i) == alu_to_ea(s, i, i.imm)
cmpi_ea(s, i) ==
  LET l == ea_read(s, i.n, i.ea) IN [l.s EXCEPT !.cc = cmp(s.cc, i.n, l.v, i.imm % Mask(i.n)).cc]
\* addq, subq: an address register whole and without flags.
addq_subq(s, i) ==
  LET up == i.op = "ADDQ"
  IN  IF i.ea.m = "an"
      THEN [s EXCEPT !.r[8 + i.ea.r] = Long(IF up THEN @ + i.imm ELSE @ - i.imm)]
      ELSE alu_to_ea(s, i, i.imm)
\* adda, suba: a word source is sign-extended.
adda_suba(s, i) ==
  LET l == ea_read(s, i.n, i.ea)
      v == AsSigned(l.v, i.n)
  IN  [l.s EXCEPT !.r[i.reg] = Long(IF i.op = "ADDA" THEN @ + v ELSE @ - v)]
cmpa(s, i) ==
  LET l == ea_read(s, i.n, i.ea)
  IN  [l.s EXCEPT !.cc = cmp(s.cc, 4, l.s.r[i.reg], Long(AsSigned(l.v, i.n))).cc]
\* Both reads, then both increments.
cmpm(s, i) ==
  LET y == mem_rd(s, s.r[8 + i.src], i.n)
      x == mem_rd(y.s, y.s.r[8 + i.reg], i.n)
      t == [x.s EXCEPT !.r[8 + i.src] = Long(@ + i.n)]
      u == [t EXCEPT !.r[8 + i.reg] = Long(@ + i.n)]
  IN  [u EXCEPT !.cc = cmp(s.cc, i.n, x.v, y.v).cc]
addx(s, i) ==
  LET a == Low_n(s, i.reg, i.n)
      b == Low_n(s, i.src, i.n)
      t == a + b + Bool(s.cc["X"])
      over == Overflows(AsSigned(a, i.n) + AsSigned(b, i.n) + Bool(s.cc["X"]), i.n)
  IN  [wr_low(s, i.reg, i.n, t) EXCEPT !.cc = sized_x_ccr(@, i.n, t, t >= Mask(i.n), over)]
subx(s, i) ==
  LET a == Low_n(s, i.reg, i.n)
      b == Low_n(s, i.src, i.n)
      t == a - b - Bool(s.cc["X"])
      over == Overflows(AsSigned(a, i.n) - AsSigned(b, i.n) - Bool(s.cc["X"]), i.n)
  IN  [wr_low(s, i.reg, i.n, t) EXCEPT !.cc = sized_x_ccr(@, i.n, t, t < 0, over)]
\* The comparison is made the other way around: Dc minus the operand.
cas(s, i) ==
  LET l == mem_rd(s, s.r[8 + i.ea.r], i.n)
      c == Low_n(s, i.dc, i.n)
      t == IF l.v = c THEN mem_wr(l.s, s.r[8 + i.ea.r], i.n, s.r[i.du])
                      ELSE wr_low(l.s, i.dc, i.n, l.v)
  IN  [t EXCEPT !.cc = cmp(@, i.n, c, l.v).cc]

-----------------------------------------------------------------------------
(* One operand, moves and the stack.                                       *)
moveq(s, i) ==
  LET v == Long(AsSigned(i.imm, 1)) IN [s EXCEPT !.r[i.reg] = v, !.cc = nz32(@, v)]
\* The whole source, then the whole destination.
move(s, i) ==
  LET l == ea_read(s, i.n, i.ea)
  IN  IF i.dst.m = "an" THEN [l.s EXCEPT !.r[8 + i.dst.r] = Long(AsSigned(l.v, i.n))]
      ELSE [ea_write(l.s, i.n, i.dst, l.v) EXCEPT !.cc = logic_ccr(@, i.n, l.v)]
clr(s, i) == [ea_write(s, i.n, i.ea, 0) EXCEPT !.cc = logic_ccr(@, i.n, 0)]
tst_ea(s, i) == LET l == ea_read(s, i.n, i.ea) IN [l.s EXCEPT !.cc = logic_ccr(@, i.n, l.v)]
\* The borrow is "operand plus X is not zero", a sum of 32 bits.
negx(s, i) ==
  LET a == Low_n(s, i.ea.r, i.n)
      x == Bool(s.cc["X"])
      t == 0 - a - x
      over == Sign(a, i.n) /\ Sign(t, i.n)
  IN  [wr_low(s, i.ea.r, i.n, t) EXCEPT !.cc = sized_x_ccr(@, i.n, t, Long(a + x) # 0, over)]
neg(s, i) ==
  LET o == sub(s.cc, i.n, 0, Low_n(s, i.ea.r, i.n))
  IN  [wr_low(s, i.ea.r, i.n, o.r) EXCEPT !.cc = o.cc]
not(s, i) ==
  LET v == Mask(i.n) - 1 - Low_n(s, i.ea.r, i.n)
  IN  [wr_low(s, i.ea.r, i.n, v) EXCEPT !.cc = logic_ccr(@, i.n, v)]
swap(s, i) ==
  LET v == s.r[i.reg] \div Mask(2) + Mask(2) * Low_n(s, i.reg, 2)
  IN  [s EXCEPT !.r[i.reg] = v, !.cc = logic_ccr(@, 4, v)]
ext_w(s, i) ==
  LET v == AsSigned(s.r[i.reg], 1) IN [wr_low(s, i.reg, 2, v) EXCEPT !.cc = logic_ccr(@, 2, v)]
ext_l(s, i) ==
  LET v == Long(AsSigned(s.r[i.reg], IF i.byte THEN 1 ELSE 2))
  IN  [s EXCEPT !.r[i.reg] = v, !.cc = logic_ccr(@, 4, v)]
Scc(s, i) == ea_write(s, 1, i.ea, IF bcc_taken(s.cc, i.cond) THEN Mask(1) - 1 ELSE 0)
btst(s, i) ==
  LET k == (IF i.dyn THEN s.r[i.reg] ELSE i.imm) % (4 * ByteBits)
  IN  [s EXCEPT !.cc["Z"] = (s.r[i.ea.r] \div 2^k) % 2 = 0]
link(s, i) ==
  LET sp == Long(s.r[15] - 4)
      t == [mem_wr(s, sp, 4, s.r[8 + i.ea.r]) EXCEPT !.r[8 + i.ea.r] = sp]
  IN  [t EXCEPT !.r[15] = Long(sp + i.imm)]
unlk(s, i) ==
  LET l == mem_rd(s, s.r[8 + i.ea.r], 4)
      t == [l.s EXCEPT !.r[8 + i.ea.r] = l.v]
  IN  [t EXCEPT !.r[15] = Long(s.r[8 + i.ea.r] + 4)]
pea(s, i) ==
  LET sp == Long(s.r[15] - 4)
  IN  [mem_wr(s, sp, 4, ea_addr(s, 4, i.ea)) EXCEPT !.r[15] = sp]
\* The indexed form forgets the scale.
lea(s, i) ==
  LET ea == IF i.ea.m = "idx" THEN [i.ea EXCEPT !.sc = 0] ELSE i.ea
  IN  [s EXCEPT !.r[i.reg] = ea_addr(s, 4, ea)]

\* movem: -(An) goes down the list from A7, everything else up from D0.
movem_store(s, i) ==
  LET pre == i.ea.m = "pre"
      base == s.r[8 + i.ea.r]
      rank(x) == Cardinality({y \in i.list : IF pre THEN y >= x ELSE y < x})
      at(x) == Long(IF pre THEN base - i.n * rank(x) ELSE ea_addr(s, i.n, i.ea) + i.n * rank(x))
      put[k \in 0 .. 16] ==
        IF k = 0 THEN s ELSE IF k - 1 \notin i.list THEN put[k - 1]
        ELSE mem_wr(put[k - 1], at(k - 1), i.n, s.r[k - 1])
      t == put[16]
  IN  IF pre THEN [t EXCEPT !.r[8 + i.ea.r] = Long(base - i.n * Cardinality(i.list))] ELSE t
\* (An)+ is moved up from whatever An holds after the loads.
movem_load(s, i) ==
  LET at(x) == Long(ea_addr(s, i.n, i.ea) + i.n * Cardinality({y \in i.list : y < x}))
      get[k \in 0 .. 16] ==
        IF k = 0 THEN s ELSE IF k - 1 \notin i.list THEN get[k - 1]
        ELSE LET l == mem_rd(get[k - 1], at(k - 1), i.n)
             IN  [l.s EXCEPT !.r[k - 1] = Long(AsSigned(l.v, i.n))]
      t == get[16]
  IN  IF i.ea.m = "post" THEN [t EXCEPT !.r[8 + i.ea.r] = Long(@ + i.n * Cardinality(i.list))]
                         ELSE t
movem(s, i) == IF i.store THEN movem_store(s, i) ELSE movem_load(s, i)

-----------------------------------------------------------------------------
(* Shifts and rotates; the count is a constant or a register modulo 64.     *)
shift_result(s, i, cnt) ==
  LET w == i.n * ByteBits
      a == Low_n(s, i.reg, i.n)
      k == cnt % w
      res == CASE i.op = "RO" /\ i.left -> (a * 2^k + a \div 2^(w - k)) % Mask(i.n)
               [] i.op = "RO" /\ ~i.left -> (a \div 2^k + a * 2^(w - k)) % Mask(i.n)
               [] i.op # "RO" /\ i.left -> IF cnt >= w THEN 0 ELSE (a * 2^cnt) % Mask(i.n)
               [] i.op = "LS" /\ ~i.left -> a \div 2^cnt
               [] i.op = "AS" /\ ~i.left -> (AsSigned(a, i.n) \div 2^cnt) % Mask(i.n)
      last == CASE i.op = "RO" /\ i.left -> res % 2 = 1
                [] i.op = "RO" /\ ~i.left -> Sign(res, i.n)
                [] i.op # "RO" /\ i.left -> cnt <= w /\ (a \div 2^(w - cnt)) % 2 = 1
                [] OTHER -> IF cnt <= w THEN (a \div 2^(cnt - 1)) % 2 = 1
                            ELSE Sign(a, i.n) /\ i.op = "AS"
      mask == IF cnt >= w THEN Mask(i.n) - 1 ELSE Mask(i.n) - 2^(w - 1 - cnt)
      over == i.op = "AS" /\ i.left /\ (a & mask) \notin {0, mask}
      zero == logic_ccr(s.cc, i.n, a)
  IN  [wr_low(s, i.reg, i.n, IF cnt = 0 THEN a ELSE res) EXCEPT
         !.cc = IF cnt = 0 THEN zero
                ELSE [logic_ccr(@, i.n, res) EXCEPT !["C"] = last, !["V"] = over,
                        !["X"] = IF i.op = "RO" THEN @ ELSE last]]
shift_reg(s, i) == shift_result(s, i, s.r[i.cnt] % XBits)
shift_imm(s, i) == shift_result(s, i, i.imm)

(* Multiplications and divisions.                                           *)
muls_w(s, i) ==
  LET v == Long(AsSigned(s.r[i.reg], 2) * AsSigned(s.r[i.ea.r], 2))
  IN  [s EXCEPT !.r[i.reg] = v, !.cc = nz32(@, v)]
\* Dh is written after Dl; a 32-bit product never sets V.
mul_l(s, i) ==
  LET val(x) == IF i.signed THEN AsSigned(x, 4) ELSE x
      p == (val(s.r[i.dl]) * val(ea_read(s, 4, i.ea).v)) % 2^XBits
      t == [s EXCEPT !.r[i.dl] = Long(p)]
  IN  IF i.wide
      THEN [t EXCEPT !.r[i.dh] = p \div Mask(4),
                     !.cc = [logic_ccr(@, 4, p \div Mask(4)) EXCEPT !["Z"] = p = 0]]
      ELSE [t EXCEPT !.cc = logic_ccr(@, 4, Long(p))]
Truncated(a, b) ==
  LET mag(v) == IF v < 0 THEN -v ELSE v
  IN  (IF (a < 0) = (b < 0) THEN 1 ELSE -1) * (mag(a) \div mag(b))
Operand_n(i, v, n) == IF i.signed THEN AsSigned(v, n) ELSE v % Mask(n)
\* divs.l and divu.l of 32 bits; the remainder is kept when dr is another register.
put_quotient_l(s, i, a, b, q) ==
  LET t == [s EXCEPT !.r[i.dq] = Long(q), !.cc = nz32(@, Long(q))]
  IN  IF i.dr = i.dq THEN t ELSE [t EXCEPT !.r[i.dr] = Long(a - q * b)]
divide_l(s, i, a, b) == put_quotient_l(s, i, a, b, Truncated(a, b))
div_l(s, i) ==
  divide_l(s, i, Operand_n(i, s.r[i.dq], 4), Operand_n(i, ea_read(s, 4, i.ea).v, 4))
\* divu.w, divs.w: a zero divisor raises vector 5; a quotient that does not fit
\* sets V and leaves the rest.
put_quotient_w(t, i, a, b, q) ==
  IF Operand_n(i, q, 2) = q
  THEN [t EXCEPT !.r[i.reg] = Mask(2) * ((a - q * b) % Mask(2)) + (q % Mask(2)),
                 !.cc = logic_ccr(@, 2, q)]
  ELSE [t EXCEPT !.cc = [logic_ccr(@, 2, q) EXCEPT !["N"] = FALSE, !["Z"] = FALSE, !["V"] = TRUE]]
divide_w(t, i, a, b) ==
  CASE t.fault -> t
    [] ~t.fault /\ b = 0 -> [t EXCEPT !.vec = 5]
    [] OTHER -> put_quotient_w(t, i, a, b, Truncated(a, b))
divide_by(s, i, l) == divide_w(l.s, i, Operand_n(i, s.r[i.reg], 4), Operand_n(i, l.v, 2))
div_w(s, i) == divide_by(s, i, ea_read(s, 2, i.ea))
=============================================================================
