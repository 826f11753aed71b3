----------------------------- MODULE M68kManual -----------------------------
(***************************************************************************)
(* What the processor's manual says of the instructions the reference      *)
(* interpreter does not decode: shifts one bit at a time, bit fields one   *)
(* bit at a time, decimal arithmetic on numbers, bounds as intervals.  No  *)
(* code is modelled here; the translator's emitters are compared with it.  *)
(***************************************************************************)
EXTENDS J5dInterp

\* Shifts: one step moves every bit by one place; out is the bit that leaves.
OneStep(op, left, w, v, x) ==
  LET out == IF left THEN v \div 2^(w - 1) ELSE v % 2
      sign == v \div 2^(w - 1)
      in == CASE op = "ROX" -> x
              [] op = "RO" -> out
              [] op = "AS" /\ ~left -> sign
              [] OTHER -> 0
  IN  [v |-> IF left THEN ((2 * v) % 2^w) + in ELSE (v \div 2) + in * 2^(w - 1),
       x |-> IF op = "RO" THEN x ELSE out, c |-> out]
\* The result of k steps, with V set if the sign ever changed (arithmetic left).
Steps(op, left, w, v0, x0, k) ==
  LET go[n \in 0 .. k] ==
        IF n = 0 THEN [v |-> v0, x |-> x0, c |-> IF op = "ROX" THEN x0 ELSE 0, o |-> FALSE]
        ELSE LET p == go[n - 1]
                 q == OneStep(op, left, w, p.v, p.x)
             IN  [v |-> q.v, x |-> q.x, c |-> q.c,
                  o |-> p.o \/ (op = "AS" /\ left /\ q.v \div 2^(w - 1) # p.v \div 2^(w - 1))]
  IN  go[k]
StepsCC(cc, n, o) ==
  [logic_ccr(cc, n, o.v) EXCEPT !["X"] = o.x = 1, !["C"] = o.c = 1, !["V"] = o.o]
ManualShift(s, i, k) ==
  LET o == Steps(i.op, i.left, Bits(i.n), Low_n(s, i.reg, i.n), Bool(s.cc["X"]), k)
  IN  [wr_low(s, i.reg, i.n, o.v) EXCEPT !.cc = StepsCC(@, i.n, o)]
ManualShiftMem(s, i) ==
  LET l == mem_rd(s, ea_addr(s, 2, i.ea), 2)
      o == Steps(i.op, i.left, Bits(2), l.v, Bool(s.cc["X"]), 1)
  IN  [ea_write(l.s, 2, i.ea, o.v) EXCEPT !.cc = StepsCC(@, 2, o)]

-----------------------------------------------------------------------------
\* A bit field is a sequence of bits, the first the most significant; place(k)
\* names where its k-th bit lives.
Number(b, w) ==
  LET sum[k \in 0 .. w] == IF k = 0 THEN 0 ELSE 2 * sum[k - 1] + Bool(b[k - 1]) IN sum[w]
FieldBits(op, old, w, data) ==
  [k \in 0 .. w - 1 |->
     CASE op = "EOR" -> ~old[k] [] op = "SET" -> TRUE [] op = "CLR" -> FALSE
       [] op = "INS" -> Bit(data, w - 1 - k) [] OTHER -> old[k]]
FieldResult(s, i, op, old, w, off) ==
  LET v == Number(old, w)
      first == IF \E k \in 0 .. w - 1 : old[k]
               THEN CHOOSE k \in 0 .. w - 1 : old[k] /\ \A j \in 0 .. k - 1 : ~old[j] ELSE w
  IN  CASE op = "EXTU" -> [s EXCEPT !.r[i.data] = v]
        [] op = "EXTS" -> [s EXCEPT !.r[i.data] = Long(IF old[0] THEN v - 2^w ELSE v)]
        [] op = "FFO" -> [s EXCEPT !.r[i.data] = Long(off + first)]
        [] OTHER -> s
FieldFlags(cc, op, old, new) ==
  LET b == IF op = "INS" THEN new ELSE old
  IN  [cc EXCEPT !["N"] = b[0], !["Z"] = \A k \in DOMAIN b : ~b[k], !["V"] = FALSE, !["C"] = FALSE]
ManualField(s, i, op) ==
  LET inReg == i.ea.m = "dn"
      w == LET w0 == (IF i.widReg THEN s.r[i.wid] ELSE i.wid) % LongBits IN IF w0 = 0 THEN LongBits ELSE w0
      off == IF i.offReg THEN AsSigned(s.r[i.off], 4) ELSE i.off
      base == IF inReg THEN 0 ELSE ea_addr(s, 1, i.ea)
      addr(k) == base + (off + k) \div ByteBits
      bitno(k) == IF inReg THEN LongBits - 1 - ((off + k) % LongBits)
                           ELSE ByteBits - 1 - ((off + k) % ByteBits)
      inside == inReg \/ \A k \in 0 .. w - 1 : addr(k) \in 0 .. MemTop
      old == [k \in 0 .. w - 1 |->
                IF ~inside THEN FALSE
                ELSE Bit(IF inReg THEN s.r[i.ea.r] ELSE s.mem[addr(k)], bitno(k))]
      new == FieldBits(op, old, w, s.r[i.data])
      reg == [b \in 0 .. LongBits - 1 |->
                IF \E k \in 0 .. w - 1 : bitno(k) = b
                  THEN new[CHOOSE k \in 0 .. w - 1 : bitno(k) = b] ELSE Bit(s.r[i.ea.r], b)]
      byte(a) == [b \in 0 .. ByteBits - 1 |->
                IF \E k \in 0 .. w - 1 : addr(k) = a /\ bitno(k) = b
                  THEN new[CHOOSE k \in 0 .. w - 1 : addr(k) = a /\ bitno(k) = b]
                  ELSE Bit(s.mem[a], b)]
      value(f, n) == Number([k \in 0 .. n - 1 |-> f[n - 1 - k]], n)
      t == IF inReg THEN [s EXCEPT !.r[i.ea.r] = value(reg, LongBits)]
           ELSE IF inside THEN [s EXCEPT !.mem = [a \in DOMAIN @ |-> value(byte(a), ByteBits)]]
           ELSE Fault(s)
  IN  [FieldResult(t, i, op, old, w, off) EXCEPT !.cc = FieldFlags(@, op, old, new)]

-----------------------------------------------------------------------------
\* Within bounds: walking up from the lower bound meets x no later than the
\* upper one.
ManualCmp2(s, i) ==
  LET a == ea_addr(s, i.n, i.ea)
      lo == mem_rd(s, a, i.n)
      hi == mem_rd(lo.s, a + i.n, i.n)
      m == IF i.reg < 8 THEN Mask(i.n) ELSE Mask(4)
      at(v) == AsSigned(v, i.n) % m
      x == s.r[i.reg] % m
  IN  [hi.s EXCEPT !.cc["Z"] = x \in {at(lo.v), at(hi.v)},
                   !.cc["C"] = ((x - at(lo.v)) % m) > ((at(hi.v) - at(lo.v)) % m)]
\* The operand minus the compare register, first pair first.
ManualCas(s, i) ==
  LET addr == ea_addr(s, i.n, i.ea)
      l == mem_rd(s, addr, i.n)
      c == Low_n(s, i.dc, i.n)
      t == IF l.v = c THEN mem_wr(l.s, addr, i.n, s.r[i.du]) ELSE wr_low(l.s, i.dc, i.n, l.v)
  IN  [ea_step(t, i.n, i.ea) EXCEPT !.cc = cmp(@, i.n, l.v, c).cc]
ManualCas2(s, i) ==
  LET l1 == mem_rd(s, s.r[i.at[1]], i.n)
      l2 == mem_rd(l1.s, s.r[i.at[2]], i.n)
      c1 == Low_n(s, i.dcs[1], i.n)
      c2 == Low_n(s, i.dcs[2], i.n)
      swapped == mem_wr(mem_wr(l2.s, s.r[i.at[1]], i.n, s.r[i.dus[1]]),
                        s.r[i.at[2]], i.n, s.r[i.dus[2]])
      loaded == wr_low(wr_low(l2.s, i.dcs[1], i.n, l1.v), i.dcs[2], i.n, l2.v)
  IN  [IF l1.v = c1 /\ l2.v = c2 THEN swapped ELSE loaded EXCEPT
         !.cc = IF l1.v # c1 THEN cmp(@, i.n, l1.v, c1).cc ELSE cmp(@, i.n, l2.v, c2).cc]
ManualMovep(s, i) ==
  LET addr == ea_addr(s, 1, i.ea)
      get[k \in 0 .. i.n] ==
        IF k = 0 THEN [s |-> s, v |-> 0]
        ELSE LET l == mem_rd(get[k - 1].s, Long(addr + 2 * (k - 1)), 1)
             IN  [s |-> l.s, v |-> Mask(1) * get[k - 1].v + l.v]
      put[k \in 0 .. i.n] ==
        IF k = 0 THEN s
        ELSE mem_wr(put[k - 1], Long(addr + 2 * (k - 1)), 1, s.r[i.reg] \div Mask(i.n - k))
  IN  IF i.store THEN put[i.n] ELSE wr_low(get[i.n].s, i.reg, i.n, get[i.n].v)
\* A bit of a long in a register, of a byte in memory.
ManualBit(s, i, op) ==
  LET n == IF i.ea.m = "dn" THEN 4 ELSE 1
      k == (IF i.dyn THEN s.r[i.reg] ELSE i.imm) % Bits(n)
      l == IF i.ea.m = "dn" THEN [s |-> s, v |-> s.r[i.ea.r]] ELSE mem_rd(s, ea_addr(s, 1, i.ea), 1)
      b == Bit(l.v, k)
      to == CASE op = "BCHG" -> ~b [] op = "BSET" -> TRUE [] op = "BCLR" -> FALSE [] OTHER -> b
  IN  [ea_write(l.s, n, i.ea, l.v + 2^k * (Bool(to) - Bool(b))) EXCEPT !.cc["Z"] = ~b]
ManualTas(s, i) ==
  LET l == IF i.ea.m = "dn" THEN [s |-> s, v |-> Low_n(s, i.ea.r, 1)]
           ELSE mem_rd(s, ea_addr(s, 1, i.ea), 1)
  IN  [ea_write(l.s, 1, i.ea, l.v | 2^(ByteBits - 1)) EXCEPT !.cc = logic_ccr(@, 1, l.v)]
\* 64 by 32 bits: a quotient that does not fit changes no register.
ManualDivWide(s, i) ==
  LET val(x, w) == IF i.signed THEN Signed(x, w) ELSE x
      a == val(s.r[i.dr] * Mask(4) + s.r[i.dq], XBits)
      b == val(ea_read(s, 4, i.ea).v, LongBits)
      q == Truncated(a, b)
      fits == val(Long(q), LongBits) = q
      t == [s EXCEPT !.r[i.dr] = Long(a - q * b)]
  IN  IF fits THEN [t EXCEPT !.r[i.dq] = Long(q), !.cc = nz32(@, Long(q))]
      ELSE [s EXCEPT !.cc["V"] = TRUE, !.cc["C"] = FALSE]

\* neg, negx and not of any operand; addx and subx of two in memory: the
\* register rules on what was read, negx as a subtraction from zero.
UnaryRule(op, t, j) ==
  CASE op = "NOT" -> not(t, j)
    [] op = "NEG" -> neg(t, j)
    [] op = "NEGX" -> [subx(t, j) EXCEPT !.r[4] = subx(t, j).r[3]]
UnaryWrite(i, l, o) == [ea_write(l.s, i.n, i.ea, o.r[4]) EXCEPT !.cc = o.cc]
UnaryOn(i, l) ==
  UnaryWrite(i, l, UnaryRule(i.op, [l.s EXCEPT !.r[3] = 0, !.r[4] = l.v],
                             [i EXCEPT !.reg = 3, !.src = 4, !.ea = [@ EXCEPT !.m = "dn", !.r = 4]]))
ManualUnary(s, i) ==
  UnaryOn(i, IF i.ea.m = "dn" THEN [s |-> s, v |-> Low_n(s, i.ea.r, i.n)]
             ELSE mem_rd(s, ea_addr(s, i.n, i.ea), i.n))
ExtendedWrite(i, d, o) == [mem_wr(d.s, d.s.r[8 + i.reg], i.n, o.r[3]) EXCEPT !.cc = o.cc]
ExtendedRule(op, t, j) == IF op = "ADDX" THEN addx(t, j) ELSE subx(t, j)
ExtendedOn(i, x, d) ==
  ExtendedWrite(i, d, ExtendedRule(i.op, [d.s EXCEPT !.r[3] = d.v, !.r[4] = x.v],
                                   [i EXCEPT !.reg = 3, !.src = 4]))
ExtendedFrom(i, x) == ExtendedOn(i, x, ea_read(x.s, i.n, [m |-> "pre", r |-> i.reg]))
ManualExtended(s, i) == ExtendedFrom(i, ea_read(s, i.n, [m |-> "pre", r |-> i.src]))
\* A long product: V when the upper half is more than the sign of the lower.
ManualMul(s, i) ==
  LET val(x) == IF i.signed THEN AsSigned(x, 4) ELSE x
      p == val(s.r[i.dl]) * val(s.r[i.ea.r])
      cc == logic_ccr(s.cc, 4, p)
  IN  [s EXCEPT !.r[i.dl] = Long(p), !.cc = [cc EXCEPT !["V"] = val(Long(p)) # p]]
\* movem with its own base register: (An)+ ends at the end of the block; -(An)
\* stores the base lowered by one element.
ManualMovem(s, i) ==
  LET block == i.n * Cardinality(i.list)
      an == 8 + i.ea.r
  IN  CASE i.store /\ i.ea.m = "pre" ->
             LET t == movem_store(s, i)
                 slot == Long(s.r[an] - i.n * Cardinality({y \in i.list : y >= an}))
             IN  mem_wr(t, slot, i.n, Long(s.r[an] - i.n))
        [] ~i.store /\ i.ea.m = "post" ->
             [movem_load(s, i) EXCEPT !.r[an] = Long(s.r[an] + block)]
        [] OTHER -> movem(s, i)
\* link of A7 itself stores the lowered pointer.
ManualLink(s, i) ==
  LET sp == Long(s.r[15] - 4) IN [mem_wr(s, sp, 4, sp) EXCEPT !.r[15] = Long(sp + i.imm)]
\* chk: N when the value is negative, not when it is above the bound.
ManualChk(s, i) ==
  LET l == ea_read(s, i.n, i.ea)
      d == AsSigned(s.r[i.reg], i.n)
  IN  [s |-> l.s, n |-> d < 0, traps |-> d < 0 \/ d > AsSigned(l.v, i.n)]

-----------------------------------------------------------------------------
\* Two decimal digits as a number, and back.
FromBcd(b) == 10 * (b \div 16) + (b % 16)
ToBcd(v) == 16 * (v \div 10) + (v % 10)
BcdBytes == {ToBcd(v) : v \in 0 .. 99}
ManualAbcd(d, s, x) ==
  LET t == FromBcd(d) + FromBcd(s) + x IN [r |-> ToBcd(t % 100), c |-> t > 99, z |-> t % 100 = 0]
ManualSbcd(d, s, x) ==
  LET t == FromBcd(d) - FromBcd(s) - x IN [r |-> ToBcd(t % 100), c |-> t < 0, z |-> t % 100 = 0]
=============================================================================
