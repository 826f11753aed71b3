------------------------------- MODULE M68kEA -------------------------------
(***************************************************************************)
(* Operands of translated 68k instructions: the effective addresses of     *)
(* src/hosted/jit68k/emu68/M68k_EA.c with the memory accesses the build    *)
(* substitutes in them (j5d_ea_helpers.c).                                 *)
(*                                                                         *)
(* A processor state is a record                                           *)
(*    r     the registers, D0..D7 as 0..7 and A0..A7 as 8..15              *)
(*    mem   the sandbox, one byte per address, big-endian                  *)
(*    cc    the condition codes                                            *)
(*    fault an access the sandbox check refused: the guest is terminated   *)
(* An effective address is a record with a mode "m" and what it needs.     *)
(***************************************************************************)
EXTENDS A64

CONSTANTS
  MemTop,       \* last address of the sandbox
  RawFaults     \* do accesses that bypass the sandbox fault (the hosted build)
                \* or reach memory one to one (the vendored code's own setting)
ASSUME M68kEAAssumption == MemTop \in Nat /\ RawFaults \in BOOLEAN

SP == 15
AddrReg(ea) == 8 + ea.r
Fault(s) == [s EXCEPT !.fault = TRUE]

\* j5d_checked_hostptr: begin <= address <= last address for this width;
\* anything else becomes a NULL access that ends the guest.  The host's
\* flags are saved around the two comparisons.
Checked(addr, n) == addr + n - 1 <= MemTop

\* j5d_ea_mem and ea_access, loading n bytes with REV.
Load(s, addr, n) ==
  IF ~Checked(addr, n) THEN 0
  ELSE LET B == s.mem
       IN  CASE n = 1 -> B[addr]
             [] n = 2 -> B[addr] * 2^ByteBits + B[addr + 1]
             [] n = 4 -> ((B[addr] * 2^ByteBits + B[addr + 1]) * 2^ByteBits
                            + B[addr + 2]) * 2^ByteBits + B[addr + 3]
\* The same, storing the low n bytes of v.
Store(s, addr, n, v) ==
  IF ~Checked(addr, n) THEN Fault(s)
  ELSE [s EXCEPT !.mem = [x \in DOMAIN @ |->
          IF x \in addr .. addr + n - 1
            THEN Trunc(v \div 2^(ByteBits * (addr + n - 1 - x)), ByteBits)
            ELSE @[x]]]
Touch(s, addr, n) == IF Checked(addr, n) THEN s ELSE Fault(s)
\* An access some emitter still makes through the guest address itself.
Raw(s) == IF RawFaults THEN Fault(s) ELSE s

\* A byte pushed or popped through A7 moves it by two.
Step(ea, n) == IF n = 1 /\ AddrReg(ea) = SP THEN 2 ELSE n
SetReg(s, i, v) == [s EXCEPT !.r[i] = v]
\* bfi/bfxil into the low bytes of a register.
Merge(s, i, n, v) == SetReg(s, i, Bfi(s.r[i], v, 0, Bits(n)))

\* An index register, a word sign-extended or a long, scaled.
Index(s, ea) == Shl(IF ea.xl THEN s.r[ea.x] ELSE Sext(s.r[ea.x], 2 * ByteBits), ea.sc)

\* (d8,An,Xn): load_reg_from_addr with a base that already has the displacement.
Brief(s, ea, base) == Trunc(base + ea.d + Index(s, ea), LongBits)

\* The full extension word: base, displacement and index may each be absent;
\* with memory indirection the index is added before or after the load.
FullAt(s, ea, b, x) ==
  LET at(v) == Trunc(v, LongBits)
  IN  CASE ea.ind = "none" -> at(b + x)
        [] ea.ind = "post" -> at(Load(s, at(b), 4) + x + ea.od)
        [] ea.ind = "pre" -> at(Load(s, at(b + x), 4) + ea.od)
Full(s, ea, base) ==
  FullAt(s, ea, (IF ea.bs THEN 0 ELSE base) + ea.d, IF ea.is THEN 0 ELSE Index(s, ea))

\* The address of a memory operand before any (An)+ or -(An) update.
AddressFrom(s, ea, base) ==
  CASE ea.m \in {"ind", "post", "pre"} -> base
    [] ea.m = "disp" -> Trunc(base + ea.d, LongBits)
    [] ea.m = "idx" -> Brief(s, ea, base)
    [] ea.m = "full" -> Full(s, ea, base)
    [] ea.m \in {"abs", "pc"} -> Trunc(ea.d, LongBits)
AddressOf(s, ea) ==
  AddressFrom(s, ea, IF ea.m \in {"abs", "pc"} THEN 0 ELSE s.r[AddrReg(ea)])

\* EMIT_LoadFromEffectiveAddress of a register: Dn or An, whole or sign-extended.
LoadRegister(s, n, sx, i) ==
  [s |-> s, v |-> IF sx /\ n < 4 THEN Sext(s.r[i], Bits(n)) ELSE s.r[i]]

\* ... of memory: (An)+ and -(An) leave the pointer moved.
BeforeAccess(s, n, ea) ==
  IF ea.m = "pre" THEN Trunc(s.r[AddrReg(ea)] - Step(ea, n), LongBits) ELSE AddressOf(s, ea)
AfterAccess(s, n, ea, addr) ==
  CASE ea.m = "pre" -> SetReg(s, AddrReg(ea), addr)
    [] ea.m = "post" -> SetReg(s, AddrReg(ea), Trunc(addr + Step(ea, n), LongBits))
    [] OTHER -> s
LoadAt(s, n, sx, ea, addr) ==
  [s |-> AfterAccess(Touch(s, addr, n), n, ea, addr),
   v |-> IF sx THEN Sext(Load(s, addr, n), Bits(n)) ELSE Load(s, addr, n)]

\* ... of any operand; "sx" asks for the sign-extending load.
LoadEA(s, n, sx, ea) ==
  CASE ea.m = "dn" -> LoadRegister(s, n, sx, ea.r)
    [] ea.m = "an" -> LoadRegister(s, n, sx, AddrReg(ea))
    [] ea.m = "imm" -> [s |-> s, v |-> IF sx THEN Sext(ea.d, Bits(n)) ELSE Trunc(ea.d, Bits(n))]
    [] OTHER -> LoadAt(s, n, sx, ea, BeforeAccess(s, n, ea))

\* EMIT_StoreToEffectiveAddress: a register keeps its upper bytes.
StoreRegister(s, n, i, v) == Merge(s, i, n, v)
StoreAt(s, n, ea, addr, v) == AfterAccess(Store(s, addr, n, v), n, ea, addr)
StoreEA(s, n, ea, v) ==
  CASE ea.m = "dn" -> StoreRegister(s, n, ea.r, v)
    [] ea.m = "an" -> StoreRegister(s, n, AddrReg(ea), v)
    [] OTHER -> StoreAt(s, n, ea, BeforeAccess(s, n, ea), v)

-----------------------------------------------------------------------------
\* A read-modify-write operand in memory: the emitters load the address, move
\* -(An) down before the load, and move (An)+ up after the store.
RmwAddr(s, n, ea) == BeforeAccess(s, n, ea)
RmwDone(s, n, ea, addr) == AfterAccess(s, n, ea, addr)

\* A sub-long operand is worked on in the top bits of the host register.
Top(v, n) == Shl(v, LongBits - Bits(n))
Low(v, n) == Shr(v, LongBits - Bits(n))

\* The old value of a destination, moved to the top; and the state after the
\* result h was merged into the register or written back, with h's flags kept.
OnDn(i) == i.ea.m = "dn"
DnOld(s, i) == Top(s.r[i.ea.r], i.n)
MemOld(s, i) == Top(Load(s, RmwAddr(s, i.n, i.ea), i.n), i.n)
DnResult(s, i, h) == [s |-> Merge(s, i.ea.r, i.n, Low(h.r, i.n)), h |-> h]
MemResultAt(s, i, h, addr) ==
  [s |-> RmwDone(Store(s, addr, i.n, Low(h.r, i.n)), i.n, i.ea, addr), h |-> h]
MemResult(s, i, h) == MemResultAt(s, i, h, RmwAddr(s, i.n, i.ea))
\* What an instruction leaves: the state and its new condition codes.
WithCC(o, cc) == [o.s EXCEPT !.cc = cc]
\* The flags of an addition, a subtraction and a logical operation.
AddFlags(s, o) == WithCC(o, GetNZCVX(s.cc, CCFlags, o.h))
SubFlags(s, o) == WithCC(o, GetNZnCVX(s.cc, CCFlags, o.h))
LogicFlags(s, o) == WithCC(o, GetNZ00(s.cc, NZVC, o.h))
\* The extended operations: Z is only ever cleared.
StickyZ(cc, h, carry) == Put(cc, [FromHost(h, carry) EXCEPT !.Z = cc["Z"] /\ h.z], CCFlags)
\* The same through the guest address itself.
RawResult(s, i, h) == [MemResult(s, i, h) EXCEPT !.s = Raw(@)]
=============================================================================
