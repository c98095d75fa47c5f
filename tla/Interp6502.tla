------------------------------ MODULE Interp6502 ------------------------------
(***************************************************************************)
(* The interpreter of src/interp.c: the reference every other way of running *)
(* 6502 code has to agree with. The switch over the opcode is the table of   *)
(* Row0 .. RowF; what its macros do is Ea, Alu and Step. A case of the       *)
(* switch says the operation, the macro of its addressing mode (Read, Write, *)
(* Modify) or, written out, its mode and cycles.                             *)
(*                                                                         *)
(* Step runs one instruction that touches no hardware register and is not    *)
(* interrupted; HardwarePath is the other half of each macro, the ticks it   *)
(* makes when the address is a register's, with its interrupt poll.          *)
(*                                                                         *)
(* A 6502 is a record: registers a, x, y, s, pc; flags n, z, c, v, d, i as 0 *)
(* or 1; memory m (the bytes written so far over Background); t, the cycles  *)
(* taken so far.                                                             *)
(***************************************************************************)
EXTENDS Integers, Sequences, TLC

Byte == 0 .. 255

(* Bitwise operations on bytes, a nibble at a time. *)
NibbleAnd == [p \in 0 .. 15 |-> [q \in 0 .. 15 |->
  LET Bit(n, w) == (n \div w) % 2
  IN  Bit(p, 1) * Bit(q, 1) + 2 * Bit(p, 2) * Bit(q, 2) + 4 * Bit(p, 4) * Bit(q, 4)
        + 8 * Bit(p, 8) * Bit(q, 8)]]
And(p, q) == 16 * NibbleAnd[p \div 16][q \div 16] + NibbleAnd[p % 16][q % 16]
Or8(p, q) == p + q - And(p, q)
Xor(p, q) == p + q - 2 * And(p, q)
Bit7(p) == (p \div 128) % 2
Bit6(p) == (p \div 64) % 2
Flag(condition) == IF condition THEN 1 ELSE 0

(* Memory: unlike bytes nearby, so that a wrong address reads a wrong value. *)
(* What is written to a ROM is lost.                                         *)
Background(addr) == (7 * addr + 3 * (addr \div 256) + 1) % 256
Peek(m, addr) == IF addr \in DOMAIN m THEN m[addr] ELSE Background(addr)
RomStart == 32768
Poke(m, addr, value) == IF addr >= RomStart THEN m ELSE (addr :> value) @@ m
Word(m, addr) == Peek(m, addr) + 256 * Peek(m, (addr + 1) % 65536)
ZeroPageWord(m, addr) == Peek(m, addr) + 256 * Peek(m, (addr + 1) % 256)
SameMemory(m1, m2) == \A addr \in DOMAIN m1 \cup DOMAIN m2 : Peek(m1, addr) = Peek(m2, addr)

-----------------------------------------------------------------------------
(* The switch: what a case does on an NMOS 6502 and on a 65C12. *)
Case(type, mode, macro, cycles) ==
  LET entry == [type |-> type, mode |-> mode, macro |-> macro, cycles |-> cycles]
  IN  <<entry, entry>>
E(type, mode, cycles) == Case(type, mode, "inline", cycles)
R(type, mode)  == Case(type, mode, "read", 0)
W(type, mode)  == Case(type, mode, "write", 0)
M(type, mode)  == Case(type, mode, "modify", 0)
M6(type, mode) == Case(type, mode, "modify6", 0)
H(type, mode)  == Case(type, mode, "writeSH", 0)
Br(type)       == Case(type, "rel", "branch", 2)
Kil            == Case("kil", "none", "inline", 7)
Or(nmos, cmos) == <<nmos[1], cmos[2]>>
U(nmos)        == Or(nmos, E("nop", "nil1", 1))

Row0 == <<
  E("brk", "imm", 7), R("ora", "idx"), Or(Kil, E("nop", "imm", 2)), U(M("slo", "idx")),
  Or(E("nop", "zpg", 3), M("tsb", "zpg")), R("ora", "zpg"), M("asl", "zpg"),
  U(M("slo", "zpg")), E("php", "nil", 3), E("ora", "imm", 2), E("asl", "acc", 2),
  U(E("anc", "imm", 2)), Or(R("nop", "abs"), M("tsb", "abs")), R("ora", "abs"),
  M("asl", "abs"), U(M("slo", "abs")) >>
Row1 == <<
  Br("bpl"), R("ora", "idy"), Or(Kil, R("ora", "id")), U(M("slo", "idy")),
  Or(E("nop", "zpx", 4), M("trb", "zpg")), R("ora", "zpx"), M("asl", "zpx"),
  U(M("slo", "zpx")), E("clc", "nil", 2), R("ora", "aby"),
  Or(E("nop", "nil", 2), E("inc", "acc", 2)), U(M("slo", "aby")),
  Or(R("nop", "abx"), M("trb", "abs")), R("ora", "abx"),
  Or(M("asl", "abx"), M6("asl", "abx")), U(M("slo", "abx")) >>
Row2 == <<
  E("jsr", "abs", 6), R("and", "idx"), Or(Kil, E("nop", "imm", 2)), U(M("rla", "idx")),
  R("bit", "zpg"), R("and", "zpg"), M("rol", "zpg"), U(M("rla", "zpg")),
  E("plp", "nil", 4), E("and", "imm", 2), E("rol", "acc", 2), U(E("anc", "imm", 2)),
  R("bit", "abs"), R("and", "abs"), M("rol", "abs"), U(M("rla", "abs")) >>
Row3 == <<
  Br("bmi"), R("and", "idy"), Or(Kil, R("and", "id")), U(M("rla", "idy")),
  Or(E("nop", "zpx", 4), R("bit", "zpx")), R("and", "zpx"), M("rol", "zpx"),
  U(M("rla", "zpx")), E("sec", "nil", 2), R("and", "aby"),
  Or(E("nop", "nil", 2), E("dec", "acc", 2)), U(M("rla", "aby")),
  Or(R("nop", "abx"), R("bit", "abx")), R("and", "abx"),
  Or(M("rol", "abx"), M6("rol", "abx")), U(M("rla", "abx")) >>
Row4 == <<
  E("rti", "nil", 6), R("eor", "idx"), Or(Kil, E("nop", "imm", 2)), U(M("sre", "idx")),
  E("nop", "zpg", 3), R("eor", "zpg"), M("lsr", "zpg"), U(M("sre", "zpg")),
  E("pha", "nil", 3), E("eor", "imm", 2), E("lsr", "acc", 2), U(E("alr", "imm", 2)),
  E("jmp", "abs", 3), R("eor", "abs"), M("lsr", "abs"), U(M("sre", "abs")) >>
Row5 == <<
  Br("bvc"), R("eor", "idy"), Or(Kil, R("eor", "id")), U(M("sre", "idy")),
  E("nop", "zpx", 4), R("eor", "zpx"), M("lsr", "zpx"), U(M("sre", "zpx")),
  E("cli", "nil", 2), R("eor", "aby"), Or(E("nop", "nil", 2), E("phy", "nil", 3)),
  U(M("sre", "aby")), Or(R("nop", "abx"), E("nop", "abs", 8)), R("eor", "abx"),
  Or(M("lsr", "abx"), M6("lsr", "abx")), U(M("sre", "abx")) >>
Row6 == <<
  E("rts", "nil", 6), R("adc", "idx"), Or(Kil, E("nop", "imm", 2)), U(M("rra", "idx")),
  Or(E("nop", "zpg", 3), W("stz", "zpg")), R("adc", "zpg"), M("ror", "zpg"),
  U(M("rra", "zpg")), E("pla", "nil", 4), E("adc", "imm", 2), E("ror", "acc", 2),
  U(E("arr", "imm", 2)), Or(E("jmp", "ind", 5), E("jmp", "ind", 6)), R("adc", "abs"),
  M("ror", "abs"), U(M("rra", "abs")) >>
Row7 == <<
  Br("bvs"), R("adc", "idy"), Or(Kil, R("adc", "id")), U(M("rra", "idy")),
  Or(E("nop", "zpx", 4), W("stz", "zpx")), R("adc", "zpx"), M("ror", "zpx"),
  U(M("rra", "zpx")), E("sei", "nil", 2), R("adc", "aby"),
  Or(E("nop", "nil", 2), E("ply", "nil", 4)), U(M("rra", "aby")),
  Or(R("nop", "abx"), E("jmp", "iax", 6)), R("adc", "abx"),
  Or(M("ror", "abx"), M6("ror", "abx")), U(M("rra", "abx")) >>
Row8 == <<
  Or(E("nop", "imm", 2), Br("bra")), W("sta", "idx"), E("nop", "imm", 2),
  U(W("sax", "idx")), W("sty", "zpg"), W("sta", "zpg"), W("stx", "zpg"),
  U(W("sax", "zpg")), E("dey", "nil", 2), Or(E("nop", "imm", 2), E("bit", "imm", 2)),
  E("txa", "nil", 2), U(E("xaa", "imm", 2)), W("sty", "abs"), W("sta", "abs"),
  W("stx", "abs"), U(W("sax", "abs")) >>
Row9 == <<
  Br("bcc"), W("sta", "idy"), Or(Kil, W("sta", "id")), U(H("ahx", "idy")),
  W("sty", "zpx"), W("sta", "zpx"), W("stx", "zpy"), U(W("sax", "zpy")),
  E("tya", "nil", 2), W("sta", "aby"), E("txs", "nil", 2), U(H("tas", "aby")),
  Or(H("shy", "abx"), W("stz", "abs")), W("sta", "abx"),
  Or(H("shx", "aby"), W("stz", "abx")), U(H("ahx", "aby")) >>
RowA == <<
  E("ldy", "imm", 2), R("lda", "idx"), E("ldx", "imm", 2), U(R("lax", "idx")),
  R("ldy", "zpg"), R("lda", "zpg"), R("ldx", "zpg"), U(R("lax", "zpg")),
  E("tay", "nil", 2), E("lda", "imm", 2), E("tax", "nil", 2), U(E("lax", "imm", 2)),
  R("ldy", "abs"), R("lda", "abs"), R("ldx", "abs"), U(R("lax", "abs")) >>
RowB == <<
  Br("bcs"), R("lda", "idy"), Or(Kil, R("lda", "id")), U(R("lax", "idy")),
  R("ldy", "zpx"), R("lda", "zpx"), R("ldx", "zpy"), U(R("lax", "zpy")),
  E("clv", "nil", 2), R("lda", "aby"), E("tsx", "nil", 2), U(R("las", "aby")),
  R("ldy", "abx"), R("lda", "abx"), R("ldx", "aby"), U(R("lax", "aby")) >>
RowC == <<
  E("cpy", "imm", 2), R("cmp", "idx"), E("nop", "imm", 2), U(M("dcp", "idx")),
  R("cpy", "zpg"), R("cmp", "zpg"), M("dec", "zpg"), U(M("dcp", "zpg")),
  E("iny", "nil", 2), E("cmp", "imm", 2), E("dex", "nil", 2), U(E("axs", "imm", 2)),
  R("cpy", "abs"), R("cmp", "abs"), M("dec", "abs"), U(M("dcp", "abs")) >>
RowD == <<
  Br("bne"), R("cmp", "idy"), Or(Kil, R("cmp", "id")), U(M("dcp", "idy")),
  E("nop", "zpx", 4), R("cmp", "zpx"), M("dec", "zpx"), U(M("dcp", "zpx")),
  E("cld", "nil", 2), R("cmp", "aby"), Or(E("nop", "nil", 2), E("phx", "nil", 3)),
  U(M("dcp", "aby")), Or(R("nop", "abx"), R("nop", "abs")), R("cmp", "abx"),
  M("dec", "abx"), U(M("dcp", "abx")) >>
RowE == <<
  E("cpx", "imm", 2), R("sbc", "idx"), E("nop", "imm", 2), U(M("isc", "idx")),
  R("cpx", "zpg"), R("sbc", "zpg"), M("inc", "zpg"), U(M("isc", "zpg")),
  E("inx", "nil", 2), E("sbc", "imm", 2), E("nop", "nil", 2), U(E("sbc", "imm", 2)),
  R("cpx", "abs"), R("sbc", "abs"), M("inc", "abs"), U(M("isc", "abs")) >>
RowF == <<
  Br("beq"), R("sbc", "idy"), Or(Kil, R("sbc", "id")), U(M("isc", "idy")),
  E("nop", "zpx", 4), R("sbc", "zpx"), M("inc", "zpx"), U(M("isc", "zpx")),
  E("sed", "nil", 2), R("sbc", "aby"), Or(E("nop", "nil", 2), E("plx", "nil", 4)),
  U(M("isc", "aby")), Or(R("nop", "abx"), R("nop", "abs")), R("sbc", "abx"),
  M("inc", "abx"), U(M("isc", "abx")) >>

Switch == <<Row0, Row1, Row2, Row3, Row4, Row5, Row6, Row7,
            Row8, Row9, RowA, RowB, RowC, RowD, RowE, RowF>>
Dispatch(cmos, opcode) ==
  Switch[(opcode \div 16) + 1][(opcode % 16) + 1][IF cmos THEN 2 ELSE 1]

-----------------------------------------------------------------------------
(* Where an operand is. Crosses: the index carried into the high byte. *)
BaseAddress(mode, s) ==
  LET operand == Peek(s.m, (s.pc + 1) % 65536)
  IN  CASE mode \in {"zpg", "zpx", "zpy"} -> operand
        [] mode \in {"abs", "abx", "aby"} -> Word(s.m, (s.pc + 1) % 65536)
        [] mode = "idx"                   -> ZeroPageWord(s.m, (operand + s.x) % 256)
        [] mode \in {"idy", "id"}         -> ZeroPageWord(s.m, operand)
Ea(mode, s) ==
  LET base == BaseAddress(mode, s)
  IN  CASE mode = "zpx"            -> (base + s.x) % 256
        [] mode = "zpy"            -> (base + s.y) % 256
        [] mode = "abx"            -> (base + s.x) % 65536
        [] mode \in {"aby", "idy"} -> (base + s.y) % 65536
        [] OTHER                   -> base
Crosses(mode, s) ==
  mode \in {"abx", "aby", "idy"} /\ BaseAddress(mode, s) \div 256 # Ea(mode, s) \div 256

(* cycles_this_instruction when the address is memory. *)
MacroCycles(macro, mode, crosses) ==
  CASE macro = "read" ->
         (CASE mode = "zpg" -> 3
            [] mode \in {"zpx", "zpy", "abs"} -> 4
            [] mode \in {"abx", "aby"} -> 4 + Flag(crosses)
            [] mode = "id" -> 5
            [] mode = "idy" -> 5 + Flag(crosses)
            [] mode = "idx" -> 6)
    [] macro \in {"write", "writeSH"} ->
         (CASE mode = "zpg" -> 3
            [] mode \in {"zpx", "zpy", "abs"} -> 4
            [] mode \in {"abx", "aby", "id"} -> 5
            [] mode \in {"idx", "idy"} -> 6)
    [] macro = "modify" ->
         (CASE mode = "zpg" -> 5
            [] mode \in {"zpx", "abs"} -> 6
            [] mode \in {"abx", "aby"} -> 7
            [] mode \in {"idx", "idy"} -> 8)
    [] macro = "modify6" -> 6 + Flag(crosses)

(* What the same macros do tick by tick for an address that needs the        *)
(* callbacks: "t" a cycle, "p" the interrupt poll, "a" an access (a cycle),  *)
(* "P" an access whose last tick polls first. bcd: decimal ADC or SBC on the  *)
(* 65C12 has macros of its own.                                              *)
Ticks(n) == [k \in 1 .. n |-> "t"]
LastAccessPolledLate == <<"t", "p", "a">>
LastAccess == <<"p", "t", "a">>
ModifyEnd  == <<"a", "P", "a">>
AbsPath(cmos, macro, bcd) ==
  CASE macro = "modify"                  -> Ticks(3) \o ModifyEnd
    [] macro = "read" /\ cmos /\ bcd -> Ticks(3) \o <<"P", "t">>
    [] OTHER                             -> Ticks(2) \o LastAccess
IndexedRead(cmos, n, crosses, bcd) ==
  CASE cmos /\ bcd -> Ticks(n + 1 + Flag(crosses)) \o <<"P", "t">>
    [] ~crosses       -> Ticks(n) \o LastAccess
    [] cmos           -> Ticks(n + 1) \o LastAccess
    [] OTHER          -> Ticks(n + 1) \o <<"P", "a">>
AbrPath(cmos, macro, crosses, bcd) ==
  CASE macro = "read"    -> IndexedRead(cmos, 2, crosses, bcd)
    [] macro = "write"   -> Ticks(3) \o (IF cmos /\ crosses THEN LastAccess ELSE <<"P", "a">>)
    [] macro = "writeSH" -> Ticks(3) \o <<"P">> \o (IF crosses THEN <<"t">> ELSE <<"a">>)
    [] macro = "modify"  ->
         (IF cmos /\ crosses THEN Ticks(4) ELSE Ticks(3) \o <<"a">>) \o ModifyEnd
    [] macro = "modify6" -> Ticks(3 + Flag(crosses)) \o ModifyEnd
IdxPath(cmos, macro, bcd) ==
  CASE macro = "modify"                  -> Ticks(5) \o ModifyEnd
    [] macro = "read" /\ cmos /\ bcd -> Ticks(5) \o <<"P", "t">>
    [] OTHER                             -> Ticks(4) \o LastAccess
IdPath(macro, bcd) == IF macro = "read" /\ bcd THEN Ticks(4) \o <<"P", "t">> ELSE Ticks(3) \o LastAccess
IdyPath(cmos, macro, crosses, bcd) ==
  CASE macro = "read"    -> IndexedRead(cmos, 3, crosses, bcd)
    [] macro = "write"   -> Ticks(4) \o (IF cmos THEN LastAccess ELSE <<"P", "a">>)
    [] macro = "writeSH" -> Ticks(4) \o <<"P">> \o (IF crosses THEN <<"t">> ELSE <<"a">>)
    [] macro = "modify"  -> Ticks(4) \o <<"a">> \o ModifyEnd
HardwarePath(cmos, macro, mode, crosses, bcd) ==
  CASE mode = "abs"             -> AbsPath(cmos, macro, bcd)
    [] mode \in {"abx", "aby"} -> AbrPath(cmos, macro, crosses, bcd)
    [] mode = "idx"             -> IdxPath(cmos, macro, bcd)
    [] mode = "id"              -> IdPath(macro, bcd)
    [] mode = "idy"             -> IdyPath(cmos, macro, crosses, bcd)

-----------------------------------------------------------------------------
(* The INTERP_INSTR macros: operand v in, the 6502 with the result in v out. *)
SetNz(s, r) == [s EXCEPT !.n = Bit7(r), !.z = Flag(r = 0)]
Adc(s, v) ==
  LET sum == s.a + v + s.c
      r   == sum % 256
  IN  SetNz([s EXCEPT !.a = r, !.c = sum \div 256,
                      !.v = Flag(Bit7(s.a) = Bit7(v) /\ Bit7(r) # Bit7(v))], r)
BcdAdc(s, v) ==
  LET sum     == s.a + v + s.c
      nibbles == (s.a % 16) + (v % 16) + s.c
      fixed   == IF nibbles >= 26 THEN sum + 6 - 16 ELSE IF nibbles >= 10 THEN sum + 6 ELSE sum
      final   == IF fixed >= 160 THEN fixed + 96 ELSE fixed
  IN  [s EXCEPT !.z = Flag(sum % 256 = 0), !.n = Bit7(fixed),
                !.v = Flag(Bit7(s.a) = Bit7(v) /\ Bit7(fixed) # Bit7(v)),
                !.c = Flag(final >= 256), !.a = final % 256]
Sbc(s, v) == Adc(s, 255 - v)
BcdSbc(s, v) ==
  LET diff == s.a - v - (1 - s.c)
      low  == ((s.a % 16) - (v % 16) - (1 - s.c)) % 256
      high == ((s.a \div 16) - (v \div 16)) % 256
      Bit4(p) == (p \div 16) % 2 = 1
      al   == IF Bit4(low) THEN (low - 6) % 16 ELSE low
      ah0  == IF Bit4(low) THEN (high - 1) % 256 ELSE high
      ah   == IF Bit4(ah0) THEN (ah0 - 6) % 16 ELSE ah0
  IN  SetNz([s EXCEPT !.c = Flag(diff >= 0),
                      !.v = Flag(Bit7(s.a) # Bit7(diff % 256) /\ Bit7(v) # Bit7(s.a)),
                      !.a = Or8(al, (16 * ah) % 256)], diff % 256)
Arr(s, v) ==
  LET both == And(s.a, v)
      half == both \div 2 + 128 * s.c
      low  == IF (both % 16) + (both % 2) > 5 THEN 16 * (half \div 16) + ((half + 6) % 16) ELSE half
      ah   == both \div 16
      carry == ah + (ah % 2) > 5
  IN  IF s.d = 1
      THEN [s EXCEPT !.n = s.c, !.z = Flag(half = 0), !.v = Flag(Bit6(both) # Bit6(half)),
                     !.c = Flag(carry), !.a = IF carry THEN (low + 96) % 256 ELSE low]
      ELSE SetNz([s EXCEPT !.v = Flag(Bit7(both) # Bit6(both)), !.a = half, !.c = Bit6(half)],
                 half)
AdcBy(s, v) == IF s.d = 1 THEN BcdAdc(s, v) ELSE Adc(s, v)
SbcBy(s, v) == IF s.d = 1 THEN BcdSbc(s, v) ELSE Sbc(s, v)
Compare(s, reg, v) == SetNz([s EXCEPT !.c = Flag(reg >= v)], (reg - v) % 256)

(* A shift: the value it leaves and the carry. *)
Shifted(type, v, c) ==
  CASE type \in {"asl", "slo"} -> <<(2 * v) % 256, Bit7(v)>>
    [] type \in {"rol", "rla"} -> <<((2 * v) % 256) + c, Bit7(v)>>
    [] type \in {"lsr", "sre", "alr"} -> <<v \div 2, v % 2>>
    [] type \in {"ror", "rra"} -> <<v \div 2 + 128 * c, v % 2>>

(* high: the high byte of the address before indexing, plus one. AHX takes   *)
(* that of the address after it.                                             *)
Alu(type, s, v, high) ==
  LET Val(t, r)  == [t EXCEPT !.val = r]
      SetA(r)    == SetNz([s EXCEPT !.a = r], r)
      SetX(r)    == SetNz([s EXCEPT !.x = r], r)
      SetY(r)    == SetNz([s EXCEPT !.y = r], r)
      shift      == Shifted(type, v, s.c)
      Carried    == [s EXCEPT !.c = shift[2], !.val = shift[1]]
  IN  CASE type = "lda" -> SetA(v)
        [] type = "ldx" -> SetX(v)
        [] type = "ldy" -> SetY(v)
        [] type = "ora" -> SetA(Or8(s.a, v))
        [] type = "and" -> SetA(And(s.a, v))
        [] type = "eor" -> SetA(Xor(s.a, v))
        [] type = "adc" -> AdcBy(s, v)
        [] type = "sbc" -> SbcBy(s, v)
        [] type = "cmp" -> Compare(s, s.a, v)
        [] type = "cpx" -> Compare(s, s.x, v)
        [] type = "cpy" -> Compare(s, s.y, v)
        [] type = "bit" -> [s EXCEPT !.z = Flag(And(s.a, v) = 0), !.n = Bit7(v), !.v = Bit6(v)]
        [] type = "nop" -> s
        [] type = "sta" -> Val(s, s.a)
        [] type = "stx" -> Val(s, s.x)
        [] type = "sty" -> Val(s, s.y)
        [] type = "stz" -> Val(s, 0)
        [] type = "sax" -> Val(s, And(s.a, s.x))
        [] type \in {"asl", "rol", "lsr", "ror"} -> SetNz(Carried, shift[1])
        [] type = "inc" -> SetNz(Val(s, (v + 1) % 256), (v + 1) % 256)
        [] type = "dec" -> SetNz(Val(s, (v - 1) % 256), (v - 1) % 256)
        [] type = "slo" -> LET r == Or8(s.a, shift[1]) IN SetNz([Carried EXCEPT !.a = r], r)
        [] type = "rla" -> LET r == And(s.a, shift[1]) IN SetNz([Carried EXCEPT !.a = r], r)
        [] type = "sre" -> LET r == Xor(s.a, shift[1]) IN SetNz([Carried EXCEPT !.a = r], r)
        [] type = "rra" -> AdcBy(Carried, shift[1])
        [] type = "dcp" -> Val(Compare(s, s.a, (v - 1) % 256), (v - 1) % 256)
        [] type = "isc" -> Val(SbcBy(s, (v + 1) % 256), (v + 1) % 256)
        [] type = "lax" -> [SetA(v) EXCEPT !.x = v]
        [] type = "las" -> LET r == And(s.s, v) IN [SetA(r) EXCEPT !.x = r, !.s = r]
        [] type = "anc" -> LET r == And(s.a, v) IN [SetA(r) EXCEPT !.c = Bit7(r)]
        [] type = "alr" -> LET r == Shifted("alr", And(s.a, v), 0)
                           IN  SetNz([s EXCEPT !.a = r[1], !.c = r[2]], r[1])
        [] type = "arr" -> Arr(s, v)
        [] type = "axs" -> LET both == And(s.a, s.x)
                           IN  [Compare(s, both, v) EXCEPT !.x = (both - v) % 256]
        [] type = "xaa" -> SetA(And(And(Or8(s.a, \hEE), s.x), v))
        [] type = "ahx" -> Val(s, And(And(s.a, s.x), high))
        [] type = "shx" -> Val(s, And(s.x, high))
        [] type = "shy" -> Val(s, And(s.y, high))
        [] type = "tas" -> LET both == And(s.a, s.x)
                           IN  [s EXCEPT !.s = both, !.val = And(both, high)]
        [] type = "tsb" -> [s EXCEPT !.z = Flag(And(s.a, v) = 0), !.val = Or8(s.a, v)]
        [] type = "trb" -> [s EXCEPT !.z = Flag(And(s.a, v) = 0), !.val = v - And(s.a, v)]
        [] type = "clc" -> [s EXCEPT !.c = 0]
        [] type = "sec" -> [s EXCEPT !.c = 1]
        [] type = "cld" -> [s EXCEPT !.d = 0]
        [] type = "sed" -> [s EXCEPT !.d = 1]
        [] type = "cli" -> [s EXCEPT !.i = 0]
        [] type = "sei" -> [s EXCEPT !.i = 1]
        [] type = "clv" -> [s EXCEPT !.v = 0]
        [] type = "tax" -> SetX(s.a)
        [] type = "txa" -> SetA(s.x)
        [] type = "tay" -> SetY(s.a)
        [] type = "tya" -> SetA(s.y)
        [] type = "tsx" -> SetX(s.s)
        [] type = "txs" -> [s EXCEPT !.s = s.x]
        [] type = "inx" -> SetX((s.x + 1) % 256)
        [] type = "iny" -> SetY((s.y + 1) % 256)
        [] type = "dex" -> SetX((s.x - 1) % 256)
        [] type = "dey" -> SetY((s.y - 1) % 256)

(* The stack, in page 1 and going round in it. *)
Push(s, v) == [s EXCEPT !.m = Poke(s.m, 256 + s.s, v), !.s = (s.s - 1) % 256]
Top(s, k) == Peek(s.m, 256 + ((s.s + k) % 256))
Drop(s, k) == [s EXCEPT !.s = (s.s + k) % 256]
FlagsByte(s) == s.c + 2 * s.z + 4 * s.i + 8 * s.d + 64 * s.v + 128 * s.n
SetFlags(s, p) ==
  [s EXCEPT !.c = p % 2, !.z = (p \div 2) % 2, !.i = (p \div 4) % 2, !.d = (p \div 8) % 2,
            !.v = Bit6(p), !.n = Bit7(p)]

Taken(type, s) ==
  CASE type = "bpl" -> s.n = 0 [] type = "bmi" -> s.n = 1
    [] type = "bvc" -> s.v = 0 [] type = "bvs" -> s.v = 1
    [] type = "bcc" -> s.c = 0 [] type = "bcs" -> s.c = 1
    [] type = "bne" -> s.z = 0 [] type = "beq" -> s.z = 1
    [] type = "bra" -> TRUE
Signed(v) == IF v >= 128 THEN v - 256 ELSE v
Branch(type, s) ==
  LET next   == (s.pc + 2) % 65536
      target == (next + Signed(Peek(s.m, s.pc + 1))) % 65536
  IN  IF ~Taken(type, s) THEN [s EXCEPT !.pc = next, !.t = @ + 2]
      ELSE [s EXCEPT !.pc = target,
                     !.t = @ + 3 + Flag(target \div 256 # next \div 256)]

(* Cases that write pc. BRK as an instruction: no interrupt intervenes. *)
Jumps == {"brk", "jsr", "jmp", "rts", "rti"}
Jump(cmos, entry, s) ==
  LET target == Word(s.m, (s.pc + 1) % 65536)
      pushed(p) == Push(Push(s, p \div 256), p % 256)
  IN  CASE entry.type = "jsr" ->
             (* The second operand byte is read after the pushes. *)
             LET after == pushed((s.pc + 2) % 65536)
             IN  [after EXCEPT !.pc = Peek(s.m, s.pc + 1) + 256 * Peek(after.m, s.pc + 2)]
        [] entry.type = "rts" -> [Drop(s, 2) EXCEPT !.pc = (Top(s, 1) + 256 * Top(s, 2) + 1) % 65536]
        [] entry.type = "rti" ->
             [SetFlags(Drop(s, 3), Top(s, 1)) EXCEPT !.pc = Top(s, 2) + 256 * Top(s, 3)]
        [] entry.type = "brk" ->
             [Push(pushed((s.pc + 2) % 65536), FlagsByte(s) + 48)
                EXCEPT !.pc = Word(s.m, 65534), !.i = 1, !.d = IF cmos THEN 0 ELSE @]
        [] entry.mode = "abs" -> [s EXCEPT !.pc = target]
        [] entry.mode = "ind" /\ ~cmos ->
             [s EXCEPT !.pc = Peek(s.m, target)
                                + 256 * Peek(s.m, 256 * (target \div 256) + ((target + 1) % 256))]
        [] entry.mode = "ind" /\ cmos -> [s EXCEPT !.pc = Word(s.m, target)]
        [] entry.mode = "iax" -> [s EXCEPT !.pc = Word(s.m, (target + s.x) % 65536)]

Stacked(type, s) ==
  CASE type = "pha" -> Push(s, s.a)
    [] type = "phx" -> Push(s, s.x)
    [] type = "phy" -> Push(s, s.y)
    [] type = "php" -> Push(s, FlagsByte(s) + 48)
    [] type = "pla" -> SetNz([Drop(s, 1) EXCEPT !.a = Top(s, 1)], Top(s, 1))
    [] type = "plx" -> SetNz([Drop(s, 1) EXCEPT !.x = Top(s, 1)], Top(s, 1))
    [] type = "ply" -> SetNz([Drop(s, 1) EXCEPT !.y = Top(s, 1)], Top(s, 1))
    [] type = "plp" -> SetFlags(Drop(s, 1), Top(s, 1))
StackTypes == {"pha", "phx", "phy", "php", "pla", "plx", "ply", "plp"}

Bytes(mode) ==
  CASE mode \in {"nil", "nil1", "acc"} -> 1
    [] mode \in {"abs", "abx", "aby", "ind", "iax"} -> 3
    [] mode = "none" -> 0
    [] OTHER -> 2

(* The operand of a case that is neither a jump nor a branch, what the       *)
(* operation makes of it, and where the result goes.                         *)
OperandOf(entry, s) ==
  CASE entry.macro # "inline" -> Peek(s.m, Ea(entry.mode, s))
    [] entry.mode = "imm"     -> Peek(s.m, s.pc + 1)
    [] entry.mode = "acc"     -> s.a
    [] OTHER                  -> 0
High(entry, s) ==
  CASE entry.macro # "writeSH" -> 0
    [] entry.type = "ahx"      -> (Ea(entry.mode, s) \div 256 + 1) % 256
    [] OTHER                   -> (BaseAddress(entry.mode, s) \div 256 + 1) % 256
Operated(entry, s) ==
  CASE entry.type = "kil"       -> s
    [] entry.type \in StackTypes -> Stacked(entry.type, s)
    [] OTHER                    -> Alu(entry.type, s, OperandOf(entry, s), High(entry, s))
CyclesOf(cmos, entry, s) ==
  Flag(cmos /\ s.d = 1 /\ entry.type \in {"adc", "sbc"})
    + (IF entry.macro = "inline" THEN entry.cycles
       ELSE MacroCycles(entry.macro, entry.mode, Crosses(entry.mode, s)))
Finish(cmos, entry, s, done) ==
  [done EXCEPT !.a = IF entry.mode = "acc" THEN done.val ELSE @,
               !.m = IF entry.macro \in {"inline", "read"} THEN @
                     ELSE Poke(@, Ea(entry.mode, s), done.val),
               !.pc = (@ + Bytes(entry.mode)) % 65536,
               !.t = @ + CyclesOf(cmos, entry, s)]

(* One instruction. *)
StepOf(cmos, entry, s) ==
  IF entry.macro = "branch" THEN Branch(entry.type, s)
  ELSE IF entry.type \in Jumps THEN [Jump(cmos, entry, s) EXCEPT !.t = @ + entry.cycles]
  ELSE Finish(cmos, entry, s, Operated(entry, s))
Step(cmos, s) == StepOf(cmos, Dispatch(cmos, Peek(s.m, s.pc)), s)
=============================================================================
