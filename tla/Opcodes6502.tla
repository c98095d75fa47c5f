----------------------------- MODULE Opcodes6502 -----------------------------
(***************************************************************************)
(* The opcode tables of src/defs_6502.c: what each of the 256 opcodes of the *)
(* NMOS 6502 and of the CMOS 65C12 does, how it finds its operand, whether   *)
(* it reads or writes memory, its least number of cycles, and which flags    *)
(* and registers an operation uses and changes. The JIT and the fast         *)
(* interpreter ("inturbo") are driven by these tables; the interpreter in    *)
(* src/interp.c is not: it has the same facts once more, as code.            *)
(*                                                                         *)
(* An opcode is a number 0 .. 255, an operation and a mode are the names the *)
(* source gives them (k_ora is "ora"), "none" is the zero of the mode table. *)
(***************************************************************************)
EXTENDS Integers, Sequences

Opcodes == 0 .. 255

(* A table is laid out as in the source: 16 rows of 16. *)
At(table, opcode) == table[(opcode \div 16) + 1][(opcode % 16) + 1]

s_optypes_6502 == <<
  <<"brk", "ora", "kil", "slo", "nop", "ora", "asl", "slo",
    "php", "ora", "asl", "anc", "nop", "ora", "asl", "slo">>,
  <<"bpl", "ora", "kil", "slo", "nop", "ora", "asl", "slo",
    "clc", "ora", "nop", "slo", "nop", "ora", "asl", "slo">>,
  <<"jsr", "and", "kil", "rla", "bit", "and", "rol", "rla",
    "plp", "and", "rol", "anc", "bit", "and", "rol", "rla">>,
  <<"bmi", "and", "kil", "rla", "nop", "and", "rol", "rla",
    "sec", "and", "nop", "rla", "nop", "and", "rol", "rla">>,
  <<"rti", "eor", "kil", "sre", "nop", "eor", "lsr", "sre",
    "pha", "eor", "lsr", "alr", "jmp", "eor", "lsr", "sre">>,
  <<"bvc", "eor", "kil", "sre", "nop", "eor", "lsr", "sre",
    "cli", "eor", "nop", "sre", "nop", "eor", "lsr", "sre">>,
  <<"rts", "adc", "kil", "rra", "nop", "adc", "ror", "rra",
    "pla", "adc", "ror", "arr", "jmp", "adc", "ror", "rra">>,
  <<"bvs", "adc", "kil", "rra", "nop", "adc", "ror", "rra",
    "sei", "adc", "nop", "rra", "nop", "adc", "ror", "rra">>,
  <<"nop", "sta", "nop", "sax", "sty", "sta", "stx", "sax",
    "dey", "nop", "txa", "xaa", "sty", "sta", "stx", "sax">>,
  <<"bcc", "sta", "kil", "ahx", "sty", "sta", "stx", "sax",
    "tya", "sta", "txs", "tas", "shy", "sta", "shx", "ahx">>,
  <<"ldy", "lda", "ldx", "lax", "ldy", "lda", "ldx", "lax",
    "tay", "lda", "tax", "lax", "ldy", "lda", "ldx", "lax">>,
  <<"bcs", "lda", "kil", "lax", "ldy", "lda", "ldx", "lax",
    "clv", "lda", "tsx", "las", "ldy", "lda", "ldx", "lax">>,
  <<"cpy", "cmp", "nop", "dcp", "cpy", "cmp", "dec", "dcp",
    "iny", "cmp", "dex", "axs", "cpy", "cmp", "dec", "dcp">>,
  <<"bne", "cmp", "kil", "dcp", "nop", "cmp", "dec", "dcp",
    "cld", "cmp", "nop", "dcp", "nop", "cmp", "dec", "dcp">>,
  <<"cpx", "sbc", "nop", "isc", "cpx", "sbc", "inc", "isc",
    "inx", "sbc", "nop", "sbc", "cpx", "sbc", "inc", "isc">>,
  <<"beq", "sbc", "kil", "isc", "nop", "sbc", "inc", "isc",
    "sed", "sbc", "nop", "isc", "nop", "sbc", "inc", "isc">> >>

(* Rows of modes come in two shapes: even and odd high digits. *)
EvenRow(c0, c2, cA, cC) ==
  <<c0, "idx", c2, "idx", "zpg", "zpg", "zpg", "zpg",
    "nil", "imm", cA, "imm", cC, "abs", "abs", "abs">>
OddRow(zp, ab) ==
  <<"rel", "idy", "none", "idy", "zpx", "zpx", zp, zp,
    "nil", "aby", "nil", "aby", "abx", "abx", ab, ab>>
s_opmodes_6502 == <<
  EvenRow("imm", "none", "acc", "abs"), OddRow("zpx", "abx"),
  EvenRow("abs", "none", "acc", "abs"), OddRow("zpx", "abx"),
  EvenRow("nil", "none", "acc", "abs"), OddRow("zpx", "abx"),
  EvenRow("nil", "none", "acc", "ind"), OddRow("zpx", "abx"),
  EvenRow("imm", "imm", "nil", "abs"), OddRow("zpy", "aby"),
  EvenRow("imm", "imm", "nil", "abs"), OddRow("zpy", "aby"),
  EvenRow("imm", "imm", "nil", "abs"), OddRow("zpx", "abx"),
  EvenRow("imm", "imm", "nil", "abs"), OddRow("zpx", "abx") >>

Undocumented == {"sax", "alr", "slo", "shy", "anc", "lax", "dcp", "sre", "rla", "ahx",
                 "xaa", "rra", "axs", "isc", "arr", "tas", "las", "shx"}

(* What the 65C12 adds to, or has instead of, the documented NMOS opcodes. *)
Cmos65c12(opcode) ==
  CASE opcode % 16 \in {3, 7, 11, 15}                              -> <<"nop", "nil1">>
    [] opcode \in {\h02, \h22, \h42, \h62, \h82, \hC2, \hE2} -> <<"nop", "imm">>
    [] opcode \in {\h5C, \hDC, \hFC}                           -> <<"nop", "abs">>
    [] opcode = \h04 -> <<"tsb", "zpg">>   [] opcode = \h0C -> <<"tsb", "abs">>
    [] opcode = \h14 -> <<"trb", "zpg">>   [] opcode = \h1C -> <<"trb", "abs">>
    [] opcode = \h1A -> <<"inc", "acc">>   [] opcode = \h3A -> <<"dec", "acc">>
    [] opcode = \h34 -> <<"bit", "zpx">>   [] opcode = \h3C -> <<"bit", "abx">>
    [] opcode = \h64 -> <<"stz", "zpg">>   [] opcode = \h74 -> <<"stz", "zpx">>
    [] opcode = \h9C -> <<"stz", "abs">>   [] opcode = \h9E -> <<"stz", "abx">>
    [] opcode = \h5A -> <<"phy", "nil">>   [] opcode = \h7A -> <<"ply", "nil">>
    [] opcode = \hDA -> <<"phx", "nil">>   [] opcode = \hFA -> <<"plx", "nil">>
    [] opcode = \h7C -> <<"jmp", "iax">>   [] opcode = \h80 -> <<"bra", "rel">>
    [] opcode = \h89 -> <<"bit", "imm">>   [] opcode = \h12 -> <<"ora", "id">>
    [] opcode = \h32 -> <<"and", "id">>    [] opcode = \h52 -> <<"eor", "id">>
    [] opcode = \h72 -> <<"adc", "id">>    [] opcode = \h92 -> <<"sta", "id">>
    [] opcode = \hB2 -> <<"lda", "id">>    [] opcode = \hD2 -> <<"cmp", "id">>
    [] opcode = \hF2 -> <<"sbc", "id">>
    [] OTHER -> <<At(s_optypes_6502, opcode), At(s_opmodes_6502, opcode)>>

OpType(cmos, opcode) ==
  IF cmos THEN Cmos65c12(opcode)[1] ELSE At(s_optypes_6502, opcode)
OpMode(cmos, opcode) ==
  IF cmos THEN Cmos65c12(opcode)[2] ELSE At(s_opmodes_6502, opcode)

(* g_opmodelens: bytes of an instruction. *)
ModeLength(mode) ==
  CASE mode \in {"none", "nil", "nil1", "acc"}                        -> 1
    [] mode \in {"imm", "zpg", "zpx", "zpy", "idx", "idy", "rel", "id"} -> 2
    [] mode \in {"abs", "abx", "aby", "ind", "iax"}                   -> 3

MemoryModes == {"zpg", "abs", "zpx", "zpy", "abx", "aby", "idx", "idy", "ind", "iax", "id"}
StoresNmos == {"sta", "stx", "sty", "sax", "shy", "ahx", "tas", "shx"}
Stores == {"sta", "stx", "sty", "sax", "shy", "ahx", "tas", "shx", "stz"}
Modifiers == {"asl", "rol", "lsr", "ror", "inc", "dec", "slo", "dcp", "sre", "rla", "rra",
              "isc", "tsb", "trb"}

(* defs_6502_calculate_opmem: a subset of {"read", "write"}. *)
OpMem(type, mode) ==
  IF mode \notin MemoryModes \/ type \in {"jmp", "jsr"} THEN {}
  ELSE IF type \in Stores THEN {"write"}
  ELSE IF type \in Modifiers THEN {"read", "write"}
  ELSE {"read"}

(* defs_6502_calculate_opcycles: the least number of cycles. *)
OpCycles(type, mode) ==
  LET mem == OpMem(type, mode)
      rmw == mem = {"read", "write"}
      Modified(n) == IF rmw THEN n + 2 ELSE n
      Indexed(n)  == IF rmw THEN n + 3 ELSE IF mem = {"write"} THEN n + 1 ELSE n
  IN  CASE type = "brk"                           -> 7
        [] type \in {"pha", "phx", "phy", "php"}  -> 3
        [] type \in {"pla", "plx", "ply", "plp"}  -> 4
        [] type \in {"jsr", "rts", "rti"}         -> 6
        [] type = "jmp" -> (CASE mode = "abs" -> 3 [] mode = "ind" -> 5 [] mode = "iax" -> 6)
        [] OTHER ->
           CASE mode \in {"nil", "acc", "rel", "imm"} -> 2
             [] mode = "zpg"                          -> Modified(3)
             [] mode \in {"abs", "zpx", "zpy"}        -> Modified(4)
             [] mode \in {"abx", "aby"}               -> Indexed(4)
             [] mode = "idy"                          -> Indexed(5)
             [] mode = "idx"                          -> Modified(6)
             [] mode = "id"                           -> 5
             [] mode = "nil1"                         -> 1
             [] mode = "none"                         -> 0

(* g_opbranch: 0 the next opcode always follows, 1 never, 2 perhaps. *)
AlwaysLeaves == {"kil", "???", "brk", "jsr", "rti", "jmp", "rts", "bra"}
MayBranch == {"bpl", "bmi", "bvc", "bvs", "bcc", "bcs", "bne", "beq"}

(* The remaining tables, as the set of operations that have the property. *)
UsesCarry == {"php", "rol", "adc", "ror", "bcc", "bcs", "sbc", "rla", "arr"}
UsesOverflow == {"php", "bvc", "bvs"}
ChangesCarry ==
  {"asl", "clc", "plp", "rol", "sec", "rti", "lsr", "adc", "ror", "cpy", "cmp", "cpx", "sbc",
   "alr", "slo", "anc", "dcp", "sre", "rla", "rra", "axs", "isc", "arr"}
ChangesOverflow == {"bit", "plp", "rti", "adc", "clv", "sbc", "rra", "isc", "arr"}
SetsRegister(type) ==
  CASE type \in {"ora", "and", "eor", "adc", "pla", "txa", "tya", "lda", "sbc", "alr", "slo",
                 "anc", "lax", "sre", "rla", "xaa", "rra", "isc", "arr", "las"} -> "a"
    [] type \in {"ldx", "tax", "tsx", "dex", "inx", "axs", "plx"}              -> "x"
    [] type \in {"dey", "ldy", "tay", "iny", "ply"}                           -> "y"
    [] OTHER                                                                  -> "-"
ChangesNz ==
  {"ora", "asl", "and", "bit", "plp", "rol", "rti", "eor", "lsr", "adc", "pla", "ror", "dey",
   "txa", "tya", "ldy", "lda", "ldx", "tay", "tax", "tsx", "cpy", "cmp", "cpx", "dec", "iny",
   "dex", "sbc", "inx", "inc", "alr", "slo", "anc", "lax", "dcp", "sre", "rla", "xaa", "rra",
   "axs", "isc", "arr", "tas", "tsb", "trb", "plx", "ply"}
=============================================================================
