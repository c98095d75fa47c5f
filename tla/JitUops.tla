-------------------------------- MODULE JitUops --------------------------------
(***************************************************************************)
(* The JIT's micro-operations ("uops") and what the x64 backend makes of     *)
(* them: asm_jit_rewrite (src/asm/x64/asm_jit_x64.c) merges the uops of one  *)
(* 6502 opcode into the host's instructions, and asm_emit_jit emits host     *)
(* code for each uop that is left.                                           *)
(*                                                                         *)
(* A uop is a record: op (k_opcode_ADC is "ADC"), v1 and v2, elim and merged *)
(* (is_eliminated, is_merged), tag (backend_tag: the addressing mode the     *)
(* host instruction has taken over, "-" if none) and seg, the view of memory *)
(* it goes through: "ind" faults where hardware registers may be, "full"     *)
(* never does.                                                               *)
(*                                                                         *)
(* The host's state is that of the 6502 with n, z, c, v the host's own flags *)
(* (c is a borrow after a subtraction), val the value register, and besides  *)
(* it sc and so, the saved carry and overflow; ea, the address register; cd, *)
(* the countdown; inv, the addresses whose host code has been overwritten    *)
(* with a call to the compiler; irq, whether an interrupt line is up; out,   *)
(* how it left the block ("" if it has not).                                 *)
(***************************************************************************)
EXTENDS Interp6502

UopOf(op, v1, v2) ==
  [op |-> op, v1 |-> v1, v2 |-> v2, elim |-> FALSE, merged |-> FALSE, tag |-> "-", seg |-> "ind"]
Uop0(op) == UopOf(op, 0, 0)
Uop1(op, v1) == UopOf(op, v1, 0)

Branches == {"BCC", "BCS", "BEQ", "BNE", "BMI", "BPL", "BVC", "BVS"}
MainUops ==
  {"ADC", "ADD", "ALR", "AND", "ASL_acc", "ASL_value", "BIT", "CLC", "CLD", "CLI", "CLV", "CMP",
   "CPX", "CPY", "DEC_value", "DEX", "DEY", "EOR", "INC_value", "INX", "INY", "JMP",
   "JMP_SCRATCH_n", "LDA", "LDA_zero_and_flags", "LDX", "LDX_zero_and_flags", "LDY",
   "LDY_zero_and_flags", "LSR_acc", "LSR_value", "NOP", "ORA", "PHA", "PHP", "PLA", "PLP",
   "ROL_acc", "ROL_value", "ROR_acc", "ROR_value", "SAX", "SBC", "SEC", "SED", "SEI", "SLO",
   "ST_IMM", "STA", "STX", "STY", "SUB", "TAX", "TAY", "TSX", "TXS", "TXA", "TYA"} \cup Branches
FlagsUops == {"flags_nz_a", "flags_nz_x", "flags_nz_y", "flags_nz_value", "flags_nz_mem"}

(* Positions in a sequence of uops; 0 where there is none. *)
FirstUop(uops, ops) ==
  LET at == {i \in DOMAIN uops : uops[i].op \in ops}
  IN  IF at = {} THEN 0 ELSE CHOOSE i \in at : \A j \in at : i <= j
HasUop(uops, op) == \E i \in DOMAIN uops : uops[i].op = op

-----------------------------------------------------------------------------
(* asm_breakdown_from_6502: which uop has which part in the opcode. *)
ModeUops ==
  {"value_set", "addr_set", "value_load_16bit_wrap", "addr_load_16bit_wrap",
   "addr_load_16bit_nowrap", "addr_load_8bit", "addr_add_x_8bit", "addr_add_y_8bit",
   "addr_add_x", "addr_add_y", "addr_add_base_y", "addr_add_base_constant"}
ModeUop(uops) ==
  LET at == {i \in DOMAIN uops : uops[i].op \in ModeUops /\ (uops[i].op = "addr_set" => ~uops[i].elim)}
  IN  IF at = {} THEN 0 ELSE CHOOSE i \in at : \A j \in at : i >= j
Breakdown(uops) ==
  [main |-> FirstUop(uops, MainUops),
   mode |-> ModeUop(uops),
   load |-> FirstUop(uops, {"value_load"}),
   store |-> FirstUop(uops, {"value_store"}),
   load_carry |-> FirstUop(uops, {"load_carry"}),
   save_carry |-> FirstUop(uops, {"save_carry"}),
   load_overflow |-> FirstUop(uops, {"load_overflow"}),
   nz_flags |-> FirstUop(uops, FlagsUops \ {"flags_nz_mem"}),
   inv |-> FirstUop(uops, {"write_inv"}),
   addr_check |-> FirstUop(uops, {"addr_check"}),
   page_crossing |-> FirstUop(uops, {"check_page_crossing_x", "check_page_crossing_y"})]

(* The uops the host has an instruction for, by addressing mode. A mode      *)
(* without one fails an assertion of the compiler, here the tag "assert".    *)
Arithmetic == {"ADC", "ADD", "AND", "CMP", "EOR", "LDA", "ORA", "SBC", "SUB"}
Supports(tag) ==
  CASE tag = "IMM" -> Arithmetic \cup {"ALR", "CPX", "CPY", "LDX", "LDY", "NOP"}
    [] tag \in {"ZPG", "ABS"} ->
         Arithmetic \cup {"ASL_value", "BIT", "CPX", "CPY", "DEC_value", "INC_value", "LDX", "LDY",
                          "LSR_value", "NOP", "ROL_value", "ROR_value", "SAX", "SLO", "ST_IMM",
                          "STA", "STX", "STY"}
    [] tag = "addr" -> Arithmetic \cup {"LDX", "LDY", "NOP", "STA", "STX", "STY"}
    [] tag = "addr_Y" -> Arithmetic \cup {"LDX", "STA"}
    [] tag = "addr_n" -> Arithmetic \cup {"STA"}
    [] tag = "addr_X" -> Arithmetic \cup {"LDY", "STA"}
    [] tag = "ABX" -> Arithmetic \cup {"LDY", "NOP", "STA"}
    [] tag = "ABY" -> Arithmetic \cup {"LDX", "NOP", "STA"}
HostMode(op, tag) == IF op \in Supports(tag) THEN tag ELSE "assert"

IsMemoryAlwaysRam(addr) == addr < RomStart
Segment(addr, is_write, is_abn) ==
  IF IsMemoryAlwaysRam(addr) /\ (is_abn => IsMemoryAlwaysRam((addr + 255) % 65536))
  THEN "ind" ELSE "full"

Drop1(u) == [u EXCEPT !.elim = TRUE]
Merge1(u) == [u EXCEPT !.elim = TRUE, !.merged = TRUE]
Tag1(u, tag, v1) == [u EXCEPT !.tag = tag, !.v1 = v1]
At1(uops, i, F(_)) == IF i = 0 THEN uops ELSE [uops EXCEPT ![i] = F(@)]

(* The carry, the overflow and the flags: x64 borrows where a 6502 carries,  *)
(* and most of its arithmetic sets the sign and zero flags by itself.        *)
SetsHostNz ==
  {"ADC", "ADD", "ALR", "AND", "ASL_acc", "ASL_value", "CMP", "CPX", "CPY", "DEC_value", "DEX",
   "DEY", "EOR", "INC_value", "INX", "INY", "LSR_acc", "LSR_value", "ORA", "SBC", "SLO", "SUB"}
RewriteLoadCarry(main, u) ==
  CASE main \in {"ADC", "ROL_acc", "ROL_value", "ROR_acc", "ROR_value"} -> [u EXCEPT !.tag = "calc"]
    [] main = "PHP" -> Merge1(u)
    [] main = "SBC" -> [u EXCEPT !.op = "load_carry_inverted"]
    [] OTHER        -> u
RewriteSaveCarryNoCompare(main, u) ==
  CASE main \in {"SBC", "SUB"} -> [u EXCEPT !.op = "save_carry_inverted"]
    [] main = "PLP" -> Merge1(u)
    [] OTHER        -> u
RewriteSaveCarry(main, u) ==
  CASE main \in {"SBC", "SUB", "CMP", "CPX", "CPY"} -> [u EXCEPT !.op = "save_carry_inverted"]
    [] main = "PLP" -> Merge1(u)
    [] OTHER        -> u
RewriteFlags(uops, b) ==
  LET main == uops[b.main].op
      carry(u)    == RewriteLoadCarry(main, u)
      saved(u)    == RewriteSaveCarry(main, u)
      overflow(u) == IF main = "PHP" THEN Merge1(u) ELSE u
      nz(u)       == IF main \in SetsHostNz THEN Merge1(u) ELSE u
      by_n(u)     == IF b.mode = 0 /\ u.v1 # 1
                        /\ u.op \in {"ASL_acc", "LSR_acc", "ROL_acc", "ROR_acc",
                                     "INX", "INY", "DEX", "DEY"}
                     THEN [u EXCEPT !.tag = "n"] ELSE u
  IN  At1(At1(At1(At1(At1(uops, b.load_carry, carry), b.save_carry, saved),
                  b.load_overflow, overflow), b.nz_flags, nz), b.main, by_n)

(* The addressing mode. base is the place of the uop with the address: it is *)
(* always dropped, its address goes to whoever takes the mode over.          *)
NoLoadStore(uops, b) == At1(At1(uops, b.load, Drop1), b.store, Drop1)
IsRmw(b) == b.load # 0 /\ b.store # 0
Inv(uops, b, tag, addr) == At1(uops, b.inv, LAMBDA u : Tag1(u, tag, addr))
Crossing(uops, b, tag, addr) == At1(uops, b.page_crossing, LAMBDA u : Tag1(u, tag, addr))
MainTakes(uops, b, tag, v1) == [uops EXCEPT ![b.main] = Tag1(@, HostMode(@.op, tag), v1)]
(* value1 of ST_IMM carries its segment, and stays apart from the operand. *)
MainSegment(uops, b, addr, is_abn) ==
  [uops EXCEPT ![b.main].seg = Segment(addr, b.load = 0, is_abn)]
ThroughAddr(uops, b) ==
  IF IsRmw(b) THEN uops
  ELSE NoLoadStore([uops EXCEPT ![b.main].tag = HostMode(uops[b.main].op, "addr")], b)

RewriteAddrSet(uops, b) ==
  LET addr == uops[b.mode].v1
      main == uops[b.main].op
      tag  == IF addr < 256 THEN "ZPG" ELSE "ABS"
      nz_mem == IF main \notin {"ROL_value", "ROR_value"} THEN uops
                ELSE At1(uops, b.nz_flags, LAMBDA u : [u EXCEPT !.op = "flags_nz_mem", !.v1 = addr])
      dropped == Inv([nz_mem EXCEPT ![b.mode].elim = TRUE], b, "ABS", addr)
  IN  IF main = "BIT"
      THEN (* The load happens where the mode's uop is. *)
           NoLoadStore([dropped EXCEPT ![b.mode] =
                          [Tag1(@, "load", addr) EXCEPT !.elim = FALSE,
                                                        !.seg = Segment(addr, FALSE, FALSE)]], b)
      ELSE IF IsRmw(b) /\ ~IsMemoryAlwaysRam(addr)
      THEN [dropped EXCEPT ![b.load] = Tag1(@, "ABS", addr), ![b.store] = Tag1(@, "ABS", addr)]
      ELSE NoLoadStore(MainSegment(MainTakes(dropped, b, tag, addr), b, addr, FALSE), b)

RewriteAbn(uops, b, reg) ==
  LET addr == uops[b.mode - 1].v1
      tag  == IF reg = "x" THEN "ABX" ELSE "ABY"
      done == Crossing(Inv([uops EXCEPT ![b.mode] = Merge1(@), ![b.mode - 1].elim = TRUE],
                           b, tag, addr), b, tag, addr)
  IN  IF IsRmw(b) /\ reg = "x"
      THEN [done EXCEPT ![b.load] = Tag1(@, "ABX", addr), ![b.store] = Tag1(@, "ABX", addr)]
      ELSE NoLoadStore(MainSegment(MainTakes(done, b, tag, addr), b, addr, TRUE), b)

(* An operand that is read from the code when it runs. *)
RewriteDynamicIndexed(uops, b, reg) ==
  LET addr == uops[b.mode - 2].v1
      tag  == IF reg = "x" THEN "addr_X" ELSE "addr_Y"
      done == [uops EXCEPT ![b.mode - 2].elim = TRUE,
                           ![b.mode - 1] = Tag1(@, "IND_nowrap", addr)]
  IN  IF IsRmw(b) /\ reg = "x" THEN done
      ELSE NoLoadStore(MainTakes(Crossing(Inv([done EXCEPT ![b.mode] = Merge1(@)], b, tag, 0),
                                          b, tag, 0), b, tag, uops[b.main].v1), b)

RewriteIdy(uops, b) ==
  LET addr == uops[b.mode - 2].v1
      n    == uops[b.mode].v1
      done == [uops EXCEPT ![b.mode - 2].elim = TRUE, ![b.mode - 1] = Tag1(@, "IDY_load", addr),
                           ![b.mode] = Merge1(@)]
  IN  IF uops[b.mode].op = "addr_add_base_y"
      THEN NoLoadStore(MainTakes(Crossing(Inv(done, b, "addr_Y", 0), b, "addr_Y", 0),
                                 b, "addr_Y", uops[b.main].v1), b)
      ELSE NoLoadStore(MainTakes(Inv(done, b, "addr_n", n), b, "addr_n", n), b)

(* The uop before the mode's has the address, the mode's uop the tag. *)
RewriteLoaded(uops, i, tag) ==
  [uops EXCEPT ![i - 1].elim = TRUE, ![i] = Tag1(@, tag, uops[i - 1].v1)]

RewriteMode(uops, b) ==
  LET op == uops[b.mode].op
  IN  CASE op = "value_load_16bit_wrap"  -> RewriteLoaded(uops, b.mode, "IND")
        [] op = "addr_load_16bit_nowrap" -> ThroughAddr(RewriteLoaded(uops, b.mode, "IND_nowrap"), b)
        [] op = "addr_load_8bit"         -> ThroughAddr(RewriteLoaded(uops, b.mode, "IND8"), b)
        [] op = "value_set"              ->
             MainTakes([uops EXCEPT ![b.mode].elim = TRUE], b, "IMM", uops[b.mode].v1)
        [] op = "addr_set"               -> RewriteAddrSet(uops, b)
        [] op = "addr_load_16bit_wrap"   -> ThroughAddr(RewriteLoaded(uops, b.mode - 1, "ZPX"), b)
        [] op = "addr_add_x_8bit"        -> ThroughAddr(RewriteLoaded(uops, b.mode, "ZPX"), b)
        [] op = "addr_add_y_8bit"        -> ThroughAddr(RewriteLoaded(uops, b.mode, "ZPY"), b)
        [] op \in {"addr_add_x", "addr_add_y"} ->
             LET reg == IF op = "addr_add_x" THEN "x" ELSE "y"
             IN  IF uops[b.mode - 1].op = "addr_set" THEN RewriteAbn(uops, b, reg)
                 ELSE RewriteDynamicIndexed(uops, b, reg)
        [] op \in {"addr_add_base_y", "addr_add_base_constant"} -> RewriteIdy(uops, b)

(* A rotation that stays a load, a rotate and a store keeps its own flags. *)
RewriteRotate(uops, b) ==
  IF uops[b.main].op \in {"ROL_value", "ROR_value"} /\ uops[b.main].tag = "-"
  THEN At1(At1(uops, b.save_carry, Merge1), b.nz_flags, Merge1)
  ELSE uops

Rewrite(uops) ==
  LET b == Breakdown(uops)
  IN  IF b.main = 0 THEN uops
      ELSE IF b.mode = 0 THEN RewriteFlags(uops, b)
      ELSE RewriteRotate(RewriteMode(At1(RewriteFlags(uops, b), b.addr_check, Drop1), b), b)

-----------------------------------------------------------------------------
(* The host. Whatever the code writes goes through Store, which loses what   *)
(* is written to a ROM.                                                      *)
Host(s, cd, irq) ==
  s @@ [sc |-> s.c, so |-> s.v, ea |-> 0, cd |-> cd, inv |-> {}, irq |-> irq, out |-> ""]
Leave(h, how, pc) == [h EXCEPT !.out = how, !.pc = pc]

Address(u, h) ==
  CASE u.tag \in {"ZPG", "ABS", "load"} -> u.v1
    [] u.tag = "ABX"                    -> u.v1 + h.x
    [] u.tag = "ABY"                    -> u.v1 + h.y
    [] u.tag = "addr_n"                 -> h.ea + u.v1
    [] u.tag = "addr_X"                 -> h.ea + h.x
    [] u.tag = "addr_Y"                 -> h.ea + h.y
    [] u.tag \in {"addr", "-"}          -> h.ea
(* K_BBC_MEM_INACCESSIBLE_OFFSET and K_BBC_MEM_OS_ROM_OFFSET. *)
ReadFaults(u, h) == u.seg = "ind" /\ Address(u, h) >= \hF000
WriteFaults(u, h) == u.seg = "ind" /\ Address(u, h) >= \hC000
Fault(h) == [h EXCEPT !.out = "fault"]
Loaded(u, h) == Peek(h.m, Address(u, h) % 65536)
Store(u, h, v) ==
  IF WriteFaults(u, h) THEN Fault(h) ELSE [h EXCEPT !.m = Poke(@, Address(u, h) % 65536, v)]

(* What host instructions do to the host's flags. *)
Test(h, r) == [SetNz(h, r) EXCEPT !.c = 0, !.v = 0]
Borrowing(h) == [h EXCEPT !.c = 1 - @]
Subtract(h, v, borrow) == Borrowing(Sbc([h EXCEPT !.c = 1 - borrow], v))
Compared(h, reg, v) == [Subtract([h EXCEPT !.a = reg], v, 0) EXCEPT !.a = h.a]
Stepped(h, r, delta) ==
  [SetNz(h, r) EXCEPT !.v = Flag(r = (IF delta > 0 THEN 128 ELSE 127))]
Shift(h, type, v) ==
  LET r == Shifted(type, v, h.c)
      set == [h EXCEPT !.val = r[1], !.c = r[2],
                       !.v = CASE type = "lsr" -> Bit7(v)
                               [] type = "ror" -> (Bit7(r[1]) + Bit6(r[1])) % 2
                               [] OTHER        -> (Bit7(r[1]) + r[2]) % 2]
  IN  IF type \in {"asl", "lsr"} THEN SetNz(set, r[1]) ELSE set
RECURSIVE ShiftBy(_, _, _)
ShiftBy(h, type, n) == IF n = 0 THEN h ELSE ShiftBy(Shift(h, type, h.val), type, n - 1)
ReadUops == Arithmetic \cup {"ADC", "ALR", "CPX", "CPY", "LDX", "LDY"}
Read(op, h, v) ==
  CASE op = "LDA" -> [h EXCEPT !.a = v]
    [] op = "LDX" -> [h EXCEPT !.x = v]
    [] op = "LDY" -> [h EXCEPT !.y = v]
    [] op \in {"ADC", "ADD"} -> Adc([h EXCEPT !.c = IF op = "ADD" THEN 0 ELSE @], v)
    [] op \in {"SBC", "SUB"} -> Subtract(h, v, IF op = "SUB" THEN 0 ELSE h.c)
    [] op \in {"CMP", "CPX", "CPY"} ->
         Compared(h, CASE op = "CMP" -> h.a [] op = "CPX" -> h.x [] op = "CPY" -> h.y, v)
    [] op = "AND" -> LET r == And(h.a, v) IN Test([h EXCEPT !.a = r], r)
    [] op = "ORA" -> LET r == Or8(h.a, v) IN Test([h EXCEPT !.a = r], r)
    [] op = "EOR" -> LET r == Xor(h.a, v) IN Test([h EXCEPT !.a = r], r)
    [] op = "ALR" -> LET r == Shift(h, "lsr", And(h.a, v)) IN [r EXCEPT !.a = r.val, !.val = h.val]
ExecRead(u, h) ==
  IF u.tag \notin {"IMM", "-"} /\ ReadFaults(u, h) THEN Fault(h)
  ELSE Read(u.op, h, CASE u.tag = "IMM" -> u.v1 [] u.tag = "-" -> h.val [] OTHER -> Loaded(u, h))

StoreUops == {"STA", "STX", "STY", "SAX", "ST_IMM"}
ExecStore(u, h) ==
  LET v == CASE u.op = "STA" -> h.a [] u.op = "STX" -> h.x [] u.op = "STY" -> h.y
             [] u.op = "SAX" -> And(h.a, h.x) [] u.op = "ST_IMM" -> u.v2
  IN  IF u.tag = "-" THEN [h EXCEPT !.val = v]
      ELSE IF u.op = "SAX" THEN Store(u, [h EXCEPT !.v = 0, !.val = v], v) ELSE Store(u, h, v)

ModifyUops == {"ASL_value", "LSR_value", "ROL_value", "ROR_value", "INC_value", "DEC_value", "SLO"}
ShiftType(op) ==
  CASE op \in {"ASL_value", "ASL_acc"} -> "asl" [] op \in {"LSR_value", "LSR_acc"} -> "lsr"
    [] op \in {"ROL_value", "ROL_acc"} -> "rol" [] op \in {"ROR_value", "ROR_acc"} -> "ror"
Counted(h, v, delta) == Stepped([h EXCEPT !.val = v], v, delta)
SloUop(h, v, t, r) == [Test([t EXCEPT !.a = r], r) EXCEPT !.c = Bit7(v), !.val = t.val]
Modify(op, h, v) ==
  CASE op \in {"INC_value", "DEC_value"} ->
         LET delta == IF op = "INC_value" THEN 1 ELSE -1 IN Counted(h, (v + delta) % 256, delta)
    [] op = "SLO" -> LET t == Shifted("asl", v, 0)[1]
                     IN  SloUop(h, v, [h EXCEPT !.val = t], Or8(h.a, t))
    [] OTHER      -> Shift(h, ShiftType(op), v)
Modified(u, h, done) ==
  IF u.tag # "-" THEN [Store(u, done, done.val) EXCEPT !.val = IF u.op = "SLO" THEN @ ELSE h.val]
  ELSE IF u.op \in {"ROL_value", "ROR_value"} THEN Test([done EXCEPT !.sc = done.c], done.val)
  ELSE done
ExecModify(u, h) ==
  IF u.tag # "-" /\ WriteFaults(u, h) THEN Fault(h)
  ELSE Modified(u, h, Modify(u.op, h, IF u.tag = "-" THEN h.val ELSE Loaded(u, h)))

Goes(op, h) ==
  CASE op = "BCC" -> h.c = 0 [] op = "BCS" -> h.c = 1
    [] op = "BNE" -> h.z = 0 [] op = "BEQ" -> h.z = 1
    [] op = "BPL" -> h.n = 0 [] op = "BMI" -> h.n = 1
    (* load_overflow has put it in the carry. *)
    [] op = "BVC" -> h.c = 0 [] op = "BVS" -> h.c = 1

(* INX and the rest: inc and dec keep the carry, add and sub do not. *)
ExecStep(u, h) ==
  LET down == u.op \in {"DEX", "DEY"}
      reg  == IF u.op \in {"INX", "DEX"} THEN h.x ELSE h.y
      r    == IF down THEN (reg - u.v1) % 256 ELSE (reg + u.v1) % 256
      flags == IF u.tag = "-" THEN Stepped(h, r, IF down THEN -1 ELSE 1)
               ELSE [SetNz(h, r) EXCEPT !.c = Flag(IF down THEN reg < u.v1 ELSE reg + u.v1 > 255),
                                        !.v = 0]
  IN  IF u.op \in {"INX", "DEX"} THEN [flags EXCEPT !.x = r] ELSE [flags EXCEPT !.y = r]

ExecBit(h) ==
  [h EXCEPT !.so = Bit6(h.val), !.n = Bit7(h.val), !.z = Flag(And(h.a, h.val) = 0), !.c = 0,
            !.v = 0, !.ea = 256 * (@ \div 256) + And(h.a, h.val), !.val = 128 * Bit7(h.val)]

(* Stack and flags. A word that would go round the stack faults. *)
ExecPush16(u, h) ==
  IF h.s < 2 THEN Fault(h)
  ELSE [h EXCEPT !.m = Poke(Poke(@, 256 + h.s, u.v1 \div 256), 255 + h.s, u.v1 % 256),
                 !.s = @ - 2]
ExecPull16(h) ==
  IF h.s >= 254 THEN Fault(h) ELSE [Drop(h, 2) EXCEPT !.ea = Top(h, 1) + 256 * Top(h, 2)]
ExecPla(h) ==
  LET s == (h.s + 1) % 256 IN [Stepped(h, s, 1) EXCEPT !.a = Top(h, 1), !.s = s]
ExecPhp(h) ==
  LET p == FlagsByte([h EXCEPT !.c = h.sc, !.v = h.so]) + 48 IN [Push(h, p) EXCEPT !.ea = p]
ExecPlp(h) ==
  LET p == SetFlags(h, h.ea % 256) IN [p EXCEPT !.sc = p.c, !.so = p.v, !.c = 0, !.v = 0]
PulledI(h) == (h.ea \div 4) % 2

(* A check of the countdown takes what it takes even when it bails. *)
ExecCountdown(u, h) ==
  LET cd    == h.cd - u.v2
      flags == IF u.op = "countdown" THEN [h EXCEPT !.cd = cd, !.c = Flag(cd < 0)]
               ELSE [h EXCEPT !.cd = cd, !.c = Flag(cd < 0), !.n = Flag(cd < 0),
                              !.z = Flag(cd = 0), !.v = 0]
  IN  IF cd < 0 THEN Leave(flags, "countdown", u.v1) ELSE flags
LoopReg(u, h) == IF u.op \in {"dex_loop_calc_countdown", "dex_loop_check_countdown"} THEN h.x ELSE h.y
LoopDone(u, h) ==
  LET zero == Test([h EXCEPT !.cd = @ - h.ea], 0)
  IN  Leave(IF u.op = "dex_loop_check_countdown" THEN [zero EXCEPT !.x = 0] ELSE [zero EXCEPT !.y = 0],
            "jump", u.v1)

ExecPageCrossing(u, h) ==
  LET low   == (IF u.tag \in {"ABX", "ABY"} THEN u.v1
                ELSE IF u.tag = "-" /\ u.op # "check_page_crossing_n" THEN h.val ELSE h.ea) % 256
      index == CASE u.op = "check_page_crossing_n" -> u.v1
                 [] u.op = "check_page_crossing_x" -> h.x
                 [] u.op = "check_page_crossing_y" -> h.y
      spare == Flag(low + index < 256)
  IN  [h EXCEPT !.cd = @ + spare, !.val = spare]

ExecAddress(u, h) ==
  CASE u.tag = "IND"        ->
         [h EXCEPT !.ea = Peek(h.m, u.v1)
                            + 256 * Peek(h.m, 256 * (u.v1 \div 256) + ((u.v1 + 1) % 256))]
    [] u.tag = "IND_nowrap" -> [h EXCEPT !.ea = Word(h.m, u.v1)]
    [] u.tag = "IND8"       -> [h EXCEPT !.ea = Peek(h.m, u.v1)]
    [] u.tag = "IDY_load"   -> [h EXCEPT !.ea = ZeroPageWord(h.m, u.v1)]
    [] u.tag = "ZPX"        -> [h EXCEPT !.ea = (u.v1 + h.x) % 256]
    [] u.tag = "ZPY"        -> [h EXCEPT !.ea = (u.v1 + h.y) % 256]
    [] u.tag = "load"       -> IF ReadFaults(u, h) THEN Fault(h) ELSE [h EXCEPT !.val = Loaded(u, h)]
    [] u.op = "addr_load_16bit_wrap" ->
         [h EXCEPT !.ea = ZeroPageWord(h.m, h.ea), !.val = (h.ea + 1) % 256]
    [] u.op = "addr_add_x"  -> [h EXCEPT !.ea = @ + h.x, !.val = h.ea % 256]
AddressUops == ModeUops \cup {"addr_base_load_16bit_wrap"}

(* One uop of the block. *)
Exec(u, h) ==
  CASE u.op \in ReadUops   -> ExecRead(u, h)
    [] u.op \in StoreUops  -> ExecStore(u, h)
    [] u.op \in ModifyUops -> ExecModify(u, h)
    [] u.op \in Branches   -> IF Goes(u.op, h) THEN Leave(h, "jump", u.v1) ELSE h
    [] u.op \in {"countdown", "countdown_no_preserve_nz_flags"} -> ExecCountdown(u, h)
    [] u.op \in AddressUops -> ExecAddress(u, h)
    [] u.op = "value_load"  -> IF ReadFaults(u, h) THEN Fault(h) ELSE [h EXCEPT !.val = Loaded(u, h)]
    [] u.op = "value_store" -> Store(u, h, h.val)
    [] u.op = "write_inv"   -> [h EXCEPT !.inv = @ \cup {Address(u, h) % 65536}, !.val = 85]
    [] u.op = "load_carry"  -> IF u.tag = "calc" THEN [Test(h, 0) EXCEPT !.c = h.sc, !.sc = 0]
                               ELSE [h EXCEPT !.c = h.sc]
    [] u.op = "load_carry_inverted" -> [h EXCEPT !.c = 1 - h.sc, !.z = h.sc, !.n = 1 - h.sc, !.v = 0]
    [] u.op = "carry_invert"        -> Borrowing(h)
    [] u.op = "save_carry"          -> [h EXCEPT !.sc = h.c]
    [] u.op = "save_carry_inverted" -> [h EXCEPT !.sc = 1 - h.c]
    [] u.op = "load_overflow"       -> [h EXCEPT !.c = h.so]
    [] u.op = "save_overflow"       -> [h EXCEPT !.so = h.v]
    [] u.op = "flags_nz_a"          -> Test(h, h.a)
    [] u.op = "flags_nz_x"          -> Test(h, h.x)
    [] u.op = "flags_nz_y"          -> Test(h, h.y)
    [] u.op = "flags_nz_value"      -> Test(h, h.val)
    [] u.op = "flags_nz_mem"        -> Test(h, Peek(h.m, u.v1))
    [] u.op = "add_cycles"          -> [h EXCEPT !.cd = @ + u.v1]
    [] u.op \in {"check_page_crossing_x", "check_page_crossing_y", "check_page_crossing_n"} ->
         ExecPageCrossing(u, h)
    [] u.op = "check_bcd" -> IF h.d = 1 THEN Fault(h) ELSE h
    [] u.op = "check_pending_irq" ->
         IF h.irq THEN Leave([h EXCEPT !.c = 0], "irq", u.v1) ELSE [h EXCEPT !.c = 1]
    [] u.op = "check_pending_irq_plp" ->
         IF h.irq /\ PulledI(h) = 0 THEN Leave(Test(h, 1), "irq", u.v1) ELSE Test(h, 1)
    [] u.op = "interp"  -> Leave(h, "interp", u.v1)
    [] u.op = "inturbo" -> Leave(h, "inturbo", u.v1)
    [] u.op = "collapse_loop" -> [h EXCEPT !.cd = @ % u.v1, !.v = 0]
    [] u.op \in {"dex_loop_calc_countdown", "dey_loop_calc_countdown"} ->
         [Test(h, 1) EXCEPT !.ea = (((LoopReg(u, h) - 1) % 256) + 1) * u.v1 - u.v2]
    [] u.op \in {"dex_loop_check_countdown", "dey_loop_check_countdown"} ->
         IF h.cd >= h.ea THEN LoopDone(u, h) ELSE [Test(h, 1) EXCEPT !.val = LoopReg(u, h)]
    [] u.op = "jmp_uop" -> h
    [] u.op \in {"ASL_acc", "LSR_acc", "ROL_acc", "ROR_acc"} ->
         LET r == ShiftBy([h EXCEPT !.val = h.a], ShiftType(u.op), u.v1)
         IN  [r EXCEPT !.a = r.val, !.val = h.val]
    [] u.op \in {"INX", "INY", "DEX", "DEY"} -> ExecStep(u, h)
    [] u.op = "BIT" -> ExecBit(h)
    [] u.op = "CLC" -> [h EXCEPT !.sc = 0]
    [] u.op = "SEC" -> [h EXCEPT !.sc = 1]
    [] u.op = "CLV" -> [h EXCEPT !.so = 0]
    [] u.op = "CLD" -> [h EXCEPT !.d = 0, !.c = h.d]
    [] u.op = "SED" -> [h EXCEPT !.d = 1, !.c = h.d]
    [] u.op = "CLI" -> [h EXCEPT !.i = 0, !.c = h.i]
    [] u.op = "SEI" -> [h EXCEPT !.i = 1, !.c = h.i]
    [] u.op = "JMP" -> Leave(h, "jump", u.v1)
    [] u.op = "JMP_SCRATCH_n" -> Leave(h, "jump", (h.ea + u.v1) % 65536)
    [] u.op = "LDA_zero_and_flags" -> Test([h EXCEPT !.a = 0], 0)
    [] u.op = "LDX_zero_and_flags" -> Test([h EXCEPT !.x = 0], 0)
    [] u.op = "LDY_zero_and_flags" -> Test([h EXCEPT !.y = 0], 0)
    [] u.op = "NOP" -> h
    [] u.op = "PUSH_16" -> ExecPush16(u, h)
    [] u.op = "PULL_16" -> ExecPull16(h)
    [] u.op = "PHA" -> Push(h, h.a)
    [] u.op = "PLA" -> ExecPla(h)
    [] u.op = "PHP" -> ExecPhp(h)
    [] u.op = "PLP" -> ExecPlp(h)
    [] u.op = "peek_to_scratch" -> [Stepped(h, (h.s + 1) % 256, 1) EXCEPT !.ea = Top(h, 1)]
    [] u.op = "stack_commit_peek_increment" -> Drop(h, 1)
    [] u.op = "TAX" -> [h EXCEPT !.x = h.a]
    [] u.op = "TAY" -> [h EXCEPT !.y = h.a]
    [] u.op = "TXA" -> [h EXCEPT !.a = h.x]
    [] u.op = "TYA" -> [h EXCEPT !.a = h.y]
    [] u.op = "TSX" -> [h EXCEPT !.x = h.s]
    [] u.op = "TXS" -> [h EXCEPT !.s = h.x]
=============================================================================
