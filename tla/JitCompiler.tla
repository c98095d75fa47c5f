------------------------------ MODULE JitCompiler ------------------------------
(***************************************************************************)
(* The front of the JIT, src/jit_compiler.c: 6502 code becomes a sequence of *)
(* opcodes ("details"), each with its uops; the block's bounds, the opcodes  *)
(* to be compiled as dynamic, the countdown checks, and the metadata that    *)
(* lets the block be left in the middle (fixups).                            *)
(*                                                                         *)
(* An environment env is what a compilation reads of the world: m, the       *)
(* memory; start, the address; starts and conts, the addresses flagged as    *)
(* block starts and block continuations; history, the compile history of the *)
(* addresses that have one, newest first; stale, the addresses whose code    *)
(* has been invalidated or is a dynamic operand; max_opcodes; zero_page,     *)
(* whether code in the zero page has been seen. A host address in a uop is   *)
(* the 6502 address whose host block it is. -1 is "unknown" or "none".       *)
(***************************************************************************)
EXTENDS Opcodes6502, JitUops, SequencesExt

CONSTANTS DynamicTrigger, HistoryLength

Some(condition, uops) == IF condition THEN uops ELSE <<>>
InsertUop(o, index, u) == [o EXCEPT !.uops = InsertAt(@, index, u)]
EraseUop(o, op) == [o EXCEPT !.uops = RemoveAt(@, FirstUop(@, {op}))]
SetUop(o, op, F(_)) == [o EXCEPT !.uops = At1(@, FirstUop(@, {op}), F)]
(* jit_opcode_eliminate. *)
Eliminate(o) ==
  LET kept(j) == (j = 1 /\ o.prefix) \/ (j # 1 /\ j = Len(o.uops) /\ o.postfix)
  IN  [o EXCEPT !.elim = TRUE,
                !.uops = [j \in DOMAIN @ |-> IF kept(j) THEN @[j] ELSE Drop1(@[j])]]

-----------------------------------------------------------------------------
(* jit_compiler_get_opcode_details *)
UopName ==
  [adc |-> "ADC", alr |-> "ALR", and |-> "AND", bcc |-> "BCC", bcs |-> "BCS", beq |-> "BEQ",
   bit |-> "BIT", bmi |-> "BMI", bne |-> "BNE", bpl |-> "BPL", bvc |-> "BVC", bvs |-> "BVS",
   clc |-> "CLC", cld |-> "CLD", clv |-> "CLV", cmp |-> "CMP", cpx |-> "CPX", cpy |-> "CPY",
   dec |-> "DEC_value", dex |-> "DEX", dey |-> "DEY", eor |-> "EOR", inc |-> "INC_value",
   inx |-> "INX", iny |-> "INY", lda |-> "LDA", ldx |-> "LDX", ldy |-> "LDY", nop |-> "NOP",
   ora |-> "ORA", pha |-> "PHA", php |-> "PHP", pla |-> "PLA", sax |-> "SAX", sbc |-> "SBC",
   sec |-> "SEC", sed |-> "SED", sei |-> "SEI", slo |-> "SLO", sta |-> "STA", stx |-> "STX",
   sty |-> "STY", tax |-> "TAX", tay |-> "TAY", tsx |-> "TSX", txs |-> "TXS", txa |-> "TXA",
   tya |-> "TYA", asl |-> "ASL_value", lsr |-> "LSR_value", rol |-> "ROL_value",
   ror |-> "ROR_value"]
AccName == [asl |-> "ASL_acc", lsr |-> "LSR_acc", rol |-> "ROL_acc", ror |-> "ROR_acc"]

Operand(m, addr, type, mode) ==
  CASE mode \in {"none", "nil", "acc"} \/ type = "brk" -> 0
    [] mode \in {"abs", "abx", "aby", "ind"}           ->
         Peek(m, (addr + 1) % 65536) + 256 * Peek(m, (addr + 2) % 65536)
    [] OTHER                                           -> Peek(m, (addr + 1) % 65536)
RelTarget(addr, operand) == (addr + 2 + Signed(operand)) % 65536

(* The addresses the opcode may touch; -1 if it touches none. *)
MinAddr(mode, operand) ==
  CASE mode \in {"zpg", "abs"}                      -> operand
    [] mode \in {"abx", "aby"}                      ->
         IF operand + 255 > 65535 THEN (operand + 255) % 65536 ELSE operand
    [] mode \in {"zpx", "zpy", "ind", "idx", "idy"} -> 0
    [] OTHER                                        -> -1
MaxAddr(mode, operand) ==
  CASE mode \in {"zpg", "abs"}         -> operand
    [] mode \in {"abx", "aby"}         -> IF operand + 255 > 65535 THEN operand ELSE operand + 255
    [] mode \in {"zpx", "zpy"}         -> 255
    [] mode \in {"ind", "idx", "idy"}  -> 65535
    [] OTHER                           -> -1
(* bbc_read_needs_callback, bbc_write_needs_callback: the register pages. *)
NeedsCallback(addr) == addr \in \hFC00 .. \hFEFF
UsesCallback(type, mode, operand) ==
  /\ mode \in {"abs", "abx", "aby"} /\ OpMem(type, mode) # {}
  /\ NeedsCallback(MinAddr(mode, operand)) \/ NeedsCallback(MaxAddr(mode, operand))

UsesInterp(addr, type, mode, operand) ==
  \/ addr + ModeLength(mode) >= 65536
  \/ mode \in {"abx", "aby"} /\ operand + 255 > 65535
  \/ UsesCallback(type, mode, operand)
  \/ type \in {"rti", "kil"} \cup (Undocumented \ {"alr", "sax", "slo"})
  \/ type = "sax" /\ mode \notin {"abs", "zpg"}
  \/ type = "slo" /\ mode # "zpg"
(* A JSR in the stack page may push over itself. *)
UsesInturbo(addr, type) == type = "jsr" /\ addr \in \hFE .. \h1FD

CouldPageCross(type, mode, operand) ==
  /\ OpMem(type, mode) = {"read"} /\ mode \in {"abx", "aby", "idy"}
  /\ mode # "idy" => operand % 256 # 0
(* The cycles of the worst case; what is not used is given back. *)
MaxCycles(addr, type, mode, operand) ==
  OpCycles(type, mode) + Flag(CouldPageCross(type, mode, operand))
    + (IF mode # "rel" THEN 0
       ELSE 1 + Flag((addr + 2) \div 256 # RelTarget(addr, operand) \div 256))

OperandUops(addr, type, mode, operand) ==
  LET set == Uop1("addr_set", operand)
  IN  CASE type \in {"brk", "jsr"} \/ (type = "jmp" /\ mode = "abs") -> <<>>
        [] mode = "imm"            -> IF type = "brk" THEN <<>> ELSE <<Uop1("value_set", operand)>>
        [] mode \in {"zpg", "abs"} -> <<set>>
        [] mode = "zpx" -> <<set, Uop0("addr_add_x_8bit")>>
        [] mode = "zpy" -> <<set, Uop0("addr_add_y_8bit")>>
        [] mode = "abx" -> <<set, Uop0("addr_add_x")>>
        [] mode = "aby" -> <<set, Uop0("addr_add_y")>>
        [] mode = "ind" -> <<set, Uop0("value_load_16bit_wrap")>>
        [] mode = "idx" -> <<set, Uop0("addr_add_x_8bit"), Uop0("addr_load_16bit_wrap"),
                             Uop1("addr_check", addr)>>
        [] mode = "idy" -> <<set, Uop0("addr_base_load_16bit_wrap"), Uop0("addr_add_base_y"),
                             Uop1("addr_check", addr)>>
        [] OTHER        -> <<>>

TypeUops(addr, type, mode, operand) ==
  LET push == Uop1("PUSH_16", (addr + 2) % 65536)
  IN  CASE type = "brk" -> <<push, Uop0("PHP"), Uop0("SEI"), Uop1("addr_set", 65534),
                             Uop0("value_load_16bit_wrap"), Uop1("JMP_SCRATCH_n", 0)>>
        [] type = "cli" -> <<Uop1("check_pending_irq", addr), Uop0("CLI")>>
        [] type = "jmp" -> <<IF mode = "ind" THEN Uop1("JMP_SCRATCH_n", 0) ELSE Uop1("JMP", operand)>>
        [] type = "jsr" -> <<push, Uop1("JMP", operand)>>
        [] type = "rts" -> <<Uop0("PULL_16"), Uop1("JMP_SCRATCH_n", 1)>>
        [] type = "plp" -> <<Uop0("peek_to_scratch"), Uop1("check_pending_irq_plp", addr),
                             Uop0("stack_commit_peek_increment"), Uop0("PLP")>>
        [] mode = "acc" -> <<Uop1(AccName[type], 1)>>
        [] mode = "rel" -> <<Uop1(UopName[type], RelTarget(addr, operand))>>
        [] type \in {"dex", "dey", "inx", "iny"} -> <<Uop1(UopName[type], 1)>>
        [] OTHER        -> <<Uop0(UopName[type])>>

(* The flags are saved before the NZ flags, which overwrite the host's. *)
FlagUops(type, mode) ==
  LET nz == CASE SetsRegister(type) = "a" \/ mode = "acc" -> <<Uop0("flags_nz_a")>>
              [] SetsRegister(type) = "x"                 -> <<Uop0("flags_nz_x")>>
              [] SetsRegister(type) = "y"                 -> <<Uop0("flags_nz_y")>>
              [] OpMem(type, mode) = {"read", "write"} \/ type \in {"cmp", "cpx", "cpy"} ->
                   <<Uop0("flags_nz_value")>>
              [] OTHER                                    -> <<>>
  IN  Some(type \in ChangesCarry \ {"clc", "sec"}, <<Uop0("save_carry")>>)
        \o Some(type \in ChangesOverflow \ {"bit", "clv", "plp"}, <<Uop0("save_overflow")>>)
        \o Some(type \in ChangesNz, nz)

PostUops(env, type, mode, operand, cycles) ==
  Some("write" \in OpMem(type, mode),
       <<Uop0("value_store")>>
         \o Some(mode \notin {"zpg", "zpx", "zpy"} \/ env.zero_page, <<Uop0("write_inv")>>))
    \o Some(CouldPageCross(type, mode, operand),
            <<Uop0(IF mode = "abx" THEN "check_page_crossing_x" ELSE "check_page_crossing_y")>>)
    \o Some(mode = "rel", <<Uop1("add_cycles", cycles - 2)>>)

Uops(env, addr, type, mode, operand, cycles) ==
  Some(type \in {"adc", "sbc"}, <<Uop1("check_bcd", addr)>>)
    \o Some(type \in UsesCarry, <<Uop0("load_carry")>>)
    \o Some(type \in UsesOverflow, <<Uop0("load_overflow")>>)
    \o OperandUops(addr, type, mode, operand)
    \o Some("read" \in OpMem(type, mode), <<Uop0("value_load")>>)
    \o TypeUops(addr, type, mode, operand)
    \o FlagUops(type, mode)
    \o PostUops(env, type, mode, operand, cycles)
DetailsOf(env, addr, opcode, type, mode, operand, cycles, interp, inturbo) ==
  [addr |-> addr, opcode |-> opcode, type |-> type, mode |-> mode, operand |-> operand,
   reg |-> IF mode = "acc" THEN "a" ELSE SetsRegister(type),
   bytes |-> IF addr + ModeLength(mode) >= 65536 THEN 65536 - addr ELSE ModeLength(mode),
   mem |-> OpMem(type, mode), min |-> MinAddr(mode, operand), max |-> MaxAddr(mode, operand),
   cycles |-> IF inturbo THEN 0 ELSE cycles,
   ends |-> interp \/ inturbo \/ type \in AlwaysLeaves,
   uops |-> IF interp THEN <<Uop1("interp", addr)>>
            ELSE IF inturbo THEN <<Uop1("inturbo", addr)>>
            ELSE Uops(env, addr, type, mode, operand, cycles),
   post_branch |-> FALSE, prefix |-> FALSE, postfix |-> FALSE, elim |-> FALSE,
   dyn_operand |-> FALSE, dyn_opcode |-> FALSE, stale |-> FALSE, run_start |-> -1,
   adjust |-> -1, a |-> -1, x |-> -1, y |-> -1, carry |-> -1, decimal |-> -1,
   nz |-> "-", nz_addr |-> 0, c |-> "-", v |-> "-"]
Decode(env, addr, opcode, type, mode, operand) ==
  LET interp == UsesInterp(addr, type, mode, operand)
  IN  DetailsOf(env, addr, opcode, type, mode, operand, MaxCycles(addr, type, mode, operand), interp,
                ~interp /\ UsesInturbo(addr, type))
DecodeMode(env, addr, opcode, type, mode) ==
  Decode(env, addr, opcode, type, mode, Operand(env.m, addr, type, mode))
Details(env, addr) ==
  LET opcode == Peek(env.m, addr)
  IN  DecodeMode(env, addr, opcode, OpType(FALSE, opcode), OpMode(FALSE, opcode))

-----------------------------------------------------------------------------
(* jit_compiler_find_compile_bounds: the opcodes of the block. *)
RECURSIVE Bounds(_, _, _)
Extended(env, ops, next, last) ==
  IF last.ends \/ next \in env.starts \/ Len(ops) = env.max_opcodes THEN ops
  ELSE Bounds(env, next, ops)
BoundsWith(env, addr, ops, o) ==
  Extended(env, Append(ops, [o EXCEPT !.post_branch = ops = <<>> \/ ops[Len(ops)].type \in MayBranch]),
           (addr + o.bytes) % 65536, o)
Bounds(env, addr, ops) == BoundsWith(env, addr, ops, Details(env, addr))
EndAddr(ops) == ops[Len(ops)].addr + ops[Len(ops)].bytes
(* The flags the address after the block is left with. *)
IsContinuation(env, ops) ==
  /\ ~ops[Len(ops)].ends /\ EndAddr(ops) \notin env.starts /\ Len(ops) = env.max_opcodes

(* jit_compiler_get_dynamic_history: an entry of the history is an opcode    *)
(* and whether it was compiled because it had been modified.                 *)
History(env, addr) == IF addr \in DOMAIN env.history THEN env.history[addr] ELSE <<>>
DynamicHistory(history, opcode, stale) ==
  LET same  == {k \in DOMAIN history : \A j \in 1 .. k : history[j].opcode = opcode}
      modified(ks) == Cardinality({k \in ks : history[k].modified})
  IN  [new         |-> Cardinality(same),
       new_invalid |-> modified(same) + Flag(stale /\ same # {}),
       any_invalid |-> modified(DOMAIN history)]
(* jit_compiler_add_history. The rest of a new ring is zero, which is a BRK. *)
Unmodified(opcode) == [opcode |-> opcode, modified |-> FALSE]
AddHistory(history, opcode, modified) ==
  LET rest == IF history = <<>> THEN [k \in 1 .. HistoryLength |-> Unmodified(0)] ELSE history
  IN  <<[opcode |-> opcode, modified |-> modified]>> \o SubSeq(rest, 1, HistoryLength - 1)

(* jit_compiler_try_make_dynamic_opcode: the operand is read when it runs. *)
CanBeDynamicOperand(o) ==
  /\ ~HasUop(o.uops, "interp")
  /\ \/ o.mode = "imm" /\ o.type # "brk"
     \/ o.mode = "zpg" /\ o.type # "bit"
     \/ o.mode \in {"abs", "abx", "aby"} /\ o.type \notin {"jmp", "jsr", "bit"}
DynamicOperand(o) ==
  LET i     == FirstUop(o.uops, {IF o.mode = "imm" THEN "value_set" ELSE "addr_set"})
      set   == [o EXCEPT !.dyn_operand = TRUE,
                         !.uops = [@ EXCEPT ![i] = Uop1("addr_set", (o.addr + 1) % 65536)]]
      word  == InsertUop(set, i + 1, Uop0("addr_load_16bit_nowrap"))
      check == IF o.mode = "abs" THEN i + 2 ELSE i + 3
  IN  CASE o.mode = "imm" -> InsertUop(set, i + 1, Uop0("value_load"))
        [] o.mode = "zpg" -> InsertUop(set, i + 1, Uop0("addr_load_8bit"))
        [] OTHER          -> InsertUop(word, check, Uop1("addr_check", o.addr))
DynamicOpcode(o) ==
  [o EXCEPT !.uops = <<Uop1("inturbo", o.addr)>>, !.ends = TRUE, !.dyn_opcode = TRUE,
            !.dyn_operand = TRUE, !.cycles = 0]

(* jit_compiler_check_dynamics. sub: where a sub-instruction starts, or -1. *)
IsStale(env, o) == o.addr \in env.stale \/ (o.bytes > 1 /\ o.addr + 1 \in env.stale)
IsSubInstruction(env, o, counts) ==
  LET next       == (o.addr + 1) % 65536
      next_op    == Peek(env.m, next)
      next_count == DynamicHistory(History(env, next), next_op, FALSE)
  IN  /\ counts.new_invalid = 0 /\ counts.new >= DynamicTrigger /\ o.bytes > 1
      /\ next_count.new_invalid = 0 /\ next_count.new >= DynamicTrigger
      /\ ModeLength(OpMode(FALSE, next_op)) = o.bytes - 1
RECURSIVE Dynamics(_, _, _)
Dynamics(env, ops, k) ==
  IF k > Len(ops) THEN [ops |-> ops, sub |-> -1]
  ELSE LET stale  == IsStale(env, ops[k])
           o      == [ops[k] EXCEPT !.stale = stale]
           counts == DynamicHistory(History(env, o.addr), o.opcode, stale)
           match  == counts.new_invalid >= DynamicTrigger
           Keep(p) == Dynamics(env, [ops EXCEPT ![k] = p], k + 1)
           Truncate(p) == Append(SubSeq(ops, 1, k - 1), p)
       IN  IF IsSubInstruction(env, o, counts)
           THEN [ops |-> Truncate(o), sub |-> (o.addr + 1) % 65536]
           ELSE IF match /\ CanBeDynamicOperand(o) THEN Keep(DynamicOperand(o))
           ELSE IF match \/ counts.any_invalid >= DynamicTrigger
           THEN [ops |-> Truncate(DynamicOpcode(o)), sub |-> -1]
           ELSE Keep(o)

(* The jump to what follows, for a block that does not end with one. *)
Terminate(ops) ==
  LET last == ops[Len(ops)]
  IN  IF last.ends THEN ops
      ELSE [ops EXCEPT ![Len(ops)] =
              [last EXCEPT !.uops = Append(@, Uop1("JMP", EndAddr(ops))), !.postfix = TRUE,
                           !.ends = TRUE]]

(* jit_compiler_setup_cycle_counts: a check of the countdown wherever a      *)
(* branch may land or go past, for all the cycles up to the next. check: the *)
(* opcode with the uop inserted last, which may be an earlier one.           *)
RECURSIVE CycleCounts(_, _, _, _)
CycleCounts(ops, k, run, check) ==
  IF k > Len(ops) THEN ops
  ELSE LET fresh  == ops[k].post_branch
           needs  == fresh /\ ~ops[k].prefix
           run2   == IF fresh THEN k ELSE run
           check2 == IF needs THEN k ELSE check
           opened == IF ~fresh THEN ops ELSE [ops EXCEPT ![k].run_start = 0]
           placed == IF ~needs THEN opened
                     ELSE [opened EXCEPT ![k] = [InsertUop(@, 1, Uop1("countdown", @.addr))
                                                   EXCEPT !.prefix = TRUE]]
           added  == [placed EXCEPT ![run2].run_start = @ + ops[k].cycles]
       IN  CycleCounts(IF check2 = 0 THEN added
                       ELSE [added EXCEPT ![check2].uops[1].v2 = added[run2].run_start],
                       k + 1, run2, check2)

-----------------------------------------------------------------------------
(* jit_compiler_emit_uops: the host code of the block, uop by uop. k is the  *)
(* opcode and j its uop.                                                     *)
Emit(ops) ==
  FlattenSeq([k \in DOMAIN ops |->
    LET uops == ops[k].uops
    IN  SelectSeq([j \in DOMAIN uops |-> [k |-> k, j |-> j, u |-> uops[j]]],
                  LAMBDA e : ~e.u.elim)])
PrefixStart(ops, code, k) ==
  SelectInSeq(code, LAMBDA e : e.k = k /\ e.j = 1 /\ ops[k].prefix)
OpcodeStart(ops, code, k) ==
  SelectInSeq(code, LAMBDA e : /\ e.k = k /\ (ops[k].prefix => e.j # 1)
                               /\ ops[k].postfix => e.j # Len(ops[k].uops))

(* jit_compiler_update_metadata, one record per opcode: jit, the place in    *)
(* the code where an invalidation of its bytes is written; bail, whether the *)
(* block can be left there, and the cycles to give back then.                *)
RECURSIVE Metadata(_, _, _, _)
Metadata(ops, code, meta, state) ==
  IF Len(meta) = Len(ops) THEN meta
  ELSE LET k      == Len(meta) + 1
           o      == ops[k]
           prefix == PrefixStart(ops, code, k)
           start  == OpcodeStart(ops, code, k)
           cycles == IF o.run_start # -1 THEN o.run_start ELSE state.cycles
           merge  == IF prefix # 0 THEN start = 0 \/ state.merge
                     ELSE state.merge /\ start = 0
           jit    == IF prefix # 0 THEN prefix
                     ELSE IF start # 0 /\ ~state.merge THEN start ELSE state.jit
           entry  == [addr |-> o.addr, bytes |-> o.bytes, jit |-> jit, cycles |-> cycles,
                      bail |-> prefix # 0 \/ start # 0, countdown |-> o.run_start # -1,
                      adjust |-> o.adjust, a |-> o.a, x |-> o.x, y |-> o.y, nz |-> o.nz,
                      nz_addr |-> o.nz_addr, c |-> o.c, v |-> o.v,
                      dyn_operand |-> o.dyn_operand, dyn_opcode |-> o.dyn_opcode]
       IN  Metadata(ops, code, Append(meta, entry),
                    [cycles |-> cycles - o.cycles, merge |-> merge, jit |-> jit])

(* jit_compiler_fixup_state: what the block has left stale is put right.     *)
(* entry is the metadata of the opcode it is left at. The JIT keeps C and V  *)
(* in sc and so.                                                             *)
AdjustForgotten(entry) == 0
CarryAsBorrow(h, entry) == IF entry.c \in {"save_carry", "save_carry_inverted"} THEN 1 - h.c ELSE h.sc
Adjust(entry) == IF entry.adjust = -1 THEN 0 ELSE entry.adjust
FixedCarry(h, entry) ==
  CASE entry.c = "-"                   -> h.sc
    [] entry.c = "CLC"                 -> 0
    [] entry.c = "SEC"                 -> 1
    [] entry.c = "save_carry"          -> h.c
    [] entry.c = "save_carry_inverted" -> 1 - h.c
FixedNz(h, entry, regs) ==
  CASE entry.nz = "-"              -> regs
    [] entry.nz = "flags_nz_a"     -> SetNz(regs, regs.a)
    [] entry.nz = "flags_nz_x"     -> SetNz(regs, regs.x)
    [] entry.nz = "flags_nz_y"     -> SetNz(regs, regs.y)
    [] entry.nz = "flags_nz_value" -> SetNz(regs, h.val)
    [] entry.nz = "flags_nz_mem"   -> SetNz(regs, Peek(h.m, entry.nz_addr))
FixupState(h, entry, is_invalidation) ==
  LET Known(value, reg) == IF value = -1 THEN reg ELSE value
      regs == [h EXCEPT !.cd = @ + entry.cycles, !.a = Known(entry.a, @),
                        !.x = Known(entry.x, @), !.y = Known(entry.y, @)]
  IN  IF is_invalidation /\ entry.countdown THEN [h EXCEPT !.cd = @ + Adjust(entry)]
      ELSE [FixedNz(h, entry, regs) EXCEPT !.so = IF entry.v = "-" THEN @ ELSE h.v,
                                           !.sc = FixedCarry(h, entry)]
=============================================================================
