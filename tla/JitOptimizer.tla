------------------------------ MODULE JitOptimizer ------------------------------
(***************************************************************************)
(* src/jit_optimizer.c: the passes over the opcodes of a block, before the   *)
(* rewriting for the host (merging, known values, replacement, collapsing of *)
(* loops) and after it (removal of flags, loads and checks nobody needs).    *)
(*                                                                         *)
(* A pass is a walk: Walk feeds it the opcodes in order with the state it    *)
(* carries. What a pass removes from an earlier opcode is found again by its *)
(* place, a pair of the opcode's and the uop's number; Nowhere is none.      *)
(***************************************************************************)
EXTENDS JitCompiler

Nowhere == <<0, 0>>
At2(ops, place) == ops[place[1]].uops[place[2]]
Change(ops, place, F(_)) ==
  IF place = Nowhere THEN ops ELSE [ops EXCEPT ![place[1]].uops[place[2]] = F(@)]
(* The passes after the rewriting skip these. *)
Skipped(o) == o.ends \/ o.elim

-----------------------------------------------------------------------------
(* jit_optimizer_merge_opcodes: LSR A; LSR A becomes LSR A by 2. *)
Mergeable(o) == IF o.mode = "acc" THEN AccName[o.type]
                ELSE IF o.type \in {"inx", "iny", "dex", "dey"} THEN UopName[o.type] ELSE "-"
RECURSIVE MergeOpcodes(_, _, _)
MergeOpcodes(ops, k, prev) ==
  IF k > Len(ops) THEN ops
  ELSE LET name == Mergeable(ops[k])
           at   == FirstUop(ops[prev].uops, {name})
       IN  IF ops[k].ends THEN MergeOpcodes(ops, k + 1, prev)
           ELSE IF name = "-" THEN MergeOpcodes(ops, k + 1, 0)
           ELSE IF prev = 0 \/ ops[prev].type # ops[k].type THEN MergeOpcodes(ops, k + 1, k)
           ELSE IF ops[prev].uops[at].v1 >= 7 THEN MergeOpcodes(ops, k + 1, prev)
           ELSE MergeOpcodes([ops EXCEPT ![prev].uops[at].v1 = @ + 1, ![k] = Eliminate(@)],
                             k + 1, prev)

(* jit_optimizer_calculate_known_values: what is known before each opcode. *)
Unknown == [a |-> -1, x |-> -1, y |-> -1, carry |-> -1, decimal |-> -1]
KnownAfter(o, known) ==
  LET By(v, n) == IF v = -1 THEN -1 ELSE (v + n) % 256
      loaded   == IF o.mode = "imm" /\ ~o.dyn_operand THEN o.operand ELSE -1
  IN  CASE o.type \in {"clc", "bcs"} -> [known EXCEPT !.carry = 0]
        [] o.type \in {"sec", "bcc"} -> [known EXCEPT !.carry = 1]
        [] o.type = "cld" -> [known EXCEPT !.decimal = 0]
        [] o.type = "sed" -> [known EXCEPT !.decimal = 1]
        [] o.type = "inx" -> [known EXCEPT !.x = By(@, 1)]
        [] o.type = "dex" -> [known EXCEPT !.x = By(@, -1)]
        [] o.type = "iny" -> [known EXCEPT !.y = By(@, 1)]
        [] o.type = "dey" -> [known EXCEPT !.y = By(@, -1)]
        [] o.type = "txa" -> [known EXCEPT !.a = known.x]
        [] o.type = "tya" -> [known EXCEPT !.a = known.y]
        [] o.type = "tax" -> [known EXCEPT !.x = known.a]
        [] o.type = "tay" -> [known EXCEPT !.y = known.a]
        [] o.type = "lda" -> [known EXCEPT !.a = loaded]
        [] o.type = "ldx" -> [known EXCEPT !.x = loaded]
        [] o.type = "ldy" -> [known EXCEPT !.y = loaded]
        [] OTHER -> [known EXCEPT !.a = IF o.reg = "a" THEN -1 ELSE @,
                                  !.x = IF o.reg = "x" THEN -1 ELSE @,
                                  !.y = IF o.reg = "y" THEN -1 ELSE @,
                                  !.carry = IF o.type \in ChangesCarry THEN -1 ELSE @]
RECURSIVE KnownValues(_, _, _)
KnownValues(ops, k, known) ==
  IF k > Len(ops) THEN ops
  ELSE LET o == ops[k]
       IN  KnownValues([ops EXCEPT ![k] = [o EXCEPT !.a = known.a, !.x = known.x, !.y = known.y,
                                                    !.carry = known.carry,
                                                    !.decimal = known.decimal]],
                       k + 1, IF o.ends THEN known ELSE KnownAfter(o, known))

(* jit_optimizer_replace_uops: cheaper uops where a value is known. *)
Replaced(u, op, v2) == UopOf(op, 0, v2)
WithCarry(o, had_check, carry, from, to) ==
  LET bcd  == IF o.decimal = 0 \/ had_check THEN SetUop(o, "check_bcd", Drop1) ELSE o
  IN  IF o.carry # carry THEN bcd
      ELSE SetUop(SetUop(bcd, from, LAMBDA u : Uop0(to)), "load_carry", Drop1)
StoreOf(o) == CASE o.type = "sta" -> o.a [] o.type = "stx" -> o.x [] o.type = "sty" -> o.y
StoreImmediate(o) ==
  IF o.mode \notin {"zpg", "abs"} \/ StoreOf(o) = -1 THEN o
  ELSE SetUop(o, UopName[o.type], LAMBDA u : UopOf("ST_IMM", 0, StoreOf(o)))
(* What the opcode does to a known register: the load it becomes. *)
LoadOf(o) ==
  LET Load(op, value, scale) == [op |-> op, value |-> value, scale |-> scale]
  IN  CASE o.type = "dex" -> Load("LDX", o.x, -1) [] o.type = "dey" -> Load("LDY", o.y, -1)
        [] o.type = "inx" -> Load("LDX", o.x, 1)  [] o.type = "iny" -> Load("LDY", o.y, 1)
        [] o.type = "tax" -> Load("LDX", o.a, 0)  [] o.type = "tay" -> Load("LDY", o.a, 0)
        [] o.type = "txa" -> Load("LDA", o.x, 0)  [] o.type = "tya" -> Load("LDA", o.y, 0)
LoadInstead(o) ==
  LET load == LoadOf(o)
      i    == FirstUop(o.uops, {UopName[o.type]})
      value == ((load.value + load.scale * o.uops[i].v1) % 256)
  IN  IF load.value = -1 THEN o
      ELSE InsertUop([o EXCEPT !.uops[i] = Uop1("value_set", value)], i + 1, Uop0(load.op))
ConstantY(o) ==
  LET set == SetUop(o, "addr_add_base_y",
                    LAMBDA u : [u EXCEPT !.op = "addr_add_base_constant", !.v1 = o.y])
      n(u) == [u EXCEPT !.op = "check_page_crossing_n", !.v1 = o.y, !.elim = @ \/ o.y = 0]
  IN  IF o.mode # "idy" \/ o.y = -1 THEN o
      ELSE [SetUop(set, "check_page_crossing_y", n)
              EXCEPT !.cycles = IF o.y = 0 /\ HasUop(o.uops, "check_page_crossing_y") THEN 5 ELSE @]
ReplaceIn(o, had_check) ==
  CASE o.type = "adc" -> ConstantY(WithCarry(o, had_check, 0, "ADC", "ADD"))
    [] o.type = "sbc" -> ConstantY(WithCarry(o, had_check, 1, "SBC", "SUB"))
    [] o.type \in {"sta", "stx", "sty"} -> ConstantY(StoreImmediate(o))
    [] o.type \in {"dex", "dey", "inx", "iny", "tax", "tay", "txa", "tya"} -> LoadInstead(o)
    [] OTHER -> ConstantY(o)
RECURSIVE ReplaceUops(_, _, _)
ReplaceUops(ops, k, had_check) ==
  IF k > Len(ops) THEN ops
  ELSE LET o == ops[k]
           skip == o.ends \/ o.dyn_operand
       IN  ReplaceUops(IF skip THEN ops ELSE [ops EXCEPT ![k] = ReplaceIn(o, had_check)],
                       k + 1, had_check \/ (~skip /\ o.type \in {"adc", "sbc"}))

-----------------------------------------------------------------------------
(* The first branch of the block, if only these opcodes come before it and   *)
(* it goes back to the start; 0 otherwise.                                   *)
LoopEnd(ops, Allowed(_), branches) ==
  LET k == SelectInSeq(ops, LAMBDA o : ~Allowed(o))
  IN  IF /\ k # 0 /\ ops[k].type \in branches
         /\ RelTarget(ops[k].addr, ops[k].operand) = ops[1].addr
      THEN k ELSE 0
LoopCycles(ops, last) == SumFunctionOnSet([k \in DOMAIN ops |-> ops[k].cycles], 1 .. last)
GivenBack(o) == LET i == FirstUop(o.uops, {"add_cycles"}) IN IF i = 0 THEN 0 ELSE o.uops[i].v1

(* jit_optimizer_collapse_indefinite_loops: LDA flag; BEQ back. Only an      *)
(* event outside the 6502 ends such a loop: it takes the countdown's cycles  *)
(* at once, all but less than a round.                                       *)
Idle(o) == \/ o.type \in {"lda", "cmp"} /\ o.mode \in {"imm", "zpg", "abs"} /\ ~o.ends
           \/ o.type \in {"cli", "sei"}
CollapseIndefiniteLoops(ops) ==
  LET last  == LoopEnd(ops, Idle, {"bcc", "beq", "bne"})
      o     == ops[last]
      given == GivenBack(o)
      cut   == IF HasUop(o.uops, "add_cycles") THEN EraseUop(o, "add_cycles") ELSE o
      i     == FirstUop(cut.uops, {UopName[o.type]})
      away  == CASE o.type = "bcc" -> "BCS" [] o.type = "beq" -> "BNE" [] o.type = "bne" -> "BEQ"
      flip  == [cut EXCEPT !.uops[i].op = away, !.uops[i].v1 = (o.addr + 2) % 65536]
      loop  == InsertUop(InsertUop(flip, i + 1, Uop1("collapse_loop", LoopCycles(ops, last))),
                         i + 2, Uop1("JMP", ops[1].addr))
      timed == IF given = 0 THEN loop
               ELSE InsertUop(InsertUop(loop, i, Uop1("add_cycles", given)),
                              i + 2, Uop1("add_cycles", -given))
  IN  IF last = 0 THEN ops
      ELSE Append(SubSeq(ops, 1, last - 1), [timed EXCEPT !.ends = TRUE])

(* jit_optimizer_collapse_delay_loops: DEX; BNE back becomes one uop, if the *)
(* countdown has room for all of it.                                         *)
Counts(ops, last) == SelectSeq(SubSeq(ops, 1, last), LAMBDA o : o.type \in {"dex", "dey"})
CollapseDelayLoops(ops) ==
  LET last   == LoopEnd(ops, LAMBDA o : o.type \in {"nop", "dex", "dey"}, {"bne"})
      counts == Counts(ops, last)
      is_x   == counts[1].type = "dex"
      cycles == LoopCycles(ops, last)
      start  == ops[1].addr
      uops == <<UopOf(IF is_x THEN "dex_loop_calc_countdown" ELSE "dey_loop_calc_countdown",
                      cycles, GivenBack(ops[last])),
                Uop1(IF is_x THEN "dex_loop_check_countdown" ELSE "dey_loop_check_countdown",
                     (ops[last].addr + 2) % 65536),
                UopOf("countdown_no_preserve_nz_flags", start, cycles),
                Uop1(IF is_x THEN "DEX" ELSE "DEY", 1),
                Uop0(IF is_x THEN "flags_nz_x" ELSE "flags_nz_y"),
                Uop1("jmp_uop", -3)>>
      rest == [k \in 2 .. last |-> Eliminate(IF k = last THEN [ops[k] EXCEPT !.ends = TRUE]
                                              ELSE ops[k])]
  IN  IF last = 0 \/ Len(counts) # 1 THEN ops
      ELSE [k \in 1 .. last |-> IF k = 1 THEN [ops[1] EXCEPT !.uops = uops, !.prefix = TRUE]
                                ELSE rest[k]]

-----------------------------------------------------------------------------
(* jit_optimizer_eliminate_nz_flag_saving. pending: the uop that sets the    *)
(* flags last; only the last before they are used has to.                    *)
CanWriteTo(o, addr) == "write" \in o.mem /\ (o.dyn_operand \/ addr \in o.min .. o.max)
NzUops(o) == {j \in DOMAIN o.uops : o.uops[j].op \in FlagsUops}
RECURSIVE EliminateNz(_, _, _)
EliminateNz(ops, k, pending) ==
  IF k > Len(ops) THEN ops
  ELSE IF Skipped(ops[k]) THEN EliminateNz(ops, k + 1, pending)
  ELSE LET o    == ops[k]
           u    == At2(ops, pending)
           told == IF pending = Nowhere THEN ops
                   ELSE [ops EXCEPT ![k].nz = u.op, ![k].nz_addr = u.v1]
           kept == /\ o.type # "php" /\ o.type \notin MayBranch \cup AlwaysLeaves
                   /\ pending # Nowhere => ~(u.op = "flags_nz_mem" /\ CanWriteTo(o, u.v1))
           still == IF kept THEN pending ELSE Nowhere
           j    == IF NzUops(o) = {} THEN 0 ELSE CHOOSE j \in NzUops(o) : TRUE
       IN  IF j = 0 THEN EliminateNz(told, k + 1, still)
           ELSE EliminateNz(Change(told, still, Drop1), k + 1,
                            IF o.uops[j].merged THEN Nowhere ELSE <<k, j>>)

(* jit_optimizer_eliminate_c_v_flag_saving. sc and so: the uops whose carry  *)
(* and overflow are still the host's.                                        *)
Saves == {"save_carry", "save_carry_inverted"}
CarryBranch(ops, k, sc) ==
  LET flipped == IF ops[k].type = "bcc" THEN "BCS" ELSE "BCC"
      loaded  == [ops EXCEPT ![k] = SetUop(@, "load_carry", Drop1)]
  IN  IF ops[k].type \notin {"bcc", "bcs"} \/ sc = Nowhere \/ At2(ops, sc).op \notin Saves THEN ops
      ELSE IF At2(ops, sc).op = "save_carry" THEN loaded
      ELSE [loaded EXCEPT ![k] = SetUop(@, UopName[ops[k].type], LAMBDA u : [u EXCEPT !.op = flipped])]
(* One uop. st: ops, sc, so, and whether this opcode has saved either. *)
SavedCarry(st, place, u) ==
  [st EXCEPT !.ops = Change(@, st.sc, Drop1), !.sc = IF u.merged THEN Nowhere ELSE place,
             !.had_c = @ \/ u.op \in Saves]
LoadedCarry(st, place, u) ==
  LET pair   == ~u.merged /\ st.sc # Nowhere /\ At2(st.ops, st.sc).op \in Saves
      invert == (At2(st.ops, st.sc).op = "save_carry_inverted") # (u.op = "load_carry_inverted")
      Load(v) == IF invert THEN [v EXCEPT !.op = "carry_invert"] ELSE Drop1(v)
  IN  IF u.elim /\ ~u.merged THEN st
      ELSE [st EXCEPT !.ops = IF pair THEN Change(Change(@, st.sc, Drop1), place, Load) ELSE @,
                      !.sc = Nowhere]
CvUop(st, place) ==
  LET u == At2(st.ops, place)
  IN  CASE u.op \in {"load_carry", "load_carry_inverted"} -> LoadedCarry(st, place, u)
        [] u.op \in Saves \cup {"CLC", "SEC"}             -> SavedCarry(st, place, u)
        [] u.op \in {"load_overflow", "PLA"}              -> [st EXCEPT !.so = Nowhere]
        [] u.op = "save_overflow" ->
             [st EXCEPT !.ops = Change(@, st.so, Drop1), !.so = place, !.had_v = TRUE]
        [] u.op \in FlagsUops ->
             [st EXCEPT !.sc = IF ~u.elim \/ (u.merged /\ ~st.had_c) THEN Nowhere ELSE @,
                        !.so = IF ~u.elim \/ (u.merged /\ ~st.had_v) THEN Nowhere ELSE @]
        [] u.op \in {"CLD", "CLI", "SED", "SEI", "BIT"}   -> [st EXCEPT !.sc = Nowhere, !.so = Nowhere]
        [] OTHER -> st
RECURSIVE CvUops(_, _, _)
CvUops(st, k, j) ==
  IF j > Len(st.ops[k].uops) THEN st ELSE CvUops(CvUop(st, <<k, j>>), k, j + 1)
RECURSIVE EliminateCv(_, _, _, _)
EliminateCv(ops, k, sc, so) ==
  IF k > Len(ops) THEN ops
  ELSE IF Skipped(ops[k]) THEN EliminateCv(ops, k + 1, sc, so)
  ELSE LET told  == [ops EXCEPT ![k].c = IF sc = Nowhere THEN @ ELSE At2(ops, sc).op,
                                ![k].v = IF so = Nowhere THEN @ ELSE At2(ops, so).op]
           leaves == ops[k].type \in MayBranch \cup AlwaysLeaves
           Held(place) == IF leaves THEN Nowhere ELSE place
           done  == CvUops([ops |-> CarryBranch(told, k, sc), sc |-> Held(sc), so |-> Held(so),
                            had_c |-> FALSE, had_v |-> FALSE], k, 1)
       IN  EliminateCv(done.ops, k + 1, done.sc, done.so)

(* jit_optimizer_eliminate_axy_loads. regs: for each register the place of a *)
(* load of a constant that nothing has used yet.                             *)
Users(reg) ==
  CASE reg = "a" -> {"flags_nz_a", "ADC", "ADD", "ALR", "AND", "ASL_acc", "BIT", "CMP", "EOR",
                     "LSR_acc", "ORA", "PHA", "ROL_acc", "ROR_acc", "SBC", "SLO", "STA", "SUB",
                     "TAX", "TAY", "SAX"}
    [] reg = "x" -> {"flags_nz_x", "check_page_crossing_x", "addr_add_x", "addr_add_x_8bit", "CPX",
                     "DEX", "INX", "STX", "TXS", "TXA", "SAX"}
    [] reg = "y" -> {"flags_nz_y", "check_page_crossing_y", "addr_add_y", "addr_add_y_8bit", "CPY",
                     "DEY", "INY", "STY", "TYA"}
LoadOp(reg) == CASE reg = "a" -> "LDA" [] reg = "x" -> "LDX" [] reg = "y" -> "LDY"
NoLoads == [reg \in {"a", "x", "y"} |-> Nowhere]
AxyUop(st, place, has_imm) ==
  LET u    == At2(st.ops, place)
      load == {reg \in {"a", "x", "y"} : LoadOp(reg) = u.op}
      used == {reg \in {"a", "x", "y"} : u.op \in Users(reg) /\ (u.elim => u.merged)}
  IN  IF load # {}
      THEN LET reg == CHOOSE reg \in load : TRUE
           IN  [ops |-> Change(st.ops, st.regs[reg], Drop1),
                regs |-> [st.regs EXCEPT ![reg] = IF has_imm THEN place ELSE Nowhere]]
      ELSE [st EXCEPT !.regs = [reg \in DOMAIN @ |-> IF reg \in used THEN Nowhere ELSE @[reg]]]
RECURSIVE AxyUops(_, _, _)
AxyUops(st, k, j) ==
  LET uops == st.ops[k].uops
      imm  == FirstUop(uops, {"value_set"})
  IN  IF j > Len(uops) THEN st
      ELSE AxyUops(AxyUop(st, <<k, j>>, imm # 0 /\ imm < j), k, j + 1)
(* A check of the countdown need not keep flags the opcode will set, and a   *)
(* load of zero with its flags is one instruction.                           *)
FasterCountdown(o) ==
  IF o.type \in ChangesNz
  THEN SetUop(o, "countdown", LAMBDA u : [u EXCEPT !.op = "countdown_no_preserve_nz_flags"]) ELSE o
LoadZero(o) ==
  LET i     == FirstUop(o.uops, {"LDA", "LDX", "LDY"})
      imm   == FirstUop(o.uops, {"value_set"})
      flags == FirstUop(o.uops, FlagsUops)
      op    == CASE o.uops[i].op = "LDA" -> "LDA_zero_and_flags"
                 [] o.uops[i].op = "LDX" -> "LDX_zero_and_flags"
                 [] o.uops[i].op = "LDY" -> "LDY_zero_and_flags"
  IN  IF i = 0 \/ imm = 0 THEN o
      ELSE IF o.uops[imm].v1 # 0 \/ o.uops[flags].elim THEN o
      ELSE [o EXCEPT !.uops[i].op = op, !.uops[i].tag = "-", !.uops[flags] = Merge1(@)]
RECURSIVE EliminateAxy(_, _, _)
EliminateAxy(ops, k, regs) ==
  IF k > Len(ops) THEN ops
  ELSE IF Skipped(ops[k]) THEN EliminateAxy(ops, k + 1, regs)
  ELSE LET leaves == ops[k].type \in MayBranch \cup AlwaysLeaves
           st == AxyUops([ops |-> ops, regs |-> IF leaves THEN NoLoads ELSE regs], k, 1)
       IN  EliminateAxy([st.ops EXCEPT ![k] = LoadZero(FasterCountdown(@))], k + 1,
                        IF ops[k].stale THEN NoLoads ELSE st.regs)

(* jit_optimizer_merge_countdowns: the cycles a branch not taken gives back  *)
(* are not taken by the check that follows. given: the last add_cycles.      *)
MergeCountdown(ops, k, j, given) ==
  LET u       == ops[k].uops[j]
      back    == IF given = Nowhere THEN 0 ELSE At2(ops, given).v1
      merges  == given # Nowhere /\ u.v2 >= back
      cycles  == IF merges THEN u.v2 - back ELSE u.v2
      checked == [ops EXCEPT ![k].uops[j].v2 = cycles, ![k].uops[j].elim = @ \/ cycles = 0]
  IN  IF merges THEN [Change(checked, given, Merge1) EXCEPT ![k].adjust = back] ELSE checked
RECURSIVE MergeCountdowns(_, _, _)
MergeCountdowns(ops, k, given) ==
  IF k > Len(ops) THEN ops
  ELSE LET j == FirstUop(ops[k].uops, {"countdown", "countdown_no_preserve_nz_flags"})
           added == {i \in DOMAIN ops[k].uops : ops[k].uops[i].op = "add_cycles"}
       IN  IF ops[k].elim THEN MergeCountdowns(ops, k + 1, given)
           ELSE MergeCountdowns(IF j = 0 THEN ops ELSE MergeCountdown(ops, k, j, given), k + 1,
                                IF added = {} THEN given
                                ELSE <<k, CHOOSE i \in added : \A n \in added : n <= i>>)

(* jit_optimizer_eliminate_mode_loads: a pointer of the zero page that is    *)
(* still in the address register. base: its address, or -1.                  *)
AddressOps == (ModeUops \ {"value_set", "value_load_16bit_wrap"}) \cup {"addr_base_load_16bit_wrap"}
KindOfAddress(o) ==
  LET ops == {o.uops[j].op : j \in DOMAIN o.uops} \cap AddressOps
  IN  CASE ops = {"addr_set"} -> "exact"
        [] ops \ {"addr_set", "addr_add_x", "addr_add_y"} # {} -> "unknown"
        [] ops = {} -> "none"
        [] OTHER -> "indexed"
KeepsBase(o, base) ==
  LET addr == o.uops[FirstUop(o.uops, {"addr_set"})].v1
      next == (base + 1) % 256
  IN  /\ "write" \in o.mem => CASE KindOfAddress(o) = "exact"   -> addr \notin {base, next}
                                [] KindOfAddress(o) = "indexed" -> addr > base /\ addr > next
                                [] OTHER                        -> FALSE
      /\ \A j \in DOMAIN o.uops : o.uops[j].op \notin {"PHP", "PLP"}
RECURSIVE EliminateModeLoads(_, _, _)
EliminateModeLoads(ops, k, base) ==
  IF k > Len(ops) THEN ops
  ELSE IF Skipped(ops[k]) THEN EliminateModeLoads(ops, k + 1, base)
  ELSE LET o       == ops[k]
           is_idy  == /\ HasUop(o.uops, "addr_base_load_16bit_wrap")
                      /\ ~HasUop(o.uops, "addr_add_x_8bit")
           pointer == o.uops[FirstUop(o.uops, {"addr_set"})].v1
           changes == \E j \in DOMAIN o.uops : o.uops[j].op \in AddressOps /\ ~o.uops[j].elim
           now     == IF is_idy THEN pointer ELSE IF changes THEN -1 ELSE base
           cut     == IF ~is_idy \/ pointer # base THEN ops
                      ELSE [ops EXCEPT ![k] = SetUop(SetUop(@, "addr_set", Drop1),
                                                     "addr_base_load_16bit_wrap", Drop1)]
       IN  EliminateModeLoads(cut, k + 1, IF now # -1 /\ KeepsBase(o, now) THEN now ELSE -1)

-----------------------------------------------------------------------------
(* jit_optimizer_optimize_pre_rewrite, jit_optimizer_optimize_post_rewrite *)
OptimizePreRewrite(ops) ==
  CollapseDelayLoops(CollapseIndefiniteLoops(
    ReplaceUops(KnownValues(MergeOpcodes(ops, 1, 0), 1, Unknown), 1, FALSE)))
OptimizePostRewrite(ops) ==
  EliminateModeLoads(
    MergeCountdowns(EliminateAxy(EliminateCv(EliminateNz(ops, 1, Nowhere), 1, Nowhere, Nowhere),
                                 1, NoLoads), 1, Nowhere), 1, -1)

(* jit_compiler_prepare_compile_block and jit_compiler_execute_compile_block *)
Rewritten(ops) == [k \in DOMAIN ops |-> [ops[k] EXCEPT !.uops = Rewrite(@)]]
Prepare(env, dynamics) ==
  [ops |-> OptimizePostRewrite(Rewritten(
             CycleCounts(OptimizePreRewrite(Terminate(dynamics.ops)), 1, 0, 0))),
   sub |-> dynamics.sub]
Execute(start, ops, sub, code) ==
  [start |-> start, ops |-> ops, sub |-> sub, code |-> code,
   meta |-> Metadata(ops, code, <<>>, [cycles |-> 0, merge |-> FALSE, jit |-> 0])]
EmitBlock(start, block) == Execute(start, block.ops, block.sub, Emit(block.ops))
Compile(env) ==
  EmitBlock(env.start, Prepare(env, Dynamics(env, Bounds(env, env.start, <<>>), 1)))
=============================================================================
