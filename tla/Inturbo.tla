-------------------------------- MODULE Inturbo --------------------------------
(***************************************************************************)
(* The fast interpreter of src/inturbo.c: one piece of host code for each of *)
(* the 256 opcodes, put together by inturbo_generate_opcode from the pieces  *)
(* of asm_inturbo_x64. It either does an instruction that is memory only and *)
(* cannot be interrupted, or leaves it, untouched, to the interpreter. It is *)
(* a CPU driver of its own, and the JIT runs one instruction of it where     *)
(* code is modified all the time (the uop "inturbo").                        *)
(*                                                                         *)
(* The host state is that of JitUops: carry and overflow are in sc and so,   *)
(* NZ in the host's flags. REG_SCRATCH1 is the address, REG_SCRATCH3 the     *)
(* countdown that is not committed yet. An opcode whose code is too long for *)
(* its slot goes to the interpreter as well: which do is the host            *)
(* assembler's business, and nothing depends on it.                          *)
(***************************************************************************)
EXTENDS JitCompiler

(* The cases of the switch over the operation. *)
Native == DOMAIN UopName \cup {"brk", "cli", "jmp", "jsr", "plp", "rti", "rts"}

(* Straight to the interpreter: decimal mode, and whatever could unmask an   *)
(* interrupt that is waiting.                                                *)
Preflight(type, h) ==
  CASE type \in {"adc", "sbc"}        -> h.d = 0
    [] type \in {"cli", "plp", "rti"} -> ~h.irq
    [] OTHER                          -> TRUE

-----------------------------------------------------------------------------
(* asm_inturbo_mode_*: 32 bits, so an index may lead past 65535. *)
PointerAt(mode, h) == (Peek(h.m, h.pc + 1) + (IF mode = "idx" THEN h.x ELSE 0)) % 256
Pointer(h, p) == Peek(h.m, p) + 256 * Peek(h.m, p + 1)
TurboBase(mode, h) ==
  CASE mode \in {"zpg", "zpx", "zpy"} -> Peek(h.m, h.pc + 1)
    [] mode \in {"abs", "abx", "aby", "ind"} -> Pointer(h, h.pc + 1)
    [] mode \in {"idx", "idy"} -> Pointer(h, PointerAt(mode, h))
    [] OTHER -> 0
TurboAddress(mode, h) ==
  LET base == TurboBase(mode, h)
  IN  CASE mode = "zpx" -> (base + h.x) % 256
        [] mode = "zpy" -> (base + h.y) % 256
        [] mode = "abx" -> base + h.x
        [] mode \in {"aby", "idy"} -> base + h.y
        [] mode = "ind" -> Peek(h.m, base) + 256 * Peek(h.m, 256 * (base \div 256) + ((base + 1) % 256))
        [] OTHER -> base
PointerIsAnything(mode, h) == TRUE
PointerIsWhole(mode, h) == mode \in {"idx", "idy"} => PointerAt(mode, h) # 255
(* Bit 16 after the distance from the first special address to 65536 is added. *)
IsSpecial(mode, addr, limit) ==
  mode \in {"abs", "abx", "aby", "idx", "idy"} /\ ((addr + 65536 - limit) \div 65536) % 2 = 1

TurboCrosses(mode, h) ==
  CASE mode = "abx" -> (TurboBase(mode, h) % 256) + h.x >= 256
    [] mode \in {"aby", "idy"} -> (TurboBase(mode, h) % 256) + h.y >= 256
    [] OTHER -> FALSE
(* A taken branch to the same page: bit 8 of the two addresses is the same. *)
TurboTarget(h) == h.pc + 2 + Signed(Peek(h.m, h.pc + 1))
TurboGoes(type, h) ==
  Goes(UopName[type], [h EXCEPT !.c = IF type \in {"bvc", "bvs"} THEN h.so ELSE h.sc])
BranchCycles(type, h) ==
  IF ~TurboGoes(type, h) THEN 0
  ELSE 2 - Flag(((h.pc + 2) \div 256) % 2 = (TurboTarget(h) \div 256) % 2)
ExtraCycles(accurate, type, mode, h) ==
  CASE ~accurate -> 0
    [] mode = "rel" -> BranchCycles(type, h)
    [] OpMem(type, mode) = {"read"} -> Flag(TurboCrosses(mode, h))
    [] OTHER -> 0

-----------------------------------------------------------------------------
(* asm_instruction_*_interp. What is not committed here: memory, the PC. *)
SavesCarry == {"adc", "sbc", "cmp", "cpx", "cpy", "alr", "asl", "lsr", "rol", "ror", "slo"}
Inverted == {"sbc", "cmp", "cpx", "cpy"}
CarryIn(type, h) ==
  [h EXCEPT !.c = CASE type \in {"adc", "rol", "ror"} -> h.sc
                    [] type = "sbc" -> 1 - h.sc
                    [] OTHER -> 0]
Saved(type, done) ==
  [done EXCEPT !.sc = CASE type \in Inverted -> 1 - done.c
                        [] type \in SavesCarry -> done.c
                        [] OTHER -> @,
               !.so = IF type \in {"adc", "sbc"} THEN done.v ELSE @]
(* opreg: the operations whose code leaves the NZ flags to a test. *)
Tested(type, h) ==
  CASE type \in {"lda", "pla", "txa", "tya"} -> Test(h, h.a)
    [] type \in {"ldx", "tax", "tsx"}        -> Test(h, h.x)
    [] type \in {"ldy", "tay"}               -> Test(h, h.y)
    [] type \in {"rol", "ror"}               -> Test(h, h.val)
    [] OTHER                                 -> h
TurboPushWord(h, v) == Push(Push(h, v \div 256), v % 256)
TurboPullWord(h) == [Drop(h, 2) EXCEPT !.ea = Top(h, 1) + 256 * Top(h, 2)]
TurboPullFlags(h) == ExecPlp([Drop(h, 1) EXCEPT !.ea = Top(h, 1)])

TurboJumps == {"brk", "jmp", "jsr", "rti", "rts"} \cup MayBranch
TurboJump(type, h, addr) ==
  CASE type = "jmp" -> [h EXCEPT !.pc = addr]
    [] type = "jsr" -> LET pushed == TurboPushWord(h, h.pc + 2)
                       IN  [pushed EXCEPT !.pc = Peek(h.m, h.pc + 1) + 256 * Peek(pushed.m, h.pc + 2)]
    [] type = "rts" -> LET pulled == TurboPullWord(h) IN [pulled EXCEPT !.pc = pulled.ea + 1]
    [] type = "rti" -> LET pulled == TurboPullWord(TurboPullFlags(h)) IN [pulled EXCEPT !.pc = pulled.ea]
    [] type = "brk" -> [ExecPhp(TurboPushWord(h, h.pc + 2)) EXCEPT !.i = 1, !.pc = Word(h.m, 65534)]
    [] type \in MayBranch -> [h EXCEPT !.pc = IF TurboGoes(type, h) THEN TurboTarget(h) ELSE h.pc + 2]

(* Stores and modifications leave in val what goes to the address. *)
StoredBy(type, h) ==
  CASE type = "sta" -> h.a [] type = "stx" -> h.x [] type = "sty" -> h.y
    [] type = "sax" -> And(h.a, h.x)
TurboBit(h, v) == [h EXCEPT !.so = Bit6(v), !.n = Bit7(v), !.z = Flag(And(h.a, v) = 0)]
Operation(type, mode, h, v) ==
  CASE type = "nop"                 -> h
    [] type = "bit"                 -> TurboBit(h, v)
    [] type = "plp"                 -> TurboPullFlags(h)
    [] type = "cli"                 -> [h EXCEPT !.i = 0]
    [] type \in {"sta", "stx", "sty", "sax"} -> [h EXCEPT !.val = StoredBy(type, h)]
    [] UopName[type] \in ReadUops   -> Read(UopName[type], CarryIn(type, h), v)
    [] UopName[type] \in ModifyUops -> Modify(UopName[type], CarryIn(type, h), v)
    [] type \in {"inx", "iny", "dex", "dey"} -> Exec(Uop1(UopName[type], 1), h)
    [] OTHER                        -> Exec(Uop0(UopName[type]), h)
ValueOf(mode, h, addr) ==
  CASE mode = "imm" -> Peek(h.m, h.pc + 1) [] mode = "acc" -> h.a [] OTHER -> Peek(h.m, addr)

(* The write marks the code at its address, then the PC moves on. *)
Commit(type, mode, done, addr, writes) ==
  [done EXCEPT !.a = IF mode = "acc" THEN done.val ELSE @,
               !.m = IF writes THEN Poke(@, addr, done.val) ELSE @,
               !.inv = IF writes THEN @ \cup {addr} ELSE @,
               !.pc = @ + ModeLength(mode)]
TurboCommit(type, mode, h, addr) ==
  IF type \in TurboJumps THEN TurboJump(type, h, addr)
  ELSE Commit(type, mode, Tested(type, Saved(type, Operation(type, mode, h, ValueOf(mode, h, addr)))),
              addr, "write" \in OpMem(type, mode))

HandsOver(h) == [h EXCEPT !.out = "interp"]
(* One opcode, compiled for the limits above which an access is special. *)
TurboOp(limits, type, mode, h, addr, cd) ==
  IF \/ type \notin Native \/ ~Preflight(type, h) \/ ~PointerIsWhole(mode, h)
     \/ type # "jsr" /\ IsSpecial(mode, addr, IF "write" \in OpMem(type, mode) THEN limits.write
                                              ELSE limits.read)
     \/ cd < 0
  THEN HandsOver(h)
  ELSE [TurboCommit(type, mode, h, addr) EXCEPT !.cd = cd]
TurboStep(accurate, limits, h) ==
  LET opcode == Peek(h.m, h.pc)
      type   == OpType(FALSE, opcode)
      mode   == OpMode(FALSE, opcode)
  IN  TurboOp(limits, type, mode, h, TurboAddress(mode, h),
              h.cd - OpCycles(type, mode) - ExtraCycles(accurate, type, mode, h))
=============================================================================
