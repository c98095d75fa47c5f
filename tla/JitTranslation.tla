----------------------------- MODULE JitTranslation -----------------------------
(***************************************************************************)
(* The JIT against the interpreter. A program is put together instruction by *)
(* instruction, compiled (JitOptimizer!Compile) and run: the block's host    *)
(* code from a start state, and the interpreter for as many cycles. However  *)
(* the block is left - by its last jump, because the countdown has run out,  *)
(* at a hardware register, a ROM or the ends of the stack, for an interrupt, *)
(* or at code that has been overwritten - the 6502 has to be the same.       *)
(*                                                                         *)
(* A block runs to where it is left without anything else in between: the    *)
(* JIT, its faults and the interpreter are on one thread.                    *)
(***************************************************************************)
EXTENDS JitOptimizer, Inturbo

CONSTANTS Families,    \* sets of instructions programs are made of, with their lengths
          Base,        \* where programs are
          Target,      \* where they jump to at the end
          Starts,      \* the states of the 6502 a block is entered in
          Countdowns,  \* and the countdowns
          Limits,      \* jit:max-opcodes, the opcodes of a block
          SpecialFrom  \* where reads and writes may be a register's or a ROM's

VARIABLES family, program, block, left
vars == <<family, program, block, left>>

NoBlock == [start |-> -1]
NotLeft == [how |-> "-"]

-----------------------------------------------------------------------------
(* An instruction is its bytes; Back is an offset to the program's start. *)
Back == 256
Assemble(instructions) ==
  LET flat == FlattenSeq(instructions) \o <<\h4C, Target % 256, Target \div 256>>
  IN  [i \in DOMAIN flat |-> IF flat[i] = Back THEN (256 - i) % 256 ELSE flat[i]]
Image(bytes) == [addr \in Base .. Base + Len(bytes) - 1 |-> bytes[addr - Base + 1]]
AddrOf(instructions, k) == Base + Len(FlattenSeq(SubSeq(instructions, 1, k - 1)))

(* What the compiler has seen of one instruction: nothing, the same opcode   *)
(* overwritten again and again, or different ones.                           *)
Pasts == {"none", "operand", "opcode", "sub"}
Repeated(opcode, modified) == [j \in 1 .. DynamicTrigger |-> [opcode |-> opcode, modified |-> modified]]
HistoryOf(m, addr, past) ==
  CASE past = "none"    -> <<>>
    [] past = "operand" -> addr :> Repeated(Peek(m, addr), TRUE)
    [] past = "opcode"  -> addr :> Repeated((Peek(m, addr) + 1) % 256, TRUE)
    [] past = "sub"     -> addr :> Repeated(Peek(m, addr), FALSE)
                             @@ (addr + 1) :> Repeated(Peek(m, addr + 1), FALSE)
Env(m, limit, addr, past) ==
  [m |-> m, start |-> Base, starts |-> {Base}, conts |-> {}, history |-> HistoryOf(m, addr, past),
   stale |-> IF past = "none" THEN {} ELSE {addr}, max_opcodes |-> limit, zero_page |-> TRUE]

-----------------------------------------------------------------------------
(* jit_metadata_get_6502_pc_from_host_pc *)
EntryAt(meta, p) ==
  LET at == {k \in DOMAIN meta : meta[k].jit <= p /\ ~meta[k].dyn_opcode}
      jit == meta[CHOOSE k \in at : \A j \in at : meta[j].jit <= meta[k].jit].jit
  IN  CHOOSE k \in at : meta[k].jit = jit /\ \A j \in at : meta[j].jit = jit => k <= j
EntryOf(meta, addr) == CHOOSE k \in DOMAIN meta : meta[k].addr = addr

(* The addresses whose bytes stop the block at this place of its code when   *)
(* they are overwritten; dynamic ones never do.                              *)
Guards(meta, p) ==
  UNION {{addr \in meta[k].addr .. meta[k].addr + meta[k].bytes - 1 :
            addr = meta[k].addr \/ ~meta[k].dyn_operand}
         : k \in {k \in DOMAIN meta : meta[k].jit = p /\ ~meta[k].dyn_opcode}}

JmpUop(code, p) ==
  LET from == code[p] IN SelectInSeq(code, LAMBDA e : e.k = from.k /\ e.j >= from.j + from.u.v1)
RECURSIVE Run(_, _, _)
Run(b, p, h) ==
  IF h.inv \cap Guards(b.meta, p) # {} THEN [h |-> [h EXCEPT !.out = "invalidated"], p |-> p]
  ELSE LET u == b.code[p].u
           done == Exec(u, h)
       IN  IF done.out # "" THEN [h |-> done, p |-> p]
           ELSE Run(b, IF u.op = "jmp_uop" THEN JmpUop(b.code, p) ELSE p + 1, done)

(* The block is left: jit_enter_interp, jit_handle_fault, jit_compile. *)
Bails == {"countdown", "irq", "interp", "fault"}
Fixed(h, entry) ==
  [h |-> [FixupState(h, entry, h.out = "invalidated") EXCEPT !.pc = entry.addr],
   has_fixups |-> entry.bail]
LeaveBlock(meta, h, p) ==
  IF h.out \in {"jump", "inturbo"} THEN [h |-> h, has_fixups |-> TRUE]
  ELSE Fixed(h, meta[IF h.out \in {"fault", "invalidated"} THEN EntryAt(meta, p)
                     ELSE EntryOf(meta, h.pc)])

RECURSIVE Interpret(_, _)
Interpret(s, cycles) == IF s.t >= cycles THEN s ELSE Interpret(Step(FALSE, s), cycles)

-----------------------------------------------------------------------------
Init == family \in Families /\ program = <<>> /\ block = NoBlock /\ left = NotLeft

Extend ==
  /\ block = NoBlock /\ Len(program) < family.length
  /\ \E instruction \in family.code : program' = Append(program, instruction)
  /\ UNCHANGED <<family, block, left>>

Loaded6502(compiled, m) ==
  [start |-> Base, code |-> compiled.code, meta |-> compiled.meta, m |-> m]
CompileBlock ==
  /\ block = NoBlock /\ program # <<>>
  /\ \E limit \in Limits, k \in DOMAIN program, past \in family.pasts :
       /\ past = "none" => k = 1
       /\ limit < 256 => limit = Len(program)
       /\ LET m == Image(Assemble(program))
          IN  block' = Loaded6502(Compile(Env(m, limit, AddrOf(program, k), past)), m)
  /\ UNCHANGED <<family, program, left>>

(* changed: an instruction whose last byte has been overwritten since, or 0. *)
Result(s, cd, how, end) ==
  [how |-> how, h |-> end.h, has_fixups |-> end.has_fixups, cycles |-> cd - end.h.cd,
   expected |-> Interpret(s, cd - end.h.cd)]
AfterRun(s, cd, run) == Result(s, cd, run.h.out, LeaveBlock(block.meta, run.h, run.p))
Enter ==
  /\ block # NoBlock /\ left = NotLeft
  /\ \E cpu \in Starts, cd \in Countdowns, changed \in 0 .. Len(program), irq \in BOOLEAN :
       /\ changed # 0 => family.modified /\ changed <= Len(block.meta)
       /\ irq => family.irq
       /\ LET last == IF changed = 0 THEN {} ELSE {AddrOf(program, changed + 1) - 1}
              m == [addr \in DOMAIN block.m |-> (block.m[addr] + Flag(addr \in last)) % 256]
              s == [cpu EXCEPT !.m = m @@ @, !.pc = Base]
          IN  left' = AfterRun(s, cd, Run(block, 1, [Host(s, cd, irq) EXCEPT !.inv = last]))
  /\ UNCHANGED <<family, program, block>>

Next == Extend \/ CompileBlock \/ Enter
Spec == Init /\ [][Next]_vars

-----------------------------------------------------------------------------
CpuOf(h) == [h EXCEPT !.c = h.sc, !.v = h.so]
SameCpu(p, q) ==
  /\ \A reg \in {"pc", "a", "x", "y", "s", "n", "z", "c", "v", "d", "i"} : p[reg] = q[reg]
  /\ SameMemory(p.m, q.m)
SameCycles(result) == result.h.cd >= 0 /\ result.cycles = result.expected.t
SameAfter(result) == SameCycles(result) /\ SameCpu(CpuOf(result.h), result.expected)

(* A block that runs to its last jump has done what the interpreter does in  *)
(* the same cycles: every merged, replaced and removed uop, every page       *)
(* crossing and branch given back, every collapsed loop.                     *)
BlockIsEquivalent == left.how \in {"jump", "inturbo"} => SameAfter(left)

(* Wherever the block bails out, the fixups put the 6502 in the state before *)
(* an instruction, with as many cycles given back as it has not taken: the   *)
(* interpreter does that instruction as if it had done all those before it.  *)
(* (Flags which that instruction sets, or the one after a NOP, may be stale.) *)
Proceed(s) == Interpret(s, s.t + (IF Peek(s.m, s.pc) = \hEA THEN 3 ELSE 1))
BailIsExact ==
  left.how \in Bails =>
    /\ left.has_fixups /\ SameCycles(left)
    /\ \A p, q \in {Proceed(s) : s \in {CpuOf(left.h), left.expected}} : SameCpu(p, q)

(* Code that has been overwritten, by this block or before it was entered,   *)
(* is not run: the block stops before it, in the state the 6502 then has,    *)
(* however many of its instructions have been merged or removed.             *)
InvalidationIsExact ==
  left.how = "invalidated" => left.has_fixups /\ SameAfter(left)

DispatchCycles(entry) ==
  IF entry.macro \in {"inline", "branch"} THEN entry.cycles
  ELSE MacroCycles(entry.macro, entry.mode, FALSE)
Accesses(entry) ==
  CASE entry.macro = "read" -> {"read"} [] entry.macro \in {"modify", "modify6"} -> {"read", "write"}
    [] entry.macro \in {"write", "writeSH"} -> {"write"}
    [] entry.macro \in {"inline", "branch"} -> OpMem(entry.type, entry.mode)
OtherCycles65c12 == {\h1E, \h3E, \h5C, \h5E, \h6C, \h7E}
AgreesWithTables(cmos, opcode, entry, type, mode) ==
  /\ entry.type = type
  /\ type # "kil" =>
       /\ entry.mode = mode /\ Bytes(mode) = ModeLength(mode) /\ Accesses(entry) = OpMem(type, mode)
       /\ (cmos /\ opcode \in OtherCycles65c12) # (DispatchCycles(entry) = OpCycles(type, mode))
(* An access that may be a hardware register's is made tick by tick: it      *)
(* takes the cycles of the access to memory, and interrupts are polled two   *)
(* cycles before its end.                                                    *)
TicksAgree(cmos, entry, crosses, bcd) ==
  LET path   == HardwarePath(cmos, entry.macro, entry.mode, crosses, bcd)
      ticks  == SelectSeq(path, LAMBDA e : e # "p")
      poll   == SelectInSeq(path, LAMBDA e : e \in {"p", "P"})
      before == SelectSeq(SubSeq(path, 1, poll - 1), LAMBDA e : e # "p")
      cycles == MacroCycles(entry.macro, entry.mode, crosses) + Flag(cmos /\ bcd)
  IN  poll # 0 /\ Len(ticks) = cycles /\ Len(before) = cycles - 2
PollsInTime(cmos, entry) ==
  entry.macro \notin {"inline", "branch"} /\ entry.mode \notin {"zpg", "zpx", "zpy"} =>
    \A crosses \in {FALSE} \cup {entry.mode \in {"abx", "aby", "idy"}},
       bcd \in {FALSE} \cup {entry.type \in {"adc", "sbc"}} : TicksAgree(cmos, entry, crosses, bcd)

(* The JIT plans with the tables of defs_6502.c and the interpreter runs its *)
(* own switch: they agree on every opcode of the NMOS 6502, and on all but   *)
(* the cycles of six opcodes on the 65C12, which the JIT does not compile;   *)
(* and the path of an access to a register takes the cycles they say.        *)
TablesAgree ==
  program # <<>> =>
    \A cmos \in BOOLEAN :
      LET opcode == program[1][1]
      IN  /\ AgreesWithTables(cmos, opcode, Dispatch(cmos, opcode), OpType(cmos, opcode),
                              OpMode(cmos, opcode))
          /\ PollsInTime(cmos, Dispatch(cmos, opcode))

(* What inturbo does not leave to the interpreter it does as the interpreter *)
(* would, in as many cycles, and only where nothing else could happen: no    *)
(* access is special, the countdown lasts, no waiting interrupt is unmasked. *)
(* Code at an address that is written is marked.                             *)
OnlyMemory(entry, s, limits) ==
  entry.macro # "inline" =>
    /\ "read" \in Accesses(entry) => Ea(entry.mode, s) < limits.read
    /\ "write" \in Accesses(entry) => Ea(entry.mode, s) < limits.write
Written(before, after) ==
  {addr \in DOMAIN after.m : Peek(after.m, addr) # Peek(before.m, addr)}
SameAsInterpreter(entry, s, after, h, limits) ==
  /\ SameCpu(CpuOf(h), after) /\ h.cd >= 0 /\ s.cd - h.cd = after.t
  /\ OnlyMemory(entry, s, limits) /\ (s.irq => after.i = 1)
  /\ entry.macro # "inline" => Written(s, after) \subseteq h.inv
TurboAgreesAt(h, limits, done) ==
  done.out = "interp" \/ SameAsInterpreter(Dispatch(FALSE, Peek(h.m, h.pc)), h, Step(FALSE, CpuOf(h)), done, limits)
InturboAgrees ==
  Len(program) = 1 /\ block = NoBlock =>
    \A cpu \in Starts, cd \in Countdowns, limits \in SpecialFrom, masked \in BOOLEAN :
      LET irq == masked /\ cpu.i = 1
          s == [cpu EXCEPT !.m = Image(Assemble(program)) @@ @, !.pc = Base]
      IN  TurboAgreesAt(Host(s, cd, irq), limits, TurboStep(TRUE, limits, Host(s, cd, irq)))
=============================================================================
