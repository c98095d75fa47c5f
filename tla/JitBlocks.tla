------------------------------- MODULE JitBlocks -------------------------------
(***************************************************************************)
(* Which host code the JIT runs, and when it is given up: src/jit.c and      *)
(* src/jit_metadata.c, with the bounds and the metadata of jit_compiler.c.   *)
(* What the code of an instruction does is in JitTranslation; here it only   *)
(* matters which bytes it was compiled from.                                 *)
(*                                                                         *)
(* Every address of the 6502 owns a slot of host memory. A block fills the   *)
(* slot of its first address and goes on in the slots after it, past the     *)
(* invalidation marker that each of those begins with. A place is a slot     *)
(* and an offset; offset 0 is where a jump to the slot's address goes.       *)
(*                                                                         *)
(* Memory is a few bytes: a zero page, RAM, and a ROM area whose banks a     *)
(* write to Romsel swaps. Everything here is on one thread, but a block is   *)
(* left, and memory changed, between any two instructions.                   *)
(***************************************************************************)
EXTENDS Integers, Sequences, FiniteSets, TLC

CONSTANTS
  LastAddr,    \* the last address; k_6502_addr_space_size - 1
  ZeroPage,    \* the last address of the zero page: 255
  RomArea,       \* the addresses of the sideways ROM
  Banks,       \* what may be there
  Romsel,      \* a register: beyond LastAddr
  OpOf,        \* the kind of instruction each byte is the opcode of
  Images,      \* what memory holds first
  Stored,      \* the values stored at each address
  Targets,     \* where RTS and RTI go
  PerSlot,     \* instructions whose code fits in a slot
  MaxOps,      \* jit:max-opcodes
  MaxStores,   \* bound on what is stored
  MaxCompiles  \* bound on compilations

Addr == 0 .. LastAddr
Value == Addr \cup {Romsel}
Op == {"nop", "jmp", "rts", "sta", "zpg"}
BlocksAssumption ==
  /\ LastAddr \in Nat /\ ZeroPage \in Addr /\ RomArea \subseteq Addr /\ Romsel \in Nat /\ Romsel > LastAddr
  /\ PerSlot \in Nat /\ PerSlot > 1 /\ MaxOps \in Nat
  /\ OpOf \in [Value -> Op] /\ Images \subseteq [Addr -> Value] /\ Banks \subseteq [RomArea -> Value]
  /\ Stored \in [Addr -> SUBSET Value] /\ Targets \subseteq Addr

NoBlock == -1
NoCode == <<-1, 0>>
Dynamic == <<-2, 0>>
Mark == [k |-> "mark"]
Trap == [k |-> "trap"]

VARIABLES
  mem,      \* p_mem_read
  block,    \* jit_metadata.code_blocks
  ptr,      \* jit_metadata.p_jit_ptrs
  host,     \* the JIT mapping, by slot and offset
  flags,    \* k_addr_flag_block_start and k_addr_flag_block_continuation
  zero,     \* compile_for_code_in_zero_page
  history,  \* the addresses whose recent compilations were of modified code
  thread,   \* who runs, at which address, and the host's place
  allowed   \* how many stores and compilations are left
blockVars == <<mem, block, ptr, host, flags, zero, history, thread, allowed>>

-----------------------------------------------------------------------------
(* The 6502's side: an instruction, what it writes, and where it goes. zpg   *)
(* is a store to the zero page.                                              *)
Bytes(op) == IF op \in {"sta", "zpg", "jmp"} THEN 2 ELSE 1
InstructionAt(image, at) ==
  LET op == OpOf[image[at]]
  IN  [at |-> at, op |-> op, arg |-> IF Bytes(op) = 2 THEN image[at + 1] ELSE 0, end |-> at + Bytes(op),
       kind |-> "plain"]
Stores(i) == i.op \in {"sta", "zpg"}
StoresTo(i, arg) == IF i.op = "zpg" THEN arg % (ZeroPage + 1) ELSE arg
ToRegister(i, arg) == Stores(i) /\ StoresTo(i, arg) = Romsel
EndsBlock(i) == i.op \in {"jmp", "rts"} \/ ToRegister(i, i.arg)
Successors(i) == CASE i.op = "jmp" -> {i.arg} [] i.op = "rts" -> Targets [] OTHER -> {i.end}
WrittenTo(image, addr, value) == IF addr \in RomArea THEN image ELSE [image EXCEPT ![addr] = value]

-----------------------------------------------------------------------------
(* jit_metadata *)
Slot(addr) == <<addr, 0>>
PlaceOf(s, k) ==
  IF k < PerSlot THEN <<s, k>>
  ELSE <<s + 1 + ((k - PerSlot) \div (PerSlot - 1)), 1 + ((k - PerSlot) % (PerSlot - 1))>>
NotAfter(p, q) == p[1] < q[1] \/ (p[1] = q[1] /\ p[2] <= q[2])
HostAt(p) == host[p[1]][p[2]]
(* asm_jit_invalidate_code_at. The special pointers lead to a page of their own. *)
Invalidated(h, p) == IF p \in {NoCode, Dynamic} THEN h ELSE [h EXCEPT ![p[1]][p[2]] = Mark]
HasInvalidatedCode(at) == ptr[at] = Dynamic \/ (ptr[at] # NoCode /\ HostAt(ptr[at]) = Mark)
(* The addresses from addr on that are in its block. *)
Extent(b, addr) == {a \in addr .. LastAddr : \A c \in addr .. a : b[c] = b[addr]}
With(f, extent, value) == [a \in DOMAIN f |-> IF a \in extent THEN value ELSE f[a]]

(* jit_metadata_get_6502_pc_from_host_pc *)
Known(p) == {a \in Extent(block, block[p[1]]) : ptr[a] \notin {NoCode, Dynamic} /\ NotAfter(ptr[a], p)}
PcOf(p) ==
  IF p[2] = 0 THEN p[1]
  ELSE LET last == CHOOSE a \in Known(p) : \A c \in Known(p) : NotAfter(ptr[c], ptr[a])
       IN  CHOOSE a \in Known(p) : ptr[a] = ptr[last] /\ \A c \in Known(p) : ptr[c] = ptr[a] => a <= c

-----------------------------------------------------------------------------
(* jit_compiler_find_compile_bounds: the instructions of a block from addr,  *)
(* one after the other, up to the first that ends it.                        *)
Sequels(addr, n) ==
  {at \in [1 .. n -> addr .. LastAddr] :
     at[1] = addr /\ \A k \in 1 .. n - 1 : at[k + 1] = InstructionAt(mem, at[k]).end}
Bounds(known, addr) ==
  {list \in {[k \in DOMAIN at |-> InstructionAt(mem, at[k])] : at \in UNION {Sequels(addr, n) : n \in 1 .. MaxOps}} :
     \A k \in DOMAIN list :
       (k = Len(list)) = (EndsBlock(list[k]) \/ list[k].end \in known \/ k = MaxOps)}
Continues(known, list) ==
  LET i == list[Len(list)] IN ~EndsBlock(i) /\ i.end \notin known /\ Len(list) = MaxOps

(* jit_compiler_check_dynamics. How often an address has been compiled is    *)
(* left open: code that has been modified may get a dynamic operand, or a    *)
(* dynamic opcode, which inturbo runs and which ends the block; and a block  *)
(* may end after an instruction whose operand is also run as an instruction, *)
(* through inturbo in the operand's slot.                                    *)
Modified(i) == i.at \in history \/ HasInvalidatedCode(i.at) \/ (Bytes(i.op) = 2 /\ ptr[i.at + 1] = Dynamic)
Kinds(i) ==
  IF Modified(i) THEN {"opcode"} \cup {kind \in {"operand"} : Stores(i) /\ ~EndsBlock(i)}
  ELSE {kind \in {"jumped_into"} : Bytes(i.op) = 2 /\ Bytes(OpOf[mem[i.at + 1]]) = 1}
Chosen(list, k, kind) ==
  [j \in 1 .. (IF kind \in {"opcode", "jumped_into"} THEN k ELSE Len(list)) |->
     [list[j] EXCEPT !.kind = IF j = k THEN kind ELSE "plain"]]
Compilations(list) ==
  {Chosen(list, 0, "plain")} \cup
  UNION {{Chosen(list, k, kind) : kind \in Kinds(list[k])} : k \in DOMAIN list}

(* jit_compiler_emit_uops. Writes to the zero page mark code only if there   *)
(* may be code. The JMP that ends a block goes to the slot of what follows.  *)
CellOf(i, z, next) ==
  CASE i.kind = "opcode"     -> [k |-> "inturbo", at |-> i.at]
    [] i.kind # "opcode" /\ ToRegister(i, i.arg) -> [k |-> "interp", at |-> i.at]
    [] OTHER -> [k |-> "run", i |-> i, next |-> next, marks |-> i.op = "sta" \/ z]
CellAt(s, list, z, p) ==
  LET at == {k \in DOMAIN list : PlaceOf(s, k - 1) = p}
      k  == CHOOSE k \in at : TRUE
  IN  CASE at # {} -> CellOf(list[k], z, IF k < Len(list) THEN PlaceOf(s, k) ELSE Slot(list[k].end))
        [] at = {} /\ p[2] = 0 -> Mark
        [] OTHER -> Trap
Emitted(h, s, list, z) ==
  LET used  == {PlaceOf(s, k - 1)[1] : k \in DOMAIN list}
      final == list[Len(list)]
  IN  [a \in Addr |->
         IF a \in used THEN [j \in 0 .. PerSlot - 1 |-> CellAt(s, list, z, <<a, j>>)]
         ELSE IF a \in s .. final.end - 1
           THEN [h[a] EXCEPT ![0] = IF final.kind = "jumped_into" /\ a = final.at + 1
                                    THEN [k |-> "inturbo", at |-> a] ELSE Mark]
         ELSE h[a]]
(* jit_compiler_update_metadata *)
PtrOf(i, a, place) ==
  IF i.kind = "opcode" \/ (i.kind = "operand" /\ a # i.at) THEN Dynamic ELSE place
NewPtrs(p, s, list) ==
  [a \in Addr |->
     LET at == {k \in DOMAIN list : a \in list[k].at .. list[k].end - 1}
         k  == CHOOSE k \in at : TRUE
     IN  IF at = {} THEN p[a] ELSE PtrOf(list[k], a, PlaceOf(s, k - 1))]

-----------------------------------------------------------------------------
(* jit_memory_range_invalidate *)
Emptied(st, range) ==
  [block |-> With(st.block, range, NoBlock),
   ptr   |-> With(st.ptr, range, NoCode),
   host  |-> [a \in Addr |-> IF a \in range /\ st.block[a] = a THEN Invalidated(st.host, st.ptr[a])[a]
                             ELSE st.host[a]],
   flags |-> [start |-> st.flags.start \ range, cont |-> st.flags.cont \ range]]
Now == [block |-> block, ptr |-> ptr, host |-> host, flags |-> flags]
Becomes(st) == block' = st.block /\ ptr' = st.ptr /\ host' = st.host /\ flags' = st.flags
(* jit_metadata_clear_block *)
ClearBlock(st, addr) ==
  [block |-> With(st.block, Extent(st.block, addr), NoBlock),
   ptr   |-> With(st.ptr, Extent(st.block, addr), NoCode),
   host  |-> st.host, flags |-> st.flags]
SplitBefore(st, old, addr) ==
  IF old \in {NoBlock, addr} THEN st
  ELSE [ClearBlock(st, old) EXCEPT !.host = Invalidated(@, Slot(old))]
SplitAfterForgotten(st, end) == st  \* a mutant
SplitAfter(st, end) ==
  IF st.block[end] # NoBlock /\ st.block[end] < end THEN ClearBlock(st, end) ELSE st

(* jit_compile, and the host goes on at the block's start. *)
StartFlags(fl, addr, invalidation) ==
  [fl EXCEPT !.start = IF addr \in fl.start \/ (~invalidation /\ addr \notin fl.cont)
                       THEN @ \cup {addr} ELSE @ \ {addr}]
EndFlags(fl, list, end) ==
  LET inside == list[1].at + 1 .. end - 1
  IN  [start |-> fl.start \ inside, cont |-> fl.cont \ inside]
BoundFlags(fl, list) ==
  LET end == list[Len(list)].end
  IN  [fl EXCEPT !.cont = IF Continues(fl.start, list) THEN @ \cup {end} ELSE @ \ {end}]
Compiled(st, addr, list, fl) ==
  LET end == list[Len(list)].end
  IN  SplitAfter(SplitBefore([block |-> With(st.block, addr .. end - 1, addr),
                              ptr   |-> NewPtrs(st.ptr, addr, list),
                              host  |-> Emitted(st.host, addr, list, zero'),
                              flags |-> EndFlags(fl, list, end)], block[addr], addr), end)
IsInvalidation(p, addr) == p[2] # 0 \/ addr = block[addr]
NeedsZeroPage(addr) == addr < ZeroPage /\ ~zero
CompileFrom(st, addr, fl) ==
  \E bounds \in Bounds(fl.start, addr) : \E list \in Compilations(bounds) :
    /\ Becomes(Compiled(st, addr, list, BoundFlags(fl, bounds)))
    /\ history' = history \cup {list[k].at : k \in {k \in DOMAIN list : Modified(list[k])}}
Compile ==
  /\ thread.who = "jit" /\ HostAt(thread.at) = Mark /\ allowed.compiles > 0
  /\ LET addr == PcOf(thread.at)
         st   == IF NeedsZeroPage(addr) THEN Emptied(Now, 0 .. LastAddr - 1) ELSE Now
     IN  /\ zero' = (zero \/ NeedsZeroPage(addr))
         /\ CompileFrom(st, addr, StartFlags(st.flags, addr, IsInvalidation(thread.at, addr)))
         /\ thread' = [thread EXCEPT !.at = Slot(addr)]
  /\ allowed' = [allowed EXCEPT !.compiles = @ - 1] /\ UNCHANGED mem

-----------------------------------------------------------------------------
JitAt(addr) == [who |-> "jit", pc |-> addr, at |-> Slot(addr)]
Interpreter(addr) == [who |-> "interp", pc |-> addr, at |-> NoCode]
Metadata == <<block, ptr, flags, zero, history>>

(* The code of an instruction. A dynamic operand that is a register's        *)
(* address faults.                                                           *)
ArgOf(i) == IF i.kind = "operand" THEN mem[i.at + 1] ELSE i.arg
\* A mutant: what the interpreter writes is not looked for.
StoreByJit(addr, marks) ==
  /\ allowed.stores > 0 /\ allowed' = [allowed EXCEPT !.stores = @ - 1]
  /\ \E value \in Stored[addr] : mem' = WrittenTo(mem, addr, value)
  /\ host' = IF marks /\ thread.who = "jit" THEN Invalidated(host, ptr[addr]) ELSE host
StoreAt(addr, marks) ==
  /\ allowed.stores > 0 /\ allowed' = [allowed EXCEPT !.stores = @ - 1]
  /\ \E value \in Stored[addr] : mem' = WrittenTo(mem, addr, value)
  /\ host' = IF marks THEN Invalidated(host, ptr[addr]) ELSE host
Goes(cell) ==
  \E pc \in Successors(cell.i) :
    thread' = [who |-> "jit", pc |-> pc, at |-> IF cell.i.op \in {"jmp", "rts"} THEN Slot(pc) ELSE cell.next]
Run ==
  /\ thread.who = "jit" /\ HostAt(thread.at).k = "run"
  /\ LET cell == HostAt(thread.at)
         i    == cell.i
     IN  /\ ~ToRegister(i, ArgOf(i)) /\ Goes(cell)
         /\ Stores(i) => StoreAt(StoresTo(i, ArgOf(i)), cell.marks)
         /\ ~Stores(i) => UNCHANGED <<mem, host, allowed>>
  /\ UNCHANGED Metadata

(* jit_enter_interp: the countdown or an interrupt, before any instruction;  *)
(* an access that the JIT leaves to the interpreter; and jit_handle_fault.   *)
EnterInterp == thread' = Interpreter(thread.pc) /\ UNCHANGED <<mem, host, allowed>> /\ UNCHANGED Metadata
LeaveJit == thread.who = "jit" /\ HostAt(thread.at).k \in {"run", "interp"} /\ EnterInterp
Fault ==
  /\ thread.who = "jit" /\ HostAt(thread.at).k = "run"
  /\ LET i == HostAt(thread.at).i IN ToRegister(i, ArgOf(i))
  /\ EnterInterp

(* One instruction of inturbo, which marks code that it writes to. *)
Inturbo ==
  /\ thread.who = "jit" /\ HostAt(thread.at).k = "inturbo"
  /\ LET i == InstructionAt(mem, thread.pc)
     IN  /\ Stores(i) /\ ~ToRegister(i, i.arg) => StoreAt(StoresTo(i, i.arg), TRUE)
         /\ (Stores(i) => ToRegister(i, i.arg)) => UNCHANGED <<mem, host, allowed>>
         /\ IF ToRegister(i, i.arg) THEN thread' = Interpreter(thread.pc)
            ELSE \E pc \in Successors(i) : thread' = JitAt(pc)
  /\ UNCHANGED Metadata

(* jit_interp_instruction_callback: the code at a byte that was written is   *)
(* marked, and the JIT goes on where a block starts or nothing is compiled.  *)
Page ==
  /\ allowed.stores > 0 /\ allowed' = [allowed EXCEPT !.stores = @ - 1]
  /\ \E bank \in Banks : mem' = [a \in Addr |-> IF a \in RomArea THEN bank[a] ELSE mem[a]]
  /\ Becomes(Emptied(Now, RomArea))
\* A mutant: the neighbour on the other side.
ReturnsAfter(b, pc) == b[pc] = NoBlock \/ b[pc] # b[IF pc = LastAddr THEN 0 ELSE pc + 1]
Returns(b, pc) == b[pc] = NoBlock \/ b[pc] # b[IF pc = 0 THEN LastAddr ELSE pc - 1]
Interpret(i) ==
  /\ ToRegister(i, i.arg) => Page
  /\ Stores(i) /\ ~ToRegister(i, i.arg) =>
       StoreAt(StoresTo(i, i.arg), block[StoresTo(i, i.arg)] # NoBlock) /\ UNCHANGED <<block, ptr, flags>>
  /\ ~Stores(i) => UNCHANGED <<mem, allowed, block, ptr, host, flags>>
  /\ UNCHANGED <<zero, history>>
(* stay: an interrupt is pending, or memory writes are watched. *)
Interp ==
  /\ thread.who = "interp" /\ Interpret(InstructionAt(mem, thread.pc))
  /\ \E pc \in Successors(InstructionAt(mem, thread.pc)), stay \in BOOLEAN :
       thread' = IF ~stay /\ Returns(block', pc) THEN JitAt(pc) ELSE Interpreter(pc)
Interrupt ==
  /\ thread.who = "interp" /\ \E pc \in Targets : thread' = Interpreter(pc)
  /\ UNCHANGED <<mem, host, allowed>> /\ UNCHANGED Metadata

(* jit_cleanup_stale_code, from a timer: blocks with modified code go, and   *)
(* that code will be dynamic.                                                *)
IsMarked(a) == ptr[a] \notin {NoCode, Dynamic} /\ HostAt(ptr[a]) = Mark
StaleBlocks == {block[a] : a \in {a \in Addr : block[a] # NoBlock /\ IsMarked(a)}}
Sweep ==
  /\ thread.who = "interp" /\ StaleBlocks # {}
  /\ LET swept == {a \in Addr : block[a] \in StaleBlocks}
     IN  /\ block' = With(block, swept, NoBlock) /\ ptr' = With(ptr, swept, NoCode)
         /\ history' = history \cup {a \in swept : IsMarked(a)}
  /\ host' = [a \in Addr |-> IF a \in StaleBlocks THEN [host[a] EXCEPT ![0] = Mark] ELSE host[a]]
  /\ UNCHANGED <<mem, flags, zero, thread, allowed>>

BlocksInit ==
  /\ mem \in Images /\ block = [a \in Addr |-> NoBlock] /\ ptr = [a \in Addr |-> NoCode]
  /\ host = [a \in Addr |-> [j \in 0 .. PerSlot - 1 |-> IF j = 0 THEN Mark ELSE Trap]]
  /\ flags = [start |-> {}, cont |-> {}] /\ zero = FALSE /\ history = {}
  /\ \E pc \in Targets : thread = JitAt(pc)
  /\ allowed = [stores |-> MaxStores, compiles |-> MaxCompiles]
BlocksNext == Compile \/ Run \/ LeaveJit \/ Fault \/ Inturbo \/ Interp \/ Interrupt \/ Sweep
BlocksSpec == BlocksInit /\ [][BlocksNext]_blockVars

-----------------------------------------------------------------------------
(* What the program is, for the properties below: it does not run at the end *)
(* of memory, nor across the edges of the sideways ROM, since paging gives   *)
(* up the blocks that begin there; nor does it change code at the last byte  *)
(* of the zero page while code there is not looked after, since jit_compile  *)
(* looks for code below that byte.                                           *)
CodeStays ==
  /\ thread.pc \in 0 .. LastAddr - 1 /\ block[LastAddr] = NoBlock
  /\ \A a \in Addr : block[a] # NoBlock => (a \in RomArea) = (block[a] \in RomArea)
  /\ ~zero /\ block[ZeroPage] # NoBlock => Stored[ZeroPage] \subseteq {mem[ZeroPage]}

(* The host code that runs next was made from the bytes that memory holds    *)
(* now, its dynamic operand aside, whichever of the JIT, inturbo and the     *)
(* interpreter has written there, or paged, since.                           *)
SameBytes(i, image) ==
  LET now == InstructionAt(image, i.at)
  IN  now.op = i.op /\ (i.kind = "operand" \/ now.arg = i.arg)
RunsWhatMemoryHolds ==
  thread.who = "jit" =>
    LET cell == HostAt(thread.at)
    IN  /\ cell # Trap
        /\ cell.k = "run" => cell.i.at = thread.pc /\ SameBytes(cell.i, mem)
        /\ cell.k \in {"interp", "inturbo"} => cell.at = thread.pc
        /\ cell.k = "interp" => ToRegister(InstructionAt(mem, thread.pc), mem[thread.pc + 1])

(* The metadata say where the 6502 is, wherever in its block's host code it  *)
(* is stopped; blocks are whole, from their first address on, and an address *)
(* has a pointer as long as it is in a block.                                *)
BlocksAgree ==
  /\ \A a \in Addr :
       /\ (block[a] = NoBlock) = (ptr[a] = NoCode)
       /\ block[a] # NoBlock => a \in Extent(block, block[a]) /\ block[block[a]] = block[a]
       /\ ~zero /\ a < ZeroPage => block[a] = NoBlock
  /\ thread.who = "jit" =>
       /\ thread.at[2] # 0 => block[thread.at[1]] # NoBlock
       /\ thread.at[2] # 0 /\ HostAt(thread.at).k \in {"run", "mark"} => PcOf(thread.at) = thread.pc

(* The interpreter goes back to the JIT where a block starts, or nothing is  *)
(* compiled: what it does in between (interrupts) does not split blocks.     *)
ReturnsToAStart ==
  thread.who = "interp" /\ thread'.who = "jit" => block'[thread'.pc] \in {NoBlock, thread'.pc}

(* Both, of jit_metadata at all times.                                       *)
MetadataIsCoherent == []BlocksAgree /\ [][ReturnsToAStart]_blockVars
=============================================================================
