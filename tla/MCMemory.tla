------------------------------ MODULE MCMemory ------------------------------
(* Small instances of Memory, the registers at their addresses (Bus), or, the *)
(* memory left alone, the sound chip and its way to the host (Sound); or the  *)
(* host code that the JIT makes from a smaller memory (JitBlocks).            *)
EXTENDS Memory, JitBlocks
CONSTANTS Divider, LowMod, HighMod, NoisePeriods, RngTop, PerFrame, BufferSize, PeriodSize, Commands, ResetsEarly,
          MaxTime, MaxWrites
VARIABLE sound
NoSound == sound = [failed |-> "silent"]
Silent == sound.failed = "silent"
\* What the proofs about JitBlocks assume of its constants.
ASSUME MemoryIsAssumed == BlocksAssumption
Registers == INSTANCE Bus
Sn == INSTANCE Sound
MCRomOf(b) == 3 + b
MCFitted == {
  [master |-> TRUE, rom |-> {0, 3}, ram |-> {2}],
  [master |-> FALSE, rom |-> {0, 1, 3}, ram |-> {1, 2}],
  [master |-> FALSE, rom |-> {2}, ram |-> {3}],
  [master |-> FALSE, rom |-> {3}, ram |-> {2}] }  \* 2 is its first bank

MCNoisePeriods == <<1, 2, 3>>
MCPerFrame == <<3, 2>>
\* Tone 2 and the noise that follows it, by both kinds of byte, and a volume.
SomeCommands ==
  {[latch |-> TRUE, channel |-> 2, volume |-> FALSE, data |-> 1],
   [latch |-> TRUE, channel |-> 2, volume |-> TRUE, data |-> 12],
   [latch |-> TRUE, channel |-> 3, volume |-> FALSE, data |-> 3],
   [latch |-> FALSE, channel |-> 0, volume |-> FALSE, data |-> 5]}

(* A zero page of two bytes, five bytes of RAM, a ROM of two; 10 is a register. *)
MCOpOf == [v \in 0 .. 10 |->
  CASE v = 2 -> "rts" [] v = 3 -> "jmp" [] v = 4 -> "sta" [] v = 5 -> "zpg" [] OTHER -> "nop"]
MCRomArea == {7, 8}
MCBanks == {7 :> 0 @@ 8 :> 2, 7 :> 2 @@ 8 :> 2}
MemoryImage(zero_page, ram) ==
  [a \in 0 .. 9 |-> CASE a < 2 -> zero_page[a + 1] [] a < 7 -> ram[a - 1] [] a = 7 -> 0 [] OTHER -> 2]
MCImages == {
  MemoryImage(<<0, 2>>, <<4, 4, 5, 0, 2>>),    \* sta 4; zpg 0; rts
  MemoryImage(<<0, 2>>, <<4, 4, 4, 10, 2>>),   \* sta 4; sta register; rts
  MemoryImage(<<0, 2>>, <<5, 0, 3, 2, 2>>) }   \* zpg 0; jmp 2
MCStored == 0 :> {0, 2} @@ 1 :> {2} @@ 2 :> {0, 4} @@ 3 :> {0, 4} @@ 4 :> {2, 4} @@ 5 :> {0, 2}
              @@ 6 :> {2} @@ 7 :> {2} @@ 8 :> {2} @@ 9 :> {2}
MCTargets == {0, 2, 3, 4, 7}

NoBlocks ==
  /\ mem = [a \in Addr |-> 0] /\ block = [a \in Addr |-> NoBlock] /\ ptr = [a \in Addr |-> NoCode]
  /\ host = <<>> /\ flags = <<>> /\ zero = FALSE /\ history = {} /\ thread = Interpreter(0) /\ allowed = <<>>
HasBlocks == allowed # <<>>
InitMemorySoundOrBlocks ==
  /\ Init
  /\ \/ NoSound /\ NoBlocks
     \/ IsMaster /\ (\E synchronous \in BOOLEAN : Sn!InitSound(synchronous)) /\ NoBlocks
     \/ IsMaster /\ NoSound /\ BlocksInit
MemorySoundOrBlocks ==
  /\ InitMemorySoundOrBlocks
  /\ [][\/ Silent /\ ~HasBlocks /\ Next /\ UNCHANGED <<sound, blockVars>>
        \/ ~Silent /\ Sn!NextSound /\ UNCHANGED <<vars, blockVars>>
        \/ HasBlocks /\ BlocksNext /\ UNCHANGED <<vars, sound>>]_<<vars, sound, blockVars>>

(* Every access to a hardware register, by the callbacks and by the JIT's    *)
(* code, reaches its device at the right tick and ends in phase (bbc.c's     *)
(* read and write callbacks and its JIT encodings). What the host is given   *)
(* is what the sound chip plays, ticks counted one by one: each sample once  *)
(* and in order (Sound).                                                     *)
DevicesAnswerInTime ==
  /\ Silent /\ ~HasBlocks /\ slot = 0 => Registers!EndsInPhase /\ Registers!JitEncodesCallbacks
  /\ ~Silent => Sn!SoundIsTheChip
=============================================================================
