-------------------------------- MODULE Memory --------------------------------
(***************************************************************************)
(* Paging by copying: src/bbc.c. The 6502 and the video read one block of    *)
(* 64k directly; a write to ROMSEL or ACCCON copies the chips in and out of  *)
(* it. Of the 64k the model keeps what paging tells apart: the shadow        *)
(* region, the 4k that ANDY covers, the rest of the sideways bank, and the   *)
(* 8k that HAZEL covers.                                                     *)
(***************************************************************************)
EXTENDS Integers

CONSTANTS
  NumRoms, Sockets, Cleared, PowerOn,
  RomOf(_),       \* what a ROM holds
  OsRom,
  Written,        \* values the 6502 writes
  Fitted          \* machines: a Master or not, the banks with a ROM file, and those that are RAM

Bank == 0 .. NumRoms - 1
Regions == {"shadow", "andy", "side", "hazel"}
Romsels == [bank : Bank, andy : BOOLEAN]
Acccons == [d : BOOLEAN, e : BOOLEAN, x : BOOLEAN, y : BOOLEAN]
NoAcccon == [d |-> FALSE, e |-> FALSE, x |-> FALSE, y |-> FALSE]
NoRomsel == [bank |-> 0, andy |-> FALSE]

\* Contents are names: what a ROM holds is not what cleared memory does.
ASSUME MemoryAssumption ==
  /\ NumRoms \in Nat /\ Sockets \in 1 .. NumRoms
  /\ Fitted \subseteq [master : BOOLEAN, rom : SUBSET Bank, ram : SUBSET Bank]
  /\ \A b \in Bank : RomOf(b) # Cleared

VARIABLES
  m,        \* the memory, and the registers that say what it is
  trapped,  \* the interpreter's copy of where its callbacks start
  slot,     \* the bank main() deals with next
  fitted,   \* the command line's machine, ROMs and sideways RAM
  untold,   \* history: reset while accesses were trapped, ACCCON not written since
  romPaged  \* history: a bank that is not RAM was current since main() dealt with all
vars == <<m, trapped, slot, fitted, untold, romPaged>>

IsMaster == fitted.master

-----------------------------------------------------------------------------
EffectiveBank(s, romsel) ==
  IF s.extended THEN romsel.bank ELSE (romsel.bank % Sockets) + NumRoms - Sockets
Sideways(raw) == [andy |-> raw.andy, side |-> raw.side]

(* bbc_page_rom. A model B writes through a mapping of memory or of a dummy. *)
PageRom(s, curr, new) ==
  LET bank == IF curr \in s.ram THEN [s.bank EXCEPT ![curr] = Sideways(s.raw)] ELSE s.bank
  IN  [s EXCEPT !.bank = bank, !.raw.andy = bank[new].andy, !.raw.side = bank[new].side,
                !.through = IF IsMaster \/ (curr \in s.ram <=> new \in s.ram) THEN @ ELSE new \in s.ram]

AndyOut(s, curr) == [s EXCEPT !.andy = s.raw.andy, !.raw.andy = s.bank[curr].andy]
AndyIn(s, new) == [s EXCEPT !.bank[new].andy = s.raw.andy, !.raw.andy = s.andy]
\* A mutant: a change of bank under ANDY does not take it out first.
SelectUnderAndy(s, val) ==
  LET curr     == EffectiveBank(s, s.romsel)
      new      == EffectiveBank(s, val)
      changing == new # curr \/ s.invalidated
      out      == IF IsMaster /\ s.romsel.andy /\ ~val.andy THEN AndyOut(s, curr) ELSE s
      paged    == IF changing THEN PageRom(out, curr, new) ELSE out
      result   == IF IsMaster /\ val.andy /\ (~s.romsel.andy \/ changing) THEN AndyIn(paged, new) ELSE paged
  IN  [result EXCEPT !.romsel = val, !.invalidated = FALSE]
SidewaysSelect(s, val) ==
  LET curr     == EffectiveBank(s, s.romsel)
      new      == EffectiveBank(s, val)
      changing == new # curr \/ s.invalidated
      out      == IF IsMaster /\ s.romsel.andy /\ (~val.andy \/ changing) THEN AndyOut(s, curr) ELSE s
      paged    == IF changing THEN PageRom(out, curr, new) ELSE out
      result   == IF IsMaster /\ val.andy /\ (~s.romsel.andy \/ changing) THEN AndyIn(paged, new) ELSE paged
  IN  [result EXCEPT !.romsel = val, !.invalidated = FALSE]

(* bbc_set_acccon *)
MosAccessShadow(val) == (val.y /\ val.x) \/ (~val.y /\ val.e)
SwapLynne(s) == [s EXCEPT !.lynne = s.raw.shadow, !.raw.shadow = s.lynne]
HazelIn(s) == [s EXCEPT !.raw.hazel = s.hazel]
HazelOut(s) == [s EXCEPT !.hazel = s.raw.hazel, !.raw.hazel = OsRom]
\* A mutant: the display is only told when its own bit changes.
ShadowDisplayOfD(s, val) == IF val.d # s.acccon.d THEN val.d # val.x ELSE s.shown
ShadowDisplay(s, val) == IF val.d # s.acccon.d \/ val.x # s.acccon.x THEN val.d # val.x ELSE s.shown
SetAcccon(s, val) ==
  LET lynne == IF val.x # s.acccon.x THEN SwapLynne(s) ELSE s
      hazel == IF val.y = s.acccon.y THEN lynne ELSE IF val.y THEN HazelIn(lynne) ELSE HazelOut(lynne)
  IN  [hazel EXCEPT !.acccon = val, !.shown = ShadowDisplay(s, val), !.different = MosAccessShadow(val) # val.x]

-----------------------------------------------------------------------------
(* The interpreter reads and writes directly below its copy of the addresses *)
(* from which callbacks are needed: of the shadow region, only while the     *)
(* operating system sees something else in it.                               *)
MasterRamRead(region, vdu) == IF region = "shadow" /\ vdu THEN m.lynne ELSE m.raw[region]
Read(region, vdu) == IF trapped THEN MasterRamRead(region, vdu) ELSE m.raw[region]
MasterWritable(region) ==
  CASE region = "hazel" -> m.acccon.y
    [] region = "andy"  -> m.romsel.bank \in m.ram \/ m.romsel.andy
    [] OTHER            -> m.romsel.bank \in m.ram
MasterRamWrite(region, vdu, v) ==
  IF region = "shadow" THEN IF vdu THEN [m EXCEPT !.lynne = v] ELSE [m EXCEPT !.raw.shadow = v]
  ELSE IF MasterWritable(region) THEN [m EXCEPT !.raw[region] = v] ELSE m
DirectWrite(region, v) ==
  IF region = "shadow" \/ (region # "hazel" /\ m.through) THEN [m EXCEPT !.raw[region] = v] ELSE m
Running == slot = NumRoms
InRom(s) == EffectiveBank(s, s.romsel) \notin s.ram
Write(region, vdu, v) ==
  /\ Running
  /\ m' = IF IsMaster /\ (region = "shadow" => trapped) THEN MasterRamWrite(region, vdu, v)
          ELSE DirectWrite(region, v)
  /\ UNCHANGED <<trapped, slot, fitted, untold, romPaged>>
WriteRomsel(val) ==
  /\ Running /\ (~IsMaster => ~val.andy)
  /\ m' = SidewaysSelect(m, val) /\ romPaged' = (romPaged \/ InRom(m'))
  /\ UNCHANGED <<trapped, slot, fitted, untold>>
WriteAcccon(val) ==
  /\ Running /\ IsMaster /\ m' = SetAcccon(m, val) /\ trapped' = m'.different
  /\ untold' = FALSE /\ UNCHANGED <<slot, fitted, romPaged>>
Displayed == IF m.shown THEN m.lynne ELSE m.raw.shadow

(* bbc_power_on_reset. The interpreter, in whose loop it is called, does not *)
(* ask for the addresses again.                                              *)
ClearedMemory(s) ==
  [s EXCEPT !.raw.shadow = PowerOn,
            !.bank = [b \in Bank |-> IF b \in s.ram THEN [andy |-> Cleared, side |-> Cleared] ELSE @[b]],
            !.lynne = Cleared, !.hazel = Cleared, !.andy = Cleared]
PowerOnMemoryReset(s) ==
  LET cleared == ClearedMemory(s)
      unpaged == IF IsMaster THEN SetAcccon(cleared, NoAcccon) ELSE cleared
  IN  SidewaysSelect([unpaged EXCEPT !.invalidated = TRUE], NoRomsel)
HardReset ==
  /\ Running
  /\ m' = PowerOnMemoryReset(m) /\ untold' = trapped /\ romPaged' = (romPaged \/ InRom(m'))
  /\ UNCHANGED <<trapped, slot, fitted>>

(* main(): after the power on reset, bank by bank. *)
Extended(s, b) == s.extended \/ b < NumRoms - Sockets
LoadRom ==
  /\ ~Running /\ slot \in fitted.rom /\ m.bank[slot].side # RomOf(slot)
  /\ LET s == [m EXCEPT !.bank[slot] = [andy |-> RomOf(slot), side |-> RomOf(slot)],
                        !.extended = Extended(m, slot), !.invalidated = TRUE]
     IN  m' = SidewaysSelect(s, s.romsel)
  /\ UNCHANGED <<trapped, slot, fitted, untold, romPaged>>
MakeSidewaysRam ==
  /\ ~Running /\ slot \in fitted.ram \ m.ram
  /\ slot \in fitted.rom => m.bank[slot].side = RomOf(slot)
  /\ LET s == [m EXCEPT !.ram = @ \cup {slot}, !.extended = Extended(m, slot), !.invalidated = TRUE]
     IN  m' = SidewaysSelect(s, s.romsel)
  /\ UNCHANGED <<trapped, slot, fitted, untold, romPaged>>
NextSlot ==
  /\ ~Running
  /\ slot \in fitted.ram => slot \in m.ram
  /\ slot \in fitted.rom => m.bank[slot].side = RomOf(slot)
  /\ slot' = slot + 1 /\ romPaged' = (slot' = NumRoms /\ InRom(m))
  /\ UNCHANGED <<m, trapped, fitted, untold>>

Created(extended) ==
  [raw |-> [shadow |-> PowerOn, andy |-> Cleared, side |-> Cleared, hazel |-> OsRom],
   bank |-> [b \in Bank |-> [andy |-> Cleared, side |-> Cleared]],
   lynne |-> Cleared, hazel |-> Cleared, andy |-> Cleared,
   romsel |-> NoRomsel, acccon |-> NoAcccon, extended |-> extended, invalidated |-> FALSE,
   ram |-> {}, through |-> FALSE, different |-> FALSE, shown |-> FALSE]
Init ==
  /\ fitted \in Fitted /\ m = Created(IsMaster) /\ trapped = FALSE /\ slot = 0
  /\ untold = FALSE /\ romPaged = FALSE
Next ==
  \/ LoadRom \/ MakeSidewaysRam \/ NextSlot \/ HardReset
  \/ \E region \in Regions, vdu \in BOOLEAN, v \in Written : Write(region, vdu, v)
  \/ \E val \in Romsels : WriteRomsel(val)
  \/ \E val \in Acccons : WriteAcccon(val)
Spec == Init /\ [][Next]_vars

-----------------------------------------------------------------------------
(* Where each chip's contents are. *)
Held(chip) ==
  LET here == chip[2] = EffectiveBank(m, m.romsel)
  IN  CASE chip[1] = "main"  -> IF m.acccon.x THEN m.lynne ELSE m.raw.shadow
        [] chip[1] = "lynne" -> IF m.acccon.x THEN m.raw.shadow ELSE m.lynne
        [] chip[1] = "hazel" -> IF m.acccon.y THEN m.raw.hazel ELSE m.hazel
        [] chip[1] = "andy"  -> IF m.romsel.andy THEN m.raw.andy ELSE m.andy
        [] chip[1] = "os"    -> OsRom
        [] chip[1] = "under" -> IF here /\ ~m.romsel.andy THEN m.raw.andy ELSE m.bank[chip[2]].andy
        [] chip[1] = "side"  -> IF here THEN m.raw.side ELSE m.bank[chip[2]].side
Chips == ({"main", "lynne", "hazel", "andy", "os"} \X {0}) \cup ({"under", "side"} \X Bank)
Paged == INSTANCE PagedMemory WITH
  contents <- [chip \in Chips |-> Held(chip)],
  romsel <- m.romsel, acccon <- m.acccon, extended <- m.extended, ram <- m.ram

(* However often chips have been copied over one another, every write goes   *)
(* to the chip that the registers select and no other changes. One exception *)
(* is the interpreter's: after a hard reset while accesses are trapped it    *)
(* still takes what the operating system's drawing code writes for LYNNE,    *)
(* until ACCCON is written.                                                  *)
StrayWrite ==
  /\ untold /\ m'.romsel = m.romsel /\ m'.acccon = m.acccon /\ m'.extended = m.extended /\ m'.ram = m.ram
  /\ \A chip \in Chips \ {<<"lynne", 0>>} : Held(chip)' = Held(chip)
ImplementsPagedMemory == Paged!Init /\ [][Paged!Next \/ StrayWrite]_(Paged!vars)

(* What the 6502 reads, from the operating system's drawing code and from    *)
(* anywhere else, what is on the screen, and what the debugger takes for a   *)
(* ROM, are those of the chips that the registers select, but that the       *)
(* drawing code reads LYNNE after a hard reset while accesses were trapped,  *)
(* until ACCCON is written. Accesses are trapped when they have to be, and   *)
(* otherwise only then. A model B's writes reach the current bank only if it *)
(* is RAM, and always if it is, once a bank that is not has been current:    *)
(* the mapping is changed when paging goes from ROM to RAM or back, not when *)
(* the current bank is made RAM.                                             *)
IsRom(region) ==  \* bbc_get_address_details
  CASE region = "shadow" -> FALSE
    [] region = "hazel"  -> ~(IsMaster /\ m.acccon.y)
    [] OTHER -> ~(EffectiveBank(m, m.romsel) \in m.ram \/ (IsMaster /\ m.romsel.andy /\ region = "andy"))
SeesPagedMemory ==
  Running =>
    /\ \A region \in Regions, vdu \in BOOLEAN :
         /\ Read(region, vdu) = IF untold /\ region = "shadow" /\ vdu THEN Held(<<"lynne", 0>>)
                                ELSE Paged!Read(region, vdu)
         /\ IsRom(region) = ~Paged!IsRam(Paged!Chip(region, FALSE))
    /\ Displayed = Paged!Displayed
    /\ trapped <=> m.different \/ untold
    /\ m.through => ~IsMaster /\ ~InRom(m)
    /\ ~IsMaster /\ romPaged /\ ~InRom(m) => m.through

(* A hard reset clears all memory, as bbc_power_on_memory_reset says it does *)
(* of sideways RAM and the Master's.                                         *)
PowerOnClears ==
  [][HardReset => \A chip \in Chips : chip[1] # "os" /\ (chip[1] \in {"under", "side"} => chip[2] \in m.ram)
                    => Held(chip)' \in {Cleared, PowerOn}]_vars
=============================================================================
