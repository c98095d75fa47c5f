------------------------------- MODULE WdFdc -------------------------------
(***************************************************************************)
(* The WD1770/1772 floppy disc controller, src/wd_fdc.c, with the drives it *)
(* spins.                                                                  *)
(*                                                                         *)
(* Three parties act on the chip: the 6502 through its registers, its own  *)
(* timer (settle, seek and completion delays), and the spinning drive,     *)
(* which calls back for every byte that passes under the head.  The chip's *)
(* struct is the record `fdc'; as in the code, every function takes the    *)
(* struct and returns it changed, and a byte whose content decides what    *)
(* happens next returns the set of structs it may lead to.                 *)
(*                                                                         *)
(* A failed assertion ends the program: fdc.failed names it and nothing    *)
(* happens afterwards.                                                     *)
(***************************************************************************)
EXTENDS Integers, FiniteSets

CONSTANTS
  Drives,       \* the two drives
  None,         \* no drive selected, the NULL drive pointer
  Programs,     \* what the 6502 and the user do in a behaviour, see WdAssumption
  RegMod,       \* the byte registers count modulo this (256 in the code)
  MaxTrack,     \* the head's last track
  SpinUpPulses, \* index pulses to spin up, and to give up a search (6)
  SpinDownPulses, \* index pulses until an idle motor stops (10)
  IdBytes,      \* bytes of a sector header after its mark (6)
  MarkFirst,    \* bytes after a header before a data mark counts (14, MFM 28)
  MarkLast,     \* bytes after a header when the search ends (31, MFM 62)
  SectorBytes,  \* data bytes of a sector
  DelayLost,    \* the byte of the write delay the first data is due at (10)
  DelayEnd,     \* the length of the write delay (12)
  LeadIn,       \* bytes of zeros, sync and data mark (FM 7, MFM 27)
  IndexBound    \* index pulses counted while a timer runs (no bound in the code)

AllCommands ==
  {"restore", "seek", "step_in", "step_in_update", "step_out",
   "step_out_update", "read_sector", "write_sector", "read_address",
   "read_track", "write_track"}

Media == {"writable", "protected", "empty"}

\* A program is a set of commands and of command bits, whether registers are
\* written while a command runs, whether force interrupt asks for one at the
\* index pulse, the drives used and what may be in them, what is written to the
\* track and sector registers, and the bytes a disc or the 6502 delivers.
ASSUME WdAssumption ==
  /\ None \notin Drives
  /\ \A p \in Programs :
       /\ p.commands \subseteq AllCommands
       /\ p.flags \subseteq {"verify", "multi", "settle", "no_spin_up"}
       /\ p.rewrites \in BOOLEAN
       /\ p.drives \subseteq Drives
       /\ p.media \subseteq Media /\ p.media # {}
       /\ p.interrupts \subseteq BOOLEAN
       /\ p.registers \subseteq 0..(RegMod - 1)
       /\ p.bytes \subseteq 0..(RegMod - 1) /\ p.bytes # {}
  /\ RegMod \in Nat \ {0, 1}
  /\ MaxTrack \in 0..(RegMod - 1)
  /\ SpinUpPulses \in Nat \ {0}
  /\ SpinDownPulses \in Nat \ {0}
  /\ IdBytes \in Nat \ {0}
  /\ MarkFirst \in Nat /\ MarkLast \in Nat /\ MarkFirst + 1 < MarkLast
  /\ SectorBytes \in Nat \ {0}
  /\ DelayLost \in Nat /\ 1 < DelayLost /\ DelayEnd \in Nat /\ DelayLost + 1 < DelayEnd
  /\ LeadIn \in Nat \ {0}
  /\ IndexBound \in Nat /\ IndexBound >= SpinDownPulses /\ IndexBound >= SpinUpPulses

TypeI == {"restore", "seek", "step_in", "step_in_update", "step_out",
          "step_out_update"}
Writes == {"write_sector", "write_track"}

CommandType(c) == IF c \in TypeI THEN 1
                  ELSE IF c \in {"read_sector", "write_sector"} THEN 2 ELSE 3

\* The bits of the status register.  Three of them mean one thing after a
\* type I command and another after the others.
MotorOn == 128
WriteProtected == 64
SpinUpDone == 32
DeletedMark == 32
RecordNotFound == 16
CrcError == 8
Track0 == 4
LostByte == 4
Index == 2
Drq == 2
Busy == 1

VARIABLES fdc, program

vars == <<fdc, program>>

States == {"idle", "timer_wait", "spin_up_wait", "wait_index", "search_id",
           "in_id", "search_data", "in_data", "in_read_track",
           "write_sector_delay", "write_sector_lead_in",
           "write_sector_body", "write_track_setup", "in_write_track",
           "check_multi", "done"}

\* The states in which a byte from the disc is looked at.
ReadStates == {"search_id", "in_id", "search_data", "in_data", "in_read_track"}

IsBusy == Busy \in fdc.status
IsMotorOn == MotorOn \in fdc.status
Current == fdc.current

-----------------------------------------------------------------------------
(* The functions of wd_fdc.c, from struct to struct. *)

Fail(f, what) == [f EXCEPT !.failed = IF @ = "no" THEN what ELSE @]

WithBit(f, bit, on) ==
  [f EXCEPT !.status = IF on THEN @ \cup {bit} ELSE @ \ {bit}]

SetState(f, s) == [f EXCEPT !.state = s, !.count = 0]

\* What a command keeps for itself is set by the next one before it is read:
\* it is forgotten, to tell fewer states apart.
Forget(f) ==
  [f EXCEPT !.command = "restore", !.verify = FALSE, !.multi = FALSE,
            !.settle = FALSE, !.write = FALSE, !.crcSecond = FALSE, !.doRaise = FALSE]

ClearState(f) ==
  [Forget(f) EXCEPT !.state = "idle", !.count = 0, !.timer = "none", !.indexCount = 0]

UpdateTypeIBits(f, pulse) ==
  IF f.type # 1 THEN f
  ELSE WithBit(WithBit(f, Track0, f.head[f.current] = 0), Index, pulse)

StartTimer(f, kind) ==
  IF f.timer # "none" THEN Fail(f, "timer is running")
  ELSE [f EXCEPT !.timer = kind, !.state = "timer_wait"]

CommandDone(f, raise) == StartTimer([f EXCEPT !.doRaise = raise], "done")

\* Mutant: a byte that was not taken goes unreported.
SetDrqSilently(f, level) ==
  [f EXCEPT !.drq = level, !.status = IF level THEN @ \cup {Drq} ELSE @ \ {Drq}]

SetDrq(f, level) ==
  IF level
  THEN [f EXCEPT !.drq = TRUE,
                 !.status = @ \cup {Drq} \cup (IF Drq \in @ THEN {LostByte} ELSE {})]
  ELSE [f EXCEPT !.drq = FALSE, !.status = @ \ {Drq}]

CheckVerify(f) ==
  IF f.verify THEN SetState([f EXCEPT !.indexCount = 0], "search_id")
              ELSE CommandDone(f, TRUE)

\* The head stops at either end of the disc; the track register does not.
Step(track, direction) ==
  LET t == track + direction
  IN  IF t < 0 THEN 0 ELSE IF t > MaxTrack THEN MaxTrack ELSE t

DoSeekStep(f, direction, update, pulse) ==
  LET g == [f EXCEPT !.head[f.current] = Step(@, direction),
                     !.track = IF update THEN (@ + direction) % RegMod ELSE @]
  IN  StartTimer(UpdateTypeIBits(g, pulse), "seek")

DoSeekStepOrVerify(f, pulse) ==
  LET direction == IF f.track > f.data THEN -1 ELSE 1
  IN  IF f.track = f.data
      THEN CheckVerify(f)
      ELSE IF f.head[f.current] = 0 /\ direction = -1
           THEN CheckVerify([f EXCEPT !.track = 0])
           ELSE DoSeekStep(f, direction, TRUE, pulse)

\* Mutant: restore trusts the track register.
DispatchTrustingTrack(f, pulse) ==
  CASE f.command = "restore" -> DoSeekStepOrVerify([f EXCEPT !.data = 0], pulse)
    [] f.command = "seek" -> DoSeekStepOrVerify(f, pulse)
    [] f.command \in {"step_in", "step_in_update"} ->
         DoSeekStep(f, 1, f.command = "step_in_update", pulse)
    [] f.command \in {"step_out", "step_out_update"} ->
         DoSeekStep(f, -1, f.command = "step_out_update", pulse)
    [] OTHER ->
         SetState([f EXCEPT !.indexCount = 0],
                  CASE f.command = "read_track" -> "wait_index"
                    [] f.command = "write_track" -> "write_track_setup"
                    [] OTHER -> "search_id")

Dispatch(f, pulse) ==
  IF f.write /\ f.media[f.current] = "protected"
  THEN CommandDone(WithBit(f, WriteProtected, TRUE), TRUE)
  ELSE CASE f.command = "restore" ->
              DoSeekStepOrVerify([f EXCEPT !.track = RegMod - 1, !.data = 0], pulse)
         [] f.command = "seek" -> DoSeekStepOrVerify(f, pulse)
         [] f.command = "step_in" -> DoSeekStep(f, 1, FALSE, pulse)
         [] f.command = "step_in_update" -> DoSeekStep(f, 1, TRUE, pulse)
         [] f.command = "step_out" -> DoSeekStep(f, -1, FALSE, pulse)
         [] f.command = "step_out_update" -> DoSeekStep(f, -1, TRUE, pulse)
         [] f.command \in {"read_sector", "write_sector", "read_address"} ->
              SetState([f EXCEPT !.indexCount = 0], "search_id")
         [] f.command = "read_track" ->
              SetState([f EXCEPT !.indexCount = 0], "wait_index")
         [] f.command = "write_track" ->
              SetState([f EXCEPT !.indexCount = 0], "write_track_setup")

StartSpinning(f, d) ==
  IF f.spinning[d] THEN Fail(f, "drive is spinning")
  ELSE [f EXCEPT !.spinning[d] = TRUE]

StopSpinning(f, d) ==
  IF ~f.spinning[d] THEN Fail(f, "drive is not spinning")
  ELSE [f EXCEPT !.spinning[d] = FALSE]

SendDataToHost(f, byte) == [SetDrq(f, TRUE) EXCEPT !.data = byte]

\* The levels the index sensor of the selected drive may read: an empty drive
\* asserts it all the time.
IndexLevels(f) ==
  IF f.current # None /\ f.media[f.current] = "empty" THEN {TRUE} ELSE BOOLEAN

-----------------------------------------------------------------------------
(* What the 6502 does. *)

\* Mutant: the motor of the drive that is deselected is left running.
WriteControlKeepsSpinning(drive, reset) ==
  /\ IsBusy => reset
  /\ LET c == [fdc EXCEPT !.current = drive, !.reset = reset]
         d == IF drive # None /\ IsMotorOn /\ ~c.spinning[drive]
              THEN StartSpinning(c, drive) ELSE c
         e == IF drive # None /\ IsMotorOn /\ reset THEN StopSpinning(d, drive) ELSE d
     IN fdc' = IF reset
               THEN [ClearState(e) EXCEPT !.status = {}, !.sector = 1,
                                          !.intrq = FALSE, !.drq = FALSE,
                                          !.pulse = FALSE]
               ELSE d

\* wd_fdc_write_control.  Changing it while busy, without reset, is an error
\* of the 6502's program that ends the emulator.
WriteControl(drive, reset) ==
  /\ IsBusy => reset
  /\ LET stopped == IF Current # None /\ fdc.spinning[Current]
                    THEN StopSpinning(fdc, Current) ELSE fdc
         chosen == [stopped EXCEPT !.current = drive, !.reset = reset]
         started == IF drive # None /\ IsMotorOn
                    THEN StartSpinning(chosen, drive) ELSE chosen
         cleared == ClearState(started)
         halted == IF drive # None /\ IsMotorOn
                   THEN StopSpinning(cleared, drive) ELSE cleared
     IN fdc' = IF reset
               THEN [halted EXCEPT !.status = {}, !.sector = 1,
                                   !.intrq = FALSE, !.drq = FALSE,
                                   !.pulse = FALSE]
               ELSE started

Control ==
  \E drive \in program.drives \cup {None}, reset \in BOOLEAN : WriteControl(drive, reset)

\* wd_fdc_power_on_reset, and the drives' after it.
PowerOnReset ==
  LET stopped == IF Current # None /\ fdc.spinning[Current]
                 THEN StopSpinning(fdc, Current) ELSE fdc
  IN fdc' = [ClearState(stopped) EXCEPT
               !.current = None, !.reset = TRUE, !.status = {}, !.sector = 1,
               !.intrq = FALSE, !.drq = FALSE, !.pulse = FALSE,
               !.track = 0, !.data = 0, !.head = [d \in Drives |-> 0]]

\* Every command but force interrupt.  One issued while busy is ignored, one
\* issued with no drive selected ends the emulator.
Command(c, flags, pulse) ==
  /\ ~fdc.reset /\ Current # None /\ ~IsBusy
  /\ LET type == CommandType(c)
         issued == SetDrq([fdc EXCEPT
                     !.command = c,
                     !.type = type,
                     !.verify = type = 1 /\ "verify" \in flags,
                     !.multi = type = 2 /\ "multi" \in flags,
                     !.settle = type # 1 /\ "settle" \in flags,
                     !.write = c \in Writes,
                     !.onIndex = FALSE,
                     !.crcSecond = FALSE,
                     !.intrq = FALSE], FALSE)
         begun == [issued EXCEPT !.status = (@ \cap {MotorOn}) \cup {Busy, MotorOn},
                                 !.indexCount = 0]
         spun == StartSpinning(begun, Current)
     IN fdc' = IF IsMotorOn
               THEN Dispatch(begun, pulse)
               ELSE IF "no_spin_up" \in flags
                    THEN Dispatch([spun EXCEPT !.indexCount = SpinUpPulses], pulse)
                    ELSE SetState(spun, "spin_up_wait")

IssueCommand ==
  \E c \in program.commands, flags \in SUBSET program.flags, pulse \in IndexLevels(fdc) :
    Command(c, flags, pulse)

\* Mutant: an idle chip keeps its count of index pulses.
ForceInterruptKeepsCount(onIndex) ==
  /\ ~fdc.reset /\ Current # None
  /\ LET idle == [fdc EXCEPT !.type = 1, !.status = @ \cap {MotorOn}]
         aborted == IF IsBusy
                    THEN CommandDone(fdc, FALSE)
                    ELSE IF IsMotorOn THEN idle
                         ELSE StartSpinning(WithBit(idle, MotorOn, TRUE), Current)
     IN fdc' = [aborted EXCEPT !.onIndex = onIndex]

\* Command $D0 and $D4.
ForceInterrupt(onIndex) ==
  /\ ~fdc.reset /\ Current # None
  /\ LET idle == [fdc EXCEPT !.indexCount = 0, !.type = 1,
                             !.status = @ \cap {MotorOn}]
         aborted == IF IsBusy
                    THEN CommandDone(fdc, FALSE)
                    ELSE IF IsMotorOn THEN idle
                         ELSE StartSpinning(WithBit(idle, MotorOn, TRUE), Current)
     IN fdc' = [aborted EXCEPT !.onIndex = onIndex]

Interrupt == \E onIndex \in program.interrupts : ForceInterrupt(onIndex)

ReadStatus == fdc' = [fdc EXCEPT !.intrq = FALSE]

\* Mutant: the line falls but the status bit stays.
AccessDataLineOnly(byte) ==
  fdc' = [fdc EXCEPT !.data = byte, !.drq = @ /\ fdc.type \notin {2, 3}]

\* Reading or writing the data register answers a request for data.
AccessData(byte) ==
  fdc' = [(IF fdc.type \in {2, 3} THEN SetDrq(fdc, FALSE) ELSE fdc)
            EXCEPT !.data = byte]

ReadData == AccessData(fdc.data)

WriteData ==
  /\ IsBusy /\ fdc.type = 1 => program.rewrites
  /\ \E byte \in program.bytes : AccessData(byte)

WriteTrack ==
  /\ IsBusy => program.rewrites
  /\ \E byte \in program.registers : fdc' = [fdc EXCEPT !.track = byte]

WriteSector ==
  /\ IsBusy => program.rewrites
  /\ ~fdc.reset
  /\ \E byte \in program.registers : fdc' = [fdc EXCEPT !.sector = byte]

\* The user changes the disc in a drive, at any moment.
ChangeDisc ==
  \E d \in program.drives, m \in program.media : fdc' = [fdc EXCEPT !.media[d] = m]

-----------------------------------------------------------------------------
(* The timer. *)

CommandDoneTimer(f, pulse) ==
  LET g == UpdateTypeIBits(ClearState(WithBit(f, Busy, FALSE)), pulse)
  IN  [g EXCEPT !.intrq = @ \/ f.doRaise]

TimerFired ==
  /\ fdc.timer # "none"
  /\ \E pulse \in IndexLevels(fdc) :
       LET f == [fdc EXCEPT !.timer = "none"]
           dispatched == Dispatch(f, pulse)
       IN CASE fdc.timer = "settle" ->
                 fdc' = IF dispatched.state = "timer_wait"
                        THEN Fail(dispatched, "settled command waits")
                        ELSE dispatched
            [] fdc.timer = "seek" ->
                 fdc' = IF f.command \in {"restore", "seek"}
                        THEN DoSeekStepOrVerify(f, pulse) ELSE CheckVerify(f)
            [] fdc.timer = "done" -> fdc' = CommandDoneTimer(f, pulse)

-----------------------------------------------------------------------------
(* The bytes passing under the head: wd_fdc_pulses_callback. *)

Idle(f, pulse, edge) ==
  {IF f.indexCount # SpinDownPulses THEN f
   ELSE [StopSpinning(f, f.current) EXCEPT
           !.status = @ \ ({MotorOn} \cup IF f.type = 1 THEN {Track0, Index} ELSE {})]}

TimerWait(f, pulse, edge) == {f}

SpinUpWait(f, pulse, edge) ==
  LET g == IF f.type = 1 THEN WithBit(f, SpinUpDone, TRUE) ELSE f
  IN {IF f.indexCount # SpinUpPulses THEN f
      ELSE IF f.settle THEN StartTimer(g, "settle") ELSE Dispatch(g, pulse)}

\* The byte right after the index pulse belongs to the track.
WaitIndex(f, pulse, edge) ==
  IF ~edge THEN {f}
  ELSE {SendDataToHost(SetState(f, "in_read_track"), byte) : byte \in program.bytes}

SearchId(f) == {f, SetState(f, "in_id")}

\* A header that matches the track, and for type II the sector, and has a good
\* CRC is the one looked for; read address takes any.
InId(f) ==
  LET g == [f EXCEPT !.count = @ + 1]
      stored(byte) == IF f.count = 0 THEN [g EXCEPT !.sector = byte] ELSE g
      sent == IF f.command = "read_address"
              THEN {SendDataToHost(stored(byte), byte) : byte \in program.bytes}
              ELSE {g}
      ended(bad) == {SetState(WithBit(h, CrcError, bad), "done") : h \in sent}
  IN  IF g.count # IdBytes THEN sent
      ELSE IF f.command = "read_address" THEN ended(TRUE) \cup ended(FALSE)
      ELSE {SetState(g, "search_id"),
            SetState(WithBit(g, CrcError, TRUE), "search_id"),
            IF f.type = 1 THEN CommandDone(g, TRUE)
            ELSE IF f.write THEN SetState(g, "write_sector_delay")
                            ELSE SetState(g, "search_data")}

SearchData(f) ==
  LET g == [f EXCEPT !.count = @ + 1]
      found == SetState(WithBit(g, CrcError, FALSE), "in_data")
  IN  IF g.count <= MarkFirst THEN {g}
      ELSE IF g.count >= MarkLast THEN {SetState(g, "search_id")}
      ELSE {g, found, WithBit(found, DeletedMark, TRUE)}

InData(f) ==
  LET g == [f EXCEPT !.count = @ + 1]
  IN  IF g.count <= SectorBytes
      THEN {SendDataToHost(g, byte) : byte \in program.bytes}
      ELSE IF g.count <= SectorBytes + 2 THEN {g}
      ELSE {SetState(g, "check_multi"),
            CommandDone(WithBit(g, CrcError, TRUE), TRUE)}

InReadTrack(f, edge) ==
  IF edge THEN {CommandDone(f, TRUE)}
  ELSE {SendDataToHost(f, byte) : byte \in program.bytes}

\* wd_fdc_byte_received.
Received(f, edge) ==
  CASE f.state = "search_id" -> SearchId(f)
    [] f.state = "in_id" -> InId(f)
    [] f.state = "search_data" -> SearchData(f)
    [] f.state = "in_data" -> InData(f)
    [] f.state = "in_read_track" -> InReadTrack(f, edge)

\* Mutant: a search that finds nothing starts over.
ReadingForEver(f, pulse, edge) ==
  {IF g.indexCount = SpinUpPulses THEN [g EXCEPT !.indexCount = 0] ELSE g :
   g \in Received(f, edge)}

Reading(f, pulse, edge) ==
  {IF g.indexCount = SpinUpPulses
   THEN CommandDone(WithBit(g, RecordNotFound, TRUE), TRUE) ELSE g :
   g \in Received(f, edge)}

WriteSectorDelay(f, pulse, edge) ==
  LET lost == f.count = DelayLost /\ Drq \in f.status
      g == IF f.count = 0 THEN [f EXCEPT !.indexCount = 0]
           ELSE IF f.count = 1 THEN SetDrq(f, TRUE)
           ELSE IF lost THEN CommandDone(WithBit(f, LostByte, TRUE), TRUE) ELSE f
  IN  {IF g.count + 1 = DelayEnd THEN SetState(g, "write_sector_lead_in")
       ELSE [g EXCEPT !.count = @ + 1]}

\* Zeros, sync bytes and the data mark, of either density.
WriteSectorLeadIn(f, pulse, edge) ==
  {IF f.count + 1 = LeadIn THEN SetState(f, "write_sector_body")
   ELSE [f EXCEPT !.count = @ + 1]}

WriteSectorBody(f, pulse, edge) ==
  LET taken == IF Drq \in f.status THEN WithBit(f, LostByte, TRUE) ELSE f
      g == IF f.count < SectorBytes
           THEN IF f.count # SectorBytes - 1 THEN SetDrq(taken, TRUE) ELSE taken
           ELSE IF f.count < SectorBytes + 2 THEN f
           ELSE SetState(f, "check_multi")
  IN  {[g EXCEPT !.count = @ + 1]}

CheckMulti(f, pulse, edge) ==
  {IF f.multi
   THEN SetState([f EXCEPT !.sector = (@ + 1) % RegMod, !.indexCount = 0], "search_id")
   ELSE CommandDone(f, TRUE)}

WriteTrackSetup(f, pulse, edge) ==
  {IF f.count = 3 /\ Drq \notin f.status THEN SetState(f, "in_write_track")
   ELSE LET g == IF f.count = 0 THEN SetDrq([f EXCEPT !.indexCount = 0], TRUE)
                 ELSE IF f.count = 3
                 THEN CommandDone(WithBit(f, LostByte, TRUE), TRUE)
                 ELSE f
        IN [g EXCEPT !.count = @ + 1]}

\* Whether any byte was written is all that matters of the count here.
InWriteTrack(f, pulse, edge) ==
  LET taken == IF Drq \in f.status THEN WithBit(f, LostByte, TRUE) ELSE f
  IN  IF f.count = 0 /\ ~edge THEN {f}
      ELSE IF f.count > 0 /\ edge THEN {CommandDone(f, TRUE)}
      ELSE IF f.crcSecond THEN {SetDrq([f EXCEPT !.crcSecond = FALSE], TRUE)}
      ELSE {[SetDrq(taken, TRUE) EXCEPT !.count = 1],
            [taken EXCEPT !.count = 1, !.crcSecond = TRUE]}

\* Mutant: the command ends without its completion.
DoneAtOnce(f, pulse, edge) == {SetState(f, "idle")}

Done(f, pulse, edge) == {CommandDone(f, TRUE)}

\* A byte in one of the given states, with what every byte does around it.
OnByte(states, Outcomes(_, _, _)) ==
  /\ fdc.state \in states
  /\ \E d \in Drives : fdc.spinning[d]
  /\ \E pulse \in IndexLevels(fdc) :
       LET edge == pulse /\ ~fdc.pulse
           f == UpdateTypeIBits([fdc EXCEPT !.pulse = pulse,
                                            !.intrq = @ \/ (fdc.onIndex /\ edge)],
                                pulse)
       IN \E g \in Outcomes(f, pulse, edge) :
            fdc' = [g EXCEPT !.indexCount = IF edge THEN @ + 1 ELSE @]

IdleByte == OnByte({"idle"}, Idle)
WaitingByte == OnByte({"timer_wait"}, TimerWait) /\ fdc.indexCount < IndexBound
SpinUpByte == OnByte({"spin_up_wait"}, SpinUpWait)
WaitIndexByte == OnByte({"wait_index"}, WaitIndex)
ReadByte == OnByte(ReadStates, Reading)
WriteDelayByte == OnByte({"write_sector_delay"}, WriteSectorDelay)
LeadInByte == OnByte({"write_sector_lead_in"}, WriteSectorLeadIn)
BodyByte == OnByte({"write_sector_body"}, WriteSectorBody)
CheckMultiByte == OnByte({"check_multi"}, CheckMulti)
WriteTrackSetupByte == OnByte({"write_track_setup"}, WriteTrackSetup)
WriteTrackByte == OnByte({"in_write_track"}, InWriteTrack)
DoneByte == OnByte({"done"}, Done)

PulsesCallback ==
  \/ IdleByte \/ WaitingByte \/ SpinUpByte \/ WaitIndexByte \/ ReadByte
  \/ WriteDelayByte \/ LeadInByte \/ BodyByte \/ CheckMultiByte
  \/ WriteTrackSetupByte \/ WriteTrackByte \/ DoneByte

\* assert() has ended the program.
Aborted == fdc.failed # "no" /\ UNCHANGED fdc

Next ==
  /\ \/ /\ fdc.failed = "no"
        /\ \/ Control \/ PowerOnReset \/ IssueCommand \/ Interrupt
           \/ ReadStatus \/ ReadData \/ WriteData \/ WriteTrack \/ WriteSector
           \/ ChangeDisc \/ TimerFired \/ PulsesCallback
     \/ Aborted
  /\ UNCHANGED program

\* The drives a program leaves alone are empty.
Inserted ==
  {m \in [Drives -> Media] :
     \A d \in Drives : m[d] \in IF d \in program.drives THEN program.media ELSE {"empty"}}

\* After the power-on reset.
Init ==
  /\ program \in Programs
  /\ \E media \in Inserted :
       fdc = [status |-> {}, track |-> 0, sector |-> 1, data |-> 0,
           intrq |-> FALSE, drq |-> FALSE, doRaise |-> FALSE, reset |-> TRUE,
           current |-> None, pulse |-> FALSE, onIndex |-> FALSE,
           command |-> "restore", type |-> 0, settle |-> FALSE,
           write |-> FALSE, verify |-> FALSE, multi |-> FALSE,
           state |-> "idle", count |-> 0, indexCount |-> 0,
           timer |-> "none", crcSecond |-> FALSE,
           spinning |-> [d \in Drives |-> FALSE],
           head |-> [d \in Drives |-> 0],
           media |-> media, failed |-> "no"]

Spec == Init /\ [][Next]_vars

\* The scheduler calls back the timers that are due, and a disc that turns
\* brings the index hole under the sensor once each revolution and takes it
\* away again, with a byte each time.  (Weak fairness of the first and strong
\* fairness of the others, written out.)
TimerRuns == fdc.failed = "no" /\ fdc.timer # "none"
DiscTurns ==
  /\ fdc.failed = "no"
  /\ Current # None /\ fdc.spinning[Current] /\ fdc.media[Current] # "empty"
  /\ fdc.state = "timer_wait" => fdc.indexCount < IndexBound
IndexEdge == ~fdc.pulse /\ fdc'.pulse
IndexGone == fdc.pulse /\ ~fdc'.pulse

Fairness ==
  /\ <>[]TimerRuns => []<><<TimerFired>>_vars
  /\ []<>(DiscTurns /\ ~fdc.pulse) => []<><<IndexEdge>>_vars
  /\ []<>(DiscTurns /\ fdc.pulse) => []<><<IndexGone>>_vars

FairSpec == Spec /\ Fairness

-----------------------------------------------------------------------------
(* Properties. *)

Registers == 0..(RegMod - 1)
MaxCount == IdBytes + MarkLast + SectorBytes + DelayEnd + LeadIn + 4

\* Every field of the struct stays in its range, whatever the 6502 writes.
TypeOK ==
  /\ fdc.status \subseteq {MotorOn, WriteProtected, SpinUpDone, RecordNotFound,
                           CrcError, Track0, Index, Busy}
  /\ {fdc.track, fdc.sector, fdc.data} \subseteq Registers
  /\ {fdc.intrq, fdc.drq, fdc.doRaise, fdc.reset, fdc.pulse, fdc.onIndex,
      fdc.settle, fdc.write, fdc.verify, fdc.multi, fdc.crcSecond} \subseteq BOOLEAN
  /\ fdc.current \in Drives \cup {None}
  /\ fdc.command \in AllCommands /\ fdc.type \in 0..3
  /\ fdc.state \in States
  /\ fdc.timer \in {"none", "settle", "seek", "done"}
  /\ fdc.count \in 0..MaxCount
  /\ fdc.indexCount \in 0..(IndexBound + MaxCount)
  /\ fdc.spinning \in [Drives -> BOOLEAN]
  /\ fdc.head \in [Drives -> 0..MaxTrack]
  /\ fdc.media \in [Drives -> Media]

\* A busy chip always has something that will move it on, a running timer or
\* the bytes of the spinning drive it selected, and an idle one has nothing
\* pending that could move it; wd_fdc.c keeps the busy bit, the state, the
\* timer and the drives in four places.
BusyMakesProgress ==
  /\ IsBusy <=> fdc.state # "idle"
  /\ fdc.timer # "none" <=> fdc.state = "timer_wait"
  /\ fdc.state \notin {"idle", "timer_wait"} =>
       /\ Current # None
       /\ fdc.spinning[Current]


\* The drive that spins is the selected one, and spins exactly as long as the
\* status says so: the assertions at the top of the pulses callback, and those
\* of the timer that a drive is neither started nor stopped twice.
SpinsOnlyCurrent ==
  /\ \A d \in Drives : fdc.spinning[d] <=> d = Current /\ IsMotorOn
  /\ fdc.failed \notin {"drive is spinning", "drive is not spinning"}

\* The index pulses of a search, of a spin-up and of an idle motor never pass
\* the count at which each gives up: the three assertions of the callback,
\* which test for equality only.
IndexCountsBounded ==
  /\ fdc.state \in ReadStates \cup {"spin_up_wait"} => fdc.indexCount <= SpinUpPulses
  /\ fdc.state = "idle" /\ IsMotorOn => fdc.indexCount <= SpinDownPulses

\* After a transfer command the status bit the 6502 polls and the line that
\* raises its NMI agree about data being requested.
DrqIsVisible == fdc.type \in {2, 3} => (fdc.drq <=> Drq \in fdc.status)

\* What the places of a command, the counts of index pulses, the drives and the
\* lines have to be of each other, in one.
Coherent ==
  TypeOK /\ BusyMakesProgress /\ SpinsOnlyCurrent /\ IndexCountsBounded /\ DrqIsVisible

\* A byte that comes or goes while the previous one is still waiting is
\* reported as lost, and the report stays until the command has ended.
LossIsReported ==
  [][/\ IsBusy /\ Busy \in fdc'.status
     /\ fdc.type \in {2, 3}
     => /\ LostByte \in fdc.status => LostByte \in fdc'.status
        /\ PulsesCallback /\ fdc.drq /\ fdc'.data # fdc.data
             => LostByte \in fdc'.status]_vars

\* A restore that runs to its end leaves the head of the selected drive and
\* the track register at zero, wherever both were before.
RestoreReachesTrackZero ==
  [][/\ fdc.timer = "done" /\ fdc.doRaise /\ fdc'.timer = "none"
     /\ IsBusy /\ fdc.command = "restore" /\ ~fdc'.reset
     => fdc'.head[Current] = 0 /\ fdc'.track = 0]_vars

\* What the 6502 is told of a command is true, when it loses a byte and when a
\* restore ends.
CommandsTellTheTruth == LossIsReported /\ RestoreReachesTrackZero

\* Every command ends: with single sectors, a disc in the drive and a 6502
\* that leaves the registers alone, a busy chip gets idle again, if no
\* assertion ends the program first.
Undisturbed ==
  ~program.rewrites /\ "multi" \notin program.flags /\ program.media = {"writable"}
CommandCompletes ==
  Undisturbed /\ IsBusy ~> (~IsBusy \/ fdc.failed # "no")
=============================================================================
