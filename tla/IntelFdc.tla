------------------------------ MODULE IntelFdc ------------------------------
(***************************************************************************)
(* The Intel 8271 floppy disc controller, src/intel_fdc.c, with the drives  *)
(* it selects, loads and steps.                                             *)
(*                                                                         *)
(* The 6502 writes a command and its parameters, a timer ends steps and     *)
(* head loads, and the drive that turns calls back for every byte under the *)
(* head.  In the code one handler function decides by five fields what is   *)
(* to be done: which parameters are accepted, which index pulse routine is  *)
(* installed, why the timer runs, where a run of bytes returns to, and the  *)
(* state of the bit processor.  The record `fdc' has them all.  As in the   *)
(* code every function takes the struct and returns it changed; where the   *)
(* byte read decides, it returns the set of structs it may lead to.         *)
(*                                                                         *)
(* A failed assertion ends the program: fdc.failed names it.                *)
(***************************************************************************)
EXTENDS Integers, FiniteSets

CONSTANTS
  Drive0, Drive1,
  None,          \* no drive selected, or both
  Never,         \* the head unload count that means never (15)
  Programs,      \* what the 6502 does in a behaviour, see IntelAssumption
  RegMod,        \* the byte registers count modulo this (256)
  MaxTrack,      \* the head's last track
  Sectors,       \* how many sectors they ask for
  TimeoutPulses, \* index pulses until a search is given up (3)
  SectorBytes,   \* data bytes of a sector
  SkipBytes,     \* bytes skipped between header and data (11)
  SyncBytes,     \* counted zeros written before a mark (5)
  GapBytes       \* counted bytes of gaps 1, 2 and 3

Drives == {Drive0, Drive1}

\* Track, head, sector and size.
HeaderBytes == 4

Results == {"clock_error", "late_dma", "id_crc_error", "data_crc_error",
            "drive_not_ready", "write_protected", "sector_not_found", "deleted"}

\* The parameters each command waits for.  Both "set" commands are the same
\* one, write special register, for the two registers that matter here, and
\* both "specify" commands too.
ParamCount ==
  [seek |-> 1, read |-> 3, read_deleted |-> 3, verify |-> 3, scan |-> 5,
   write |-> 3, read_id |-> 3, format |-> 5, drive_status |-> 0,
   specify_timings |-> 1, specify_tracks |-> 1, set_drive_out |-> 2,
   set_mode |-> 2, read_special |-> 1]

AllCommands == DOMAIN ParamCount

\* The commands that end without an interrupt.
Simple == {"drive_status", "specify_timings", "specify_tracks", "set_drive_out",
           "set_mode", "read_special"}

Media == {"writable", "protected", "empty"}

\* A program is a set of commands, the drives and the tracks it uses, what may
\* be in the drives, the head unload count and whether head load and settle
\* times are above zero.
ASSUME IntelAssumption ==
  /\ Drive0 # Drive1 /\ None \notin Drives
  /\ Never \notin Nat
  /\ \A p \in Programs :
       /\ p.commands \subseteq AllCommands
       /\ p.drives \subseteq Drives \cup {None}
       /\ p.tracks \subseteq 0..(RegMod - 1) /\ p.tracks # {}
       /\ p.media \subseteq Media /\ p.media # {}
       /\ p.unload \in Nat \cup {Never}
       /\ p.load \in BOOLEAN /\ p.settle \in BOOLEAN
  /\ RegMod \in Nat /\ MaxTrack \in 1..(RegMod - 1)
  /\ Sectors \subseteq 1..31 /\ Sectors # {}
  /\ {TimeoutPulses, SectorBytes, SkipBytes, SyncBytes, GapBytes} \subseteq Nat \ {0}
  /\ SectorBytes > 1

VARIABLES fdc, program

vars == <<fdc, program>>

\* The states in which bits are shifted in, and of these the ones that take
\* no byte with a missing clock bit.
WholeByteStates == {"in_id", "in_id_crc", "in_data", "in_data_crc"}
ReadStates == {"syncing_for_id_wait", "syncing_for_id", "check_id_marker",
               "skip_gap_2", "syncing_for_data", "check_data_marker"}
              \cup WholeByteStates
WriteStates == {"write_run", "write_data_mark", "write_sector_data",
                "write_crc_2", "write_crc_3", "dynamic_dispatch",
                "format_write_id_marker", "format_id_crc_2", "format_id_crc_3",
                "format_write_data_marker", "format_data_crc_2",
                "format_data_crc_3", "format_gap_4"}

-----------------------------------------------------------------------------
(* Lines and drives. *)

Fail(f, what) == [f EXCEPT !.failed = IF @ = "no" THEN what ELSE @]

\* The 6502 sees an NMI only as the line rises.
SetLevel(f, level) ==
  [f EXCEPT !.level = level, !.edge = @ \/ (level /\ ~f.level)]

\* Mutant: the line is left as it is, as for the other bits.
LowerNmiBitOnly(f) == [f EXCEPT !.nmi = FALSE]

LowerNmi(f) == SetLevel([f EXCEPT !.nmi = FALSE], FALSE)

StartSpinning(f, d) ==
  IF f.spinning[d] THEN Fail(f, "drive is spinning")
  ELSE [f EXCEPT !.spinning[d] = TRUE]

StopSpinning(f, d) ==
  IF ~f.spinning[d] THEN Fail(f, "drive is not spinning")
  ELSE [f EXCEPT !.spinning[d] = FALSE]

\* Every change of the drive port stops the drive and starts it again.  `held'
\* is a history: the 6502 has opened the write gate, and it was not closed since.
SetDriveOut(f, select, load, gate, inwards) ==
  LET stopped == IF f.select # None /\ f.load THEN StopSpinning(f, f.select) ELSE f
      out == [stopped EXCEPT !.select = select, !.load = load, !.gate = gate,
                             !.inwards = inwards, !.held = @ /\ gate]
  IN  IF select # None /\ load THEN StartSpinning(out, select) ELSE out

\* A command that opens the gate answers for it from then on.
OpenGate(f) == [SetDriveOut(f, f.select, f.load, TRUE, f.inwards) EXCEPT !.held = FALSE]
CloseGate(f) == SetDriveOut(f, f.select, f.load, FALSE, f.inwards)
Spindown(f) == SetDriveOut(f, None, FALSE, f.gate, f.inwards)

\* The registers used for a drive: the first drive's unless the second is
\* selected.
Unit(f) == IF f.select = Drive1 THEN Drive1 ELSE Drive0

TRK0(f) == f.select # None /\ f.head[f.select] = 0
IsReady(f, d) == f.select = d /\ f.spinning[d]
IsProtected(f) ==
  f.select # None /\ f.spinning[f.select] /\ f.media[f.select] = "protected"

\* The ready bits stay low once they were low, and are only read anew by the
\* command that reads the drive status.
ReadDriveStatus(f) ==
  [f EXCEPT !.ready = [d \in Drives |-> @[d] /\ IsReady(f, d)],
            !.protected = IsProtected(f)]

-----------------------------------------------------------------------------
(* The end of a command. *)

SetState(f, s) == [f EXCEPT !.state = s, !.crcBytes = 0]

\* Mutant: the timer is not stopped.
ClearCallbacksTicking(f) ==
  [SetState(f, "idle") EXCEPT
     !.accepts = "none", !.onIndex = "none", !.indexCount = 0, !.timer = "none"]

ClearCallbacks(f) ==
  LET g == IF f.timer # "none" /\ ~f.ticking THEN Fail(f, "timer is not ticking") ELSE f
  IN  [SetState(g, "idle") EXCEPT
         !.accepts = "none", !.onIndex = "none", !.indexCount = 0, !.timer = "none",
         !.ticking = @ /\ f.timer = "none"]

HeadUnload(f) == IF f.specified THEN program.unload ELSE 0

\* What a command keeps in registers is written by the next one before it is
\* read: it is forgotten, to tell fewer states apart.
Forget(f) ==
  [f EXCEPT !.command = "none", !.wanted = None, !.call = "none", !.track = 0,
            !.target = 0, !.steps = 0, !.sectors = 0, !.second = 0,
            !.didStep = FALSE, !.count = 0, !.left = 0, !.routine = 0,
            !.retries = 0, !.asked = 0]

FinishSimpleCommand(f) ==
  LET g == Forget(ClearCallbacks([f EXCEPT !.busy = FALSE, !.irqs = FALSE]))
  IN  IF HeadUnload(f) = 0 THEN Spindown(g)
      ELSE IF HeadUnload(f) = Never THEN g
      ELSE [g EXCEPT !.onIndex = "spindown", !.indexCount = HeadUnload(f)]

\* Mutant: the write gate stays open after an error.
FinishCommandGateOpen(f, result) ==
  LET told == [f EXCEPT !.result = @ \cup ({result} \ {"ok"}),
                        !.resultReady = TRUE, !.nmi = TRUE]
  IN  FinishSimpleCommand(SetLevel(told, TRUE))

\* The result is added to the flag for deleted data.
FinishCommand(f, result) ==
  LET safe == IF result = "ok" THEN f
              ELSE SetDriveOut(f, f.select, f.load, FALSE, FALSE)
      told == [safe EXCEPT !.result = @ \cup ({result} \ {"ok"}),
                           !.resultReady = TRUE, !.nmi = TRUE]
  IN  FinishSimpleCommand(SetLevel(told, TRUE))

\* Mutant: the line stays high.
CommandAbortLineHigh(f) ==
  IF f.gate /\ f.select = None THEN Fail(f, "no drive to write to") ELSE f

\* The line falls but the status bit stays, so that the interrupt of the
\* completion is an edge.
CommandAbort(f) ==
  SetLevel(IF f.gate /\ f.select = None THEN Fail(f, "no drive to write to") ELSE f,
           FALSE)

\* The mode bits are in the status register too.
BreakReset(f) ==
  LET g == SetDriveOut(Forget(ClearCallbacks(CommandAbort(f))), None, FALSE, FALSE, FALSE)
  IN  [g EXCEPT !.busy = FALSE, !.nmi = FALSE, !.need = FALSE, !.irqs = FALSE,
                !.noDma = FALSE]

-----------------------------------------------------------------------------
(* Seeks. *)

SetTimer(f, why) == [f EXCEPT !.timer = why, !.ticking = TRUE]

StartSearch(f) ==
  SetState([f EXCEPT !.left = HeaderBytes], "syncing_for_id")

\* Mutant: a search is never given up.
StartIndexTimeoutNever(f) == [f EXCEPT !.onIndex = "none"]

StartIndexTimeout(f) ==
  [f EXCEPT !.onIndex = "timeout", !.indexCount = TimeoutPulses]

CheckWriteProtect(f) ==
  IF f.protected THEN FinishCommand(f, "write_protected") ELSE f

\* Mutant: a write goes on if the disc is protected.
PostSeekDispatchUnprotected(f) ==
  LET g == ReadDriveStatus([f EXCEPT !.timer = "none"])
      sized == [g EXCEPT !.count = SectorBytes]
  IN  IF ~g.ready[Unit(g)] THEN FinishCommand(g, "drive_not_ready")
      ELSE CASE g.call = "seek" -> FinishCommand(g, "ok")
             [] g.call = "read_id" -> [g EXCEPT !.onIndex = "start_read_id"]
             [] g.call = "format" -> [sized EXCEPT !.onIndex = "start_format"]
             [] g.call \in {"read", "write"} -> StartSearch(StartIndexTimeout(sized))
             [] OTHER -> Fail(g, "post seek dispatch")

PostSeekDispatch(f) ==
  LET g == ReadDriveStatus([f EXCEPT !.timer = "none"])
      sized == [g EXCEPT !.count = SectorBytes]
  IN  IF ~g.ready[Unit(g)] THEN FinishCommand(g, "drive_not_ready")
      ELSE CASE g.call = "seek" -> FinishCommand(g, "ok")
             [] g.call = "read_id" -> [g EXCEPT !.onIndex = "start_read_id"]
             [] g.call = "format" ->
                  CheckWriteProtect([sized EXCEPT !.onIndex = "start_format"])
             [] g.call = "read" -> StartSearch(StartIndexTimeout(sized))
             [] g.call = "write" ->
                  CheckWriteProtect(StartSearch(StartIndexTimeout(sized)))
             [] OTHER -> Fail(g, "post seek dispatch")

\* Loading the head replaces the wait for it to settle.
DoLoadHead(f) ==
  LET loaded == SetDriveOut(f, f.select, TRUE, f.gate, f.inwards)
      waits == f.specified /\ IF f.load THEN f.didStep /\ program.settle ELSE program.load
      g == IF f.load THEN f ELSE loaded
  IN  IF waits THEN SetTimer(g, "post_seek") ELSE PostSeekDispatch(g)

Stepped(track, inwards) ==
  IF inwards THEN IF track = MaxTrack THEN track ELSE track + 1
             ELSE IF track = 0 THEN 0 ELSE track - 1

DoSeekStep(f) ==
  IF (TRK0(f) /\ f.target = 0) \/ f.steps = 0 THEN DoLoadHead(f)
  ELSE SetTimer([f EXCEPT !.didStep = TRUE, !.steps = @ - 1,
                          !.head = [d \in Drives |->
                             IF d = f.select THEN Stepped(@[d], f.inwards) ELSE @[d]]],
                "seek_step")

\* Bad tracks are passed over; 8-bit arithmetic wraps.
PassBadTracks(f, track) ==
  LET pass(t) == IF f.badTrack <= t THEN (t + 1) % RegMod ELSE t
  IN  IF track = 0 THEN 0 ELSE pass(pass(track))

\* Mutant: a seek to track 0 trusts the track register.
DoSeekTrusting(f, call) ==
  LET new == PassBadTracks(f, (f.track + f.retries) % RegMod)
      current == f.trackReg[Unit(f)]
      g == [f EXCEPT !.call = call, !.target = new, !.didStep = FALSE]
  IN  IF new = current THEN DoLoadHead(g)
      ELSE DoSeekStep([g EXCEPT
             !.inwards = new > current,
             !.steps = IF new > current THEN new - current ELSE current - new,
             !.trackReg[Unit(f)] = new])

\* The track register is set before the first step.
DoSeek(f, call) ==
  LET new == PassBadTracks(f, (f.track + f.retries) % RegMod)
      current == IF new = 0 THEN RegMod - 1 ELSE f.trackReg[Unit(f)]
      g == [f EXCEPT !.call = call, !.target = new, !.didStep = FALSE]
  IN  IF new = current THEN DoLoadHead(g)
      ELSE DoSeekStep([g EXCEPT
             !.inwards = new > current,
             !.steps = IF new > current THEN new - current ELSE current - new,
             !.trackReg[Unit(f)] = new])

-----------------------------------------------------------------------------
(* Commands. *)

\* What a command's parameters say: for most a track and a count of sectors,
\* for the drive port what to put there.  The second parameter, for most a sector,
\* decides nothing but how a read id begins.  (Every seek that steps sets the
\* port's direction bit.)
Parameters(c) ==
  IF c = "set_drive_out"
  THEN [select : program.drives, load : BOOLEAN, gate : BOOLEAN]
  ELSE [track : IF c \in Simple THEN {0} ELSE program.tracks,
        second : IF c = "read_id" THEN {0, 1, RegMod - 1} ELSE {0},
        sectors : IF c \in Simple \cup {"seek"} THEN {1} ELSE Sectors]

\* The routine a command calls when the head is in place.
Routine(c) == IF c \in {"read_deleted", "verify", "scan"} THEN "read" ELSE c

\* A read id whose second parameter is not zero, as it is after each header, goes
\* on where the head is.
Direct(f) == f.command = "read_id" /\ f.second # 0

\* Also what follows each sector of several.
CommandDispatch(f) ==
  CASE f.command = "drive_status" ->
         FinishSimpleCommand([ReadDriveStatus(f) EXCEPT
           !.resultReady = TRUE, !.ready = [d \in Drives |-> IsReady(f, d)]])
    [] f.command = "read_special" ->
         FinishSimpleCommand([f EXCEPT !.resultReady = TRUE])
    [] f.command \in {"specify_timings", "specify_tracks"} ->
         [f EXCEPT !.accepts = "specify", !.retries = 3]
    [] f.command = "set_mode" ->
         [Forget(f) EXCEPT !.noDma = TRUE, !.nmi = FALSE, !.need = FALSE, !.irqs = FALSE,
                   !.busy = FALSE]
    [] Direct(f) -> StartSearch(f)
    [] OTHER -> DoSeek(f, Routine(f.command))

\* Selecting another drive unloads the head and closes the gate.  The drive port
\* is written as the 6502 says, the bits of the drive included.
StartCommand(f, p) ==
  LET g == [ReadDriveStatus(f) EXCEPT !.accepts = "none"]
      chosen == IF g.select = g.wanted THEN g
                ELSE SetDriveOut(g, g.wanted, FALSE, FALSE, FALSE)
  IN  IF f.command = "set_drive_out"
      THEN [Forget(SetDriveOut(chosen, p.select, p.load, p.gate, FALSE)) EXCEPT
              !.busy = FALSE, !.held = p.gate]
      ELSE CommandDispatch([chosen EXCEPT !.track = p.track, !.sectors = p.sectors,
                                          !.second = p.second])

Begun(f) == [f EXCEPT !.edge = FALSE]

\* The program goes on unless an assertion has failed.
Become(f) == fdc.failed = "no" /\ fdc' = f /\ program' = program

\* Whether the chip is set up: the 6502 does that first after a reset.
SetupCommands == {"specify_timings", "specify_tracks", "set_mode"}
IsSetUp == fdc.specified /\ fdc.badTrack = RegMod - 1 /\ fdc.noDma

\* A command is written when none is running.  While an interrupt is pending
\* the mode register, which is the status register, is not written.
WriteCommand(c, d) ==
  /\ ~fdc.busy
  /\ c \notin SetupCommands => IsSetUp
  /\ c = "set_mode" => ~fdc.level
  /\ LET f == [Begun(fdc) EXCEPT !.command = c, !.wanted = d, !.busy = TRUE,
                                 !.result = {}, !.resultReady = TRUE,
                                 !.retries = ParamCount[c]]
     IN  IF ParamCount[c] = 0
         THEN \E p \in Parameters(c) : Become(StartCommand(f, p))
         ELSE Become([f EXCEPT !.accepts = "command"])

\* R1 counts the parameters, and later the retries of a seek.
WriteParameter ==
  LET f == [Begun(fdc) EXCEPT !.resultReady = FALSE, !.retries = @ - 1]
  IN  \/ /\ fdc.accepts = "none"
         /\ Become([Begun(fdc) EXCEPT !.resultReady = FALSE])
      \/ /\ fdc.accepts # "none" /\ f.retries > 0
         /\ Become(f)
      \/ /\ fdc.accepts = "command" /\ f.retries = 0
         /\ \E p \in Parameters(f.command) : Become(StartCommand(f, p))
      \/ /\ fdc.accepts = "specify" /\ f.retries = 0
         /\ Become(FinishSimpleCommand(
              IF f.command = "specify_timings" THEN [f EXCEPT !.specified = TRUE]
              ELSE [f EXCEPT !.badTrack = RegMod - 1, !.trackReg[Unit(f)] = 0]))

IssueCommand == \E c \in program.commands, d \in program.drives : WriteCommand(c, d)

ReadResult == Become(LowerNmi([Begun(fdc) EXCEPT !.resultReady = FALSE]))

\* A read or a write of the data register.
AccessData == Become(LowerNmi([Begun(fdc) EXCEPT !.need = FALSE]))

\* Register 2, and BREAK.
Reset == Become(BreakReset(Begun(fdc)))

\* The drives a program leaves alone are empty.
Inserted == {m \in [Drives -> Media] :
               \A d \in Drives : m[d] \in IF d \in program.drives THEN program.media
                                                            ELSE {"empty"}}

PowerOnReset ==
  \E media \in Inserted :
    Become([BreakReset(Begun(fdc)) EXCEPT
              !.result = {}, !.resultReady = FALSE,
              !.trackReg = [d \in Drives |-> 0], !.badTrack = 0,
              !.ready = [d \in Drives |-> FALSE], !.protected = FALSE,
              !.specified = FALSE, !.wasIndex = FALSE,
              !.head = [d \in Drives |-> 0], !.media = media])

ChangeDisc ==
  \E d \in program.drives \ {None}, m \in program.media : Become([Begun(fdc) EXCEPT !.media[d] = m])

-----------------------------------------------------------------------------
(* The timer. *)

\* What a timer callback leaves behind.  If the walk of the expiry list had
\* loaded another timer as the next one due at this tick, and the callback
\* stops that one, the walk fails.
AfterCallback(f, stops) ==
  {f} \cup IF stops THEN {Fail(f, "next timer is not ticking")} ELSE {}

TimerFired ==
  /\ fdc.ticking
  /\ LET f == [Begun(fdc) EXCEPT !.ticking = FALSE]
         g == CASE f.timer = "seek_step" -> DoSeekStep(f)
                [] f.timer = "post_seek" -> PostSeekDispatch(f)
                [] OTHER -> Fail(f, "timer has no purpose")
         stops == \E d \in Drives : fdc.spinning[d] /\ ~g.spinning[d]
     IN  \E h \in AfterCallback(g, stops) : Become(h)

-----------------------------------------------------------------------------
(* A byte passes under the head. *)

StartIrqCallbacks(f) == [f EXCEPT !.irqs = TRUE, !.asked = 0]
StopIrqCallbacks(f) == [f EXCEPT !.irqs = FALSE]

RaiseData(f) ==
  SetLevel([f EXCEPT !.nmi = TRUE, !.need = TRUE, !.asked = @ + 1], TRUE)

DataLossOk(f) == f.noDma /\ f.command # "scan" /\ ~f.need

\* Counted bytes; the count's end also ends the requests for data.
DecrementCounter(f) ==
  IF f.count > 1 THEN [f EXCEPT !.count = @ - 1]
  ELSE StopIrqCallbacks([f EXCEPT !.count = 0])

\* After a sector, also of read id, and at the end of a format.
CheckCompletion(f) ==
  LET g == ReadDriveStatus(f)
      h == ClearCallbacks(CloseGate(g))
  IN  IF ~g.ready[Unit(g)] THEN FinishCommand(g, "drive_not_ready")
      ELSE IF h.sectors = 1 THEN FinishCommand([h EXCEPT !.sectors = 0], "ok")
      ELSE CommandDispatch([h EXCEPT !.sectors = @ - 1, !.second = (@ + 1) % RegMod])

DoWriteRun(f, call) == SetState([OpenGate(f) EXCEPT !.call = call], "write_run")

\* A header whose CRC is right: of another track, of the sector, of another.
HeaderRead(f) ==
  LET missed == [f EXCEPT !.retries = @ + 1]
  IN  IF f.command = "read_id" THEN {CheckCompletion(f)}
      ELSE {IF missed.retries = 3 THEN FinishCommand(missed, "sector_not_found")
                                  ELSE DoSeek(missed, f.call),
            SetState([f EXCEPT !.left = SkipBytes,
                               !.count = IF f.call = "write" THEN SyncBytes ELSE @],
                     "skip_gap_2"),
            SetState(f, "syncing_for_id_wait")}

SkipGap2(f) ==
  LET g == [f EXCEPT !.left = @ - 1]
  IN  IF g.left > 0 THEN g
      ELSE IF f.call = "read" THEN SetState(g, "syncing_for_data")
      ELSE IF f.call = "write" THEN DoWriteRun(g, "write")
      ELSE Fail(g, "skip gap 2")

CheckIdMarker(f) ==
  LET found == SetState(f, "in_id")
  IN  {IF f.command = "read_id" THEN StartIrqCallbacks(found) ELSE found, StartSearch(f)}

InId(f) ==
  LET g == [f EXCEPT !.left = @ - 1]
  IN  IF g.left > 0 THEN g ELSE SetState(StopIrqCallbacks(g), "in_id_crc")

\* The second byte of a CRC decides.  While the head is stepped to another
\* track the state stays, and no later byte counts.
CrcByte(f) == [f EXCEPT !.crcBytes = IF @ = 3 THEN 3 ELSE @ + 1]

InIdCrc(f) ==
  LET g == CrcByte(f)
  IN  IF g.crcBytes = 2 THEN {FinishCommand(g, "id_crc_error")} \cup HeaderRead(g) ELSE {g}

InDataCrc(f) ==
  LET g == CrcByte(f)
  IN  IF g.crcBytes = 2 THEN {FinishCommand(g, "data_crc_error"), CheckCompletion(g)} ELSE {g}

\* A verify and, unless asked for, deleted data make no requests.
CheckDataMarker(f) ==
  LET g == [SetState(f, "in_data") EXCEPT !.asked = 0]
      deleted == [g EXCEPT !.result = {"deleted"}, !.resultReady = TRUE]
  IN  {IF f.command = "verify" THEN g ELSE StartIrqCallbacks(g),
       IF f.command = "read_deleted" THEN StartIrqCallbacks(deleted) ELSE deleted,
       FinishCommand(f, "clock_error")}

InData(f) ==
  LET g == DecrementCounter(f)
  IN  IF g.count = 0 THEN SetState(g, "in_data_crc") ELSE g

ByteRead(f) ==
  LET g == IF f.irqs THEN RaiseData(f) ELSE f
  IN  IF f.irqs /\ ~DataLossOk(f)
      THEN {FinishCommand(CommandAbort(f), "late_dma")}
      ELSE CASE g.state = "skip_gap_2" -> {SkipGap2(g)}
             [] g.state = "check_id_marker" -> CheckIdMarker(g)
             [] g.state = "in_id" -> {InId(g)}
             [] g.state = "in_id_crc" -> InIdCrc(g)
             [] g.state = "check_data_marker" -> CheckDataMarker(g)
             [] g.state = "in_data" -> {InData(g)}
             [] g.state = "in_data_crc" -> InDataCrc(g)

\* Bits are not aligned with the drive's bytes: a mark may be found, and even
\* be complete, within one of them.
Reading(f) ==
  LET mark == IF f.state = "syncing_for_id" THEN "check_id_marker" ELSE "check_data_marker"
      found == IF f.state \in {"syncing_for_id", "syncing_for_data"}
               THEN SetState(f, mark) ELSE f
      aligned == f.state \in {"check_id_marker", "skip_gap_2", "check_data_marker"}
  IN  IF f.state = "syncing_for_id_wait" THEN {f, StartSearch(f)}
      ELSE (IF aligned THEN {} ELSE {f, found}) \cup ByteRead(found)

\* The end of a run of equal bytes.
RunWritten(f) ==
  CASE f.call = "write" -> SetState(StartIrqCallbacks(f), "write_data_mark")
    [] f.call = "format_FFs" -> DoWriteRun([f EXCEPT !.count = SyncBytes], "format_00s")
    [] f.call = "format_00s" -> SetState(StartIrqCallbacks(f), "format_write_id_marker")
    [] f.call = "format_GAP2_FFs" ->
         DoWriteRun([f EXCEPT !.count = SyncBytes], "format_GAP2_00s")
    [] f.call = "format_GAP2_00s" -> SetState(f, "format_write_data_marker")
    [] f.call = "format_data" -> SetState(f, "format_data_crc_2")
    [] OTHER -> Fail(f, "write run")

\* Mutant: the byte asked for with the data mark is not counted.
WriteDataMarkAll(f) == SetState([f EXCEPT !.count = SectorBytes], "write_sector_data")

WriteDataMark(f) == SetState([f EXCEPT !.count = SectorBytes - 1], "write_sector_data")

\* After the last sector of a format gap 4 is written up to the index pulse.
FormatSectorWritten(f) ==
  IF f.sectors = 1
  THEN SetState([f EXCEPT !.onIndex = "stop_format"], "format_gap_4")
  ELSE DoWriteRun([f EXCEPT !.sectors = @ - 1, !.routine = 4, !.count = GapBytes],
                  "format_FFs")

\* Routines 0 to 2 end a sector that is written, 4 to 11 format one.
DynamicDispatch(f) ==
  LET g == [f EXCEPT !.routine = @ + 1]
  IN  CASE f.routine \in {0, 4, 5, 7} -> g
        [] f.routine = 1 -> SetState(g, "write_crc_2")
        [] f.routine = 2 -> CheckCompletion(g)
        [] f.routine = 6 -> StopIrqCallbacks(g)
        [] f.routine = 8 -> SetState(g, "format_id_crc_2")
        [] f.routine = 9 -> DoWriteRun([g EXCEPT !.count = GapBytes], "format_GAP2_FFs")
        [] f.routine = 10 -> DoWriteRun([g EXCEPT !.count = SectorBytes], "format_data")
        [] f.routine = 11 -> FormatSectorWritten(g)
        [] OTHER -> Fail(g, "dodgy routine")

Writing(f) ==
  LET g == IF f.irqs THEN RaiseData(f) ELSE f
      counted == DecrementCounter(g)
  IN  IF f.irqs /\ ~DataLossOk(f) THEN FinishCommand(CommandAbort(f), "late_dma")
      ELSE CASE g.state = "write_run" ->
                  IF counted.count > 0 THEN counted ELSE RunWritten(counted)
             [] g.state = "write_data_mark" -> WriteDataMark(g)
             [] g.state = "write_sector_data" ->
                  IF counted.count > 0 THEN counted
                  ELSE SetState([counted EXCEPT !.routine = 0], "dynamic_dispatch")
             [] g.state = "write_crc_2" -> SetState(g, "write_crc_3")
             [] g.state = "format_id_crc_2" -> SetState(g, "format_id_crc_3")
             [] g.state = "format_data_crc_2" -> SetState(g, "format_data_crc_3")
             [] g.state \in {"write_crc_3", "format_write_id_marker", "format_id_crc_3",
                            "format_write_data_marker", "format_data_crc_3"} ->
                  SetState(g, "dynamic_dispatch")
             [] g.state = "dynamic_dispatch" -> DynamicDispatch(g)
             [] g.state = "format_gap_4" -> g

\* The rising edge of the index pulse.
IndexPulse(f) ==
  LET counted == [f EXCEPT !.indexCount = @ - 1]
  IN  CASE f.onIndex = "none" -> f
        [] f.onIndex = "timeout" ->
             IF counted.indexCount = 0 THEN FinishCommand(counted, "sector_not_found")
                                       ELSE counted
        [] f.onIndex = "spindown" ->
             IF counted.indexCount = 0
             THEN [Spindown(counted) EXCEPT !.onIndex = "none"] ELSE counted
        [] f.onIndex = "start_format" ->
             DoWriteRun([f EXCEPT !.routine = 4, !.onIndex = "none", !.count = GapBytes],
                        "format_FFs")
        [] f.onIndex = "stop_format" -> CheckCompletion(f)
        [] f.onIndex = "start_read_id" -> StartSearch(StartIndexTimeout(f))

\* The levels the index sensor may read: an empty drive asserts it all the time.
IndexLevels ==
  IF fdc.select # None /\ fdc.media[fdc.select] = "empty" THEN {TRUE} ELSE BOOLEAN

PulsesCallback(pulse) ==
  /\ \E d \in Drives : fdc.spinning[d]
  /\ LET f == [Begun(fdc) EXCEPT !.wasIndex = pulse]
         g == IF pulse /\ ~fdc.wasIndex THEN IndexPulse(f) ELSE f
         next == IF g.state = "idle" THEN {g}
                 ELSE IF g.state \in ReadStates THEN Reading(g) ELSE {Writing(g)}
         after == IF fdc.select = None THEN {Fail(f, "no current drive")}
                  ELSE UNION {AfterCallback(h, fdc.ticking /\ ~h.ticking) : h \in next}
     IN  \E h \in after : Become(h)

Byte == \E pulse \in IndexLevels : PulsesCallback(pulse)

-----------------------------------------------------------------------------
(* The system. *)

\* The program has ended.
Aborted == fdc.failed # "no" /\ UNCHANGED vars

Next ==
  \/ IssueCommand \/ WriteParameter \/ ReadResult \/ AccessData \/ Reset
  \/ PowerOnReset \/ ChangeDisc \/ TimerFired \/ Byte \/ Aborted

\* intel_fdc_create and the first power-on reset.
Init ==
  /\ program \in Programs
  /\ \E media \in Inserted :
       fdc = [busy |-> FALSE, nmi |-> FALSE, need |-> FALSE, irqs |-> FALSE,
              noDma |-> FALSE, level |-> FALSE, edge |-> FALSE,
              result |-> {}, resultReady |-> FALSE,
              select |-> None, load |-> FALSE, gate |-> FALSE, held |-> FALSE,
              inwards |-> FALSE,
              spinning |-> [d \in Drives |-> FALSE],
              head |-> [d \in Drives |-> 0], media |-> media,
              accepts |-> "none", retries |-> 0, onIndex |-> "none",
              indexCount |-> 0, wasIndex |-> FALSE,
              timer |-> "none", ticking |-> FALSE, call |-> "none",
              didStep |-> FALSE, state |-> "idle", count |-> 0, left |-> 0,
              crcBytes |-> 0, routine |-> 0, asked |-> 0,
              command |-> "none", wanted |-> None, track |-> 0, sectors |-> 0,
              second |-> 0, target |-> 0, steps |-> 0,
              trackReg |-> [d \in Drives |-> 0], badTrack |-> 0,
              ready |-> [d \in Drives |-> FALSE], protected |-> FALSE,
              specified |-> FALSE, failed |-> "no"]

Spec == Init /\ [][Next]_vars

\* The scheduler calls back the timers that are due, and a disc that turns
\* brings the index hole under the sensor once each revolution and takes it
\* away again, with a byte each time.  (Weak fairness of the first and strong
\* fairness of the others, written out.)
DiscTurns ==
  /\ fdc.failed = "no"
  /\ fdc.select # None /\ fdc.spinning[fdc.select] /\ fdc.media[fdc.select] # "empty"
IndexEdge == ~fdc.wasIndex /\ fdc'.wasIndex
IndexGone == fdc.wasIndex /\ ~fdc'.wasIndex

Fairness ==
  /\ <>[](fdc.ticking /\ fdc.failed = "no") => []<><<TimerFired>>_vars
  /\ []<>(DiscTurns /\ ~fdc.wasIndex) => []<><<IndexEdge>>_vars
  /\ []<>(DiscTurns /\ fdc.wasIndex) => []<><<IndexGone>>_vars

FairSpec == Spec /\ Fairness

-----------------------------------------------------------------------------
(* Properties. *)

Registers == 0..(RegMod - 1)

\* The two assertions that the program may fail: see FailsOnlyThere.
Failures == {"no drive to write to", "next timer is not ticking"}

TypeOK ==
  /\ {fdc.busy, fdc.nmi, fdc.need, fdc.irqs, fdc.noDma, fdc.level, fdc.edge,
      fdc.resultReady, fdc.load, fdc.gate, fdc.held, fdc.inwards, fdc.wasIndex,
      fdc.ticking, fdc.didStep, fdc.protected, fdc.specified} \subseteq BOOLEAN
  /\ fdc.result \subseteq Results
  /\ {fdc.select, fdc.wanted} \subseteq Drives \cup {None}
  /\ fdc.spinning \in [Drives -> BOOLEAN] /\ fdc.ready \in [Drives -> BOOLEAN]
  /\ fdc.head \in [Drives -> 0..MaxTrack] /\ fdc.trackReg \in [Drives -> Registers]
  /\ {fdc.track, fdc.second, fdc.target, fdc.steps, fdc.badTrack} \subseteq Registers
  /\ fdc.accepts \in {"none", "command", "specify"} /\ fdc.retries \in 0..5
  /\ fdc.timer \in {"none", "seek_step", "post_seek"}
  /\ fdc.state \in {"idle"} \cup ReadStates \cup WriteStates
  /\ fdc.sectors \in 0..31 /\ fdc.routine \in 0..12
  /\ fdc.asked \in 0..(SectorBytes + HeaderBytes)
  /\ fdc.failed \in {"no"} \cup Failures

\* The line of the 6502 is high exactly while the status register says so: the
\* bit is set, cleared and written over in seven places.
NmiIsCurrent == fdc.level = fdc.nmi

\* The drive that turns is the selected one with its head loaded.
SpinsOnlyLoaded == \A d \in Drives : fdc.spinning[d] <=> fdc.select = d /\ fdc.load

\* A busy chip waits for something that will come: a parameter, its timer, or
\* the bytes of a turning drive that its state or its index routine looks at.
\* Only a read id that goes on where the head is does not ask whether a drive
\* turns, nor keep it from being unloaded.  An idle chip waits for the automatic
\* head unload at most.
BusyMakesProgress ==
  /\ fdc.timer # "none" <=> fdc.ticking
  /\ fdc.busy =>
       \/ fdc.accepts # "none" \/ fdc.ticking
       \/ /\ fdc.state # "idle" \/ fdc.onIndex \in {"start_read_id", "start_format"}
          /\ (\E d \in Drives : fdc.spinning[d]) \/ Direct(fdc)
  /\ ~fdc.busy =>
       /\ fdc.accepts = "none" /\ ~fdc.ticking /\ fdc.state = "idle"
       /\ fdc.onIndex \in {"none", "spindown"} /\ ~fdc.irqs

\* "If the write gate is open outside a command, it still writes to disc": it is
\* open only as long as the 6502 itself left it so through the drive port, or
\* for a command that writes, at a place it has found, on a disc that is not
\* protected as far as the drive said when the head was in place.  Whatever ends
\* such a command closes the gate, also one that the 6502 had opened before.
GateIsGuarded ==
  fdc.gate => \/ fdc.held
              \/ /\ fdc.busy /\ fdc.command \in {"write", "format"}
                 /\ fdc.state \in WriteStates
                 /\ ~fdc.protected

\* The chip, the line, the write gate and the drives stay in step.
Coherent == TypeOK /\ NmiIsCurrent /\ SpinsOnlyLoaded /\ BusyMakesProgress /\ GateIsGuarded

\* The 6502 is asked for, or given, each byte of a sector exactly once, and
\* each byte of a header that is formatted or read: "This strange decrement is
\* how the ROM does it."
AsksForEachByte ==
  /\ fdc.state = "in_data_crc" =>
       IF fdc.asked = 0
       THEN fdc.command = "verify" \/ (fdc.command # "read_deleted" /\ "deleted" \in fdc.result)
       ELSE fdc.command # "verify" /\ fdc.asked = SectorBytes
  /\ fdc.state = "write_crc_2" => fdc.asked = SectorBytes
  /\ fdc.state = "format_id_crc_2" => fdc.asked = HeaderBytes
  /\ fdc.state = "in_id_crc" /\ fdc.command = "read_id" => fdc.asked = HeaderBytes

\* "We therefore need to de-assert NMI so that the NMI for command completion
\* isn't lost": the end of a command is an edge on the line even when the 6502
\* was late for a byte.  Otherwise the line is high already only if the 6502
\* still has to answer an earlier interrupt.
CompletionInterrupts ==
  [][fdc.busy /\ ~fdc'.busy /\ fdc'.nmi
       => fdc'.edge \/ (fdc.level /\ "late_dma" \notin fdc'.result)]_vars

\* A seek to track 0 that succeeds has found it, whatever the track register
\* said: it may be wrong, as it is set before the first step and a reset may
\* come in between.
SeekFindsTrackZero ==
  [][fdc.busy /\ ~fdc'.busy /\ fdc'.nmi
     /\ fdc.command = "seek" /\ fdc'.result = {} /\ fdc'.trackReg[fdc.wanted] = 0
       => fdc'.head[fdc.wanted] = 0]_vars

\* The 6502 learns of the end of a command, and what it learns of a seek holds.
EndsAreTold == CompletionInterrupts /\ SeekFindsTrackZero

\* Where the program may fail an assertion: where a command is given up with the
\* write gate left open by the 6502 and the drive unloaded since (in a reset, or
\* late for a byte of a read id whose drive was unloaded under it), and in a
\* callback that ends a command, with the timer it stops due at the same tick.
FailsOnlyThere ==
  [][fdc'.failed # fdc.failed =>
       \/ /\ fdc'.failed = "no drive to write to"
          /\ fdc.held /\ fdc'.accepts = "none" /\ ~fdc'.busy
          /\ fdc.select = None \/ (Direct(fdc) /\ fdc.onIndex = "spindown")
       \/ /\ fdc'.failed = "next timer is not ticking"
          /\ fdc.busy /\ fdc.ticking /\ ~fdc'.busy /\ \E d \in Drives : fdc.spinning[d]]_vars

\* A command that has its parameters ends, as long as a disc is in the drive; but
\* a read id that goes on where the head is has nothing that makes it give up.
Unwatched == Direct(fdc) /\ fdc.onIndex \in {"none", "spindown"}
CommandCompletes ==
  fdc.busy /\ fdc.accepts = "none"
    ~> \/ ~fdc.busy \/ fdc.accepts # "none" \/ Unwatched \/ fdc.failed # "no"
       \/ fdc.select # None /\ fdc.media[fdc.select] = "empty"
=============================================================================
