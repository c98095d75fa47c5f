----------------------------- MODULE DiscDrive -----------------------------
(***************************************************************************)
(* A disc drive, src/disc_drive.c, and the discs the user swaps in it,      *)
(* src/disc.c: where the head is, what has been written to the surface and *)
(* what of it has reached the image file.                                  *)
(*                                                                         *)
(* A disc remembers one dirty track.  It is written back when the head     *)
(* leaves it, when the disc has turned round and when the motor stops; so  *)
(* the drive has to flush before anything that changes where a write goes. *)
(*                                                                         *)
(* The struct is the record `drive'.  The disc controller, the 6502 behind *)
(* it, acts on it at any time and inside the byte callback; the user swaps *)
(* discs.  A track's content is one value of Data.                         *)
(*                                                                         *)
(* Two things put changes where the drive does not look for them: the user *)
(* takes a disc out that has some, and an 8271 whose write gate was left   *)
(* open writes with the motor off.  `adrift' is a history, the discs with  *)
(* such changes until they are written back.                               *)
(***************************************************************************)
EXTENDS Integers, FiniteSets

CONSTANTS
  DiscCount,      \* discs added to the drive; one more index is "no disc"
  Kind,           \* of each disc: "mutable", "writeable" or "protected"
  Data,           \* what a track may hold
  Blank,          \* what it holds at first
  MaxTrack,       \* the head's last track (83)
  StepSize,       \* tracks a step moves: 1, or 2 of a 40 track drive
  Length          \* [disc index -> [side -> [track -> bytes]]]

Discs == 1..DiscCount
Sides == {0, 1}
Tracks == 0..MaxTrack
NoTrack == <<-1, -1>>

ASSUME DriveAssumption ==
  /\ DiscCount \in Nat
  /\ Kind \in [Discs -> {"mutable", "writeable", "protected"}]
  /\ Blank \in Data
  /\ MaxTrack \in Nat
  /\ StepSize \in {1, 2}
  /\ Length \in [1..(DiscCount + 1) -> [Sides -> [Tracks -> Nat \ {0}]]]

VARIABLE drive

-----------------------------------------------------------------------------
(* Functions of disc.c, on the disc d of a drive f. *)

Abort(f, what) == [f EXCEPT !.failed = IF @ = "no" THEN what ELSE @]

\* disc_write_pulses.
WriteDisc(f, d, at, content) ==
  IF f.dirty[d] \notin {NoTrack, at} THEN Abort(f, "written track is not the dirty one")
  ELSE [f EXCEPT !.dirty[d] = at, !.surface[d][at] = content,
                 !.adrift = IF f.spinning THEN @ ELSE @ \cup {d}]

\* Mutant: the track is marked clean and not written.
FlushForgets(f, d) == [f EXCEPT !.dirty[d] = NoTrack, !.adrift = @ \ {d}]

\* disc_flush_writes.
Flush(f, d) ==
  LET at == f.dirty[d]
  IN  IF at = NoTrack THEN f
      ELSE [f EXCEPT !.dirty[d] = NoTrack,
                     !.file[d] = IF Kind[d] = "mutable"
                                 THEN [@ EXCEPT ![at] = f.surface[d][at]] ELSE @,
                     !.adrift = f.adrift \ {d}]

\* disc_load of every disc, after the first: only an image that is written back
\* is read again.
LoadAll(f) ==
  IF \E d \in Discs : f.dirty[d] # NoTrack THEN Abort(f, "dirty disc is loaded")
  ELSE [f EXCEPT !.surface = [d \in Discs |-> IF Kind[d] = "mutable"
                                             THEN f.file[d] ELSE @[d]]]

-----------------------------------------------------------------------------
(* Functions of disc_drive.c. *)

HasDisc(f) == f.index \in Discs

FlushCurrent(f) == IF HasDisc(f) THEN Flush(f, f.index) ELSE f

TrackLength(f) == Length[f.index][f.side][f.track]

\* disc_drive_get_position_fraction and disc_drive_set_position_fraction: the
\* head keeps its angle, to a whole byte, on a track of another length.
Reposition(f, g) ==
  [g EXCEPT !.head = (TrackLength(g) * (2 * f.head + f.half))
                       \div (2 * TrackLength(f)),
            !.half = 0]

SelectSide(f, side) == Reposition(f, [FlushCurrent(f) EXCEPT !.side = side])

\* Mutant: the head leaves a track that still has to be written.
SeekTrackKeepsDirty(f, direction) ==
  LET t == f.track + StepSize * direction
  IN  Reposition(f, [f EXCEPT !.track =
                       IF t < 0 THEN 0 ELSE IF t > MaxTrack THEN MaxTrack ELSE t])

\* disc_drive_seek_track and disc_drive_select_track.
SeekTrack(f, direction) ==
  LET t == f.track + StepSize * direction
  IN  Reposition(f, [FlushCurrent(f) EXCEPT !.track =
                       IF t < 0 THEN 0 ELSE IF t > MaxTrack THEN MaxTrack ELSE t])

\* Mutant: the drive has no write protect failsafe of its own.
WritePulsesAnyway(f, content) ==
  IF ~HasDisc(f) THEN f
  ELSE WriteDisc(f, f.index, <<f.side, f.track>>, content)

WritePulses(f, content) ==
  IF ~HasDisc(f) \/ Kind[f.index] = "protected" THEN f
  ELSE WriteDisc(f, f.index, <<f.side, f.track>>, content)

StopSpinning(f) == [FlushCurrent(f) EXCEPT !.spinning = FALSE]

\* What the controller may do with a drive it has selected.
ControllerOutcomes(f) ==
  {f} \cup {WritePulses(f, content) : content \in Data}
      \cup {SelectSide(f, side) : side \in Sides}
      \cup {SeekTrack(f, direction) : direction \in {-1, 1}}
      \cup {StopSpinning(f)}
      \cup {[f EXCEPT !.double = double] : double \in BOOLEAN}

-----------------------------------------------------------------------------
(* Actions. *)

\* The 6502 programs the controller, between two bytes.
Controller ==
  /\ drive.spinning
  /\ drive' \in ControllerOutcomes(drive)

StartSpinning ==
  /\ ~drive.spinning
  /\ drive' = [drive EXCEPT !.spinning = TRUE]

\* A controller also steps a drive and selects its side with the motor off.
MoveStoppedHead ==
  /\ ~drive.spinning
  /\ drive' \in {SelectSide(drive, side) : side \in Sides}
                  \cup {SeekTrack(drive, direction) : direction \in {-1, 1}}

\* intel_fdc_command_abort, and a byte whose index pulse has stopped the motor,
\* with the write gate left open by the 6502.
WriteStopped ==
  /\ ~drive.spinning
  /\ drive' \in {WritePulses(drive, content) : content \in Data}

\* Mutant: the disc turns for ever without being written back.
AdvanceHeadUnflushed(f, halfByte) ==
  IF halfByte /\ f.half = 0 THEN [f EXCEPT !.half = 1]
  ELSE [f EXCEPT !.half = 0, !.head = (@ + 1) % TrackLength(f)]

\* The head moves on by a byte, or half of one, as was read before the callback,
\* from where the callback left it; after a full turn the disc is flushed.
AdvanceHead(f, halfByte) ==
  IF halfByte /\ f.half = 0 THEN [f EXCEPT !.half = 1]
  ELSE IF f.head + 1 = TrackLength(f)
       THEN [FlushCurrent(f) EXCEPT !.half = 0, !.head = 0]
       ELSE [f EXCEPT !.half = 0, !.head = @ + 1]

\* disc_drive_timer_callback: the byte under the head is given to the
\* controller.
TimerCallback ==
  /\ drive.spinning
  /\ \E f \in ControllerOutcomes(drive) :
       drive' = IF f.failed = "no" THEN AdvanceHead(f, drive.half = 1 \/ drive.double) ELSE f

\* The disc taken out, if it has unwritten changes.
TakenOut ==
  {d \in Discs : d = drive.index /\ drive.dirty[d] # NoTrack}

\* Mutant: the head keeps its byte on a track of another length.
CycleDiscKeepsHead ==
  drive' = [drive EXCEPT !.index = IF @ = DiscCount + 1 THEN 1 ELSE @ + 1,
                         !.adrift = @ \cup TakenOut]

\* The user puts the next disc in, and nothing is flushed: disc_drive_cycle_disc.
CycleDisc ==
  drive' = Reposition(drive, [drive EXCEPT !.index =
                                IF @ = DiscCount + 1 THEN 1 ELSE @ + 1,
                                           !.adrift = @ \cup TakenOut])

\* The controller has stopped the motor before.
PowerOnReset ==
  LET f == IF drive.spinning THEN StopSpinning(drive) ELSE drive
  IN drive' = LoadAll([f EXCEPT !.side = 0, !.track = 0, !.head = 0, !.half = 0,
                                !.index = 1])

Running ==
  \/ Controller \/ StartSpinning \/ MoveStoppedHead \/ WriteStopped
  \/ TimerCallback \/ CycleDisc \/ PowerOnReset

\* A failed assertion has ended the program.
Aborted == drive.failed # "no" /\ UNCHANGED drive

Next == (drive.failed = "no" /\ Running) \/ Aborted

Init ==
  LET blank == [d \in Discs |-> [at \in Sides \X Tracks |-> Blank]]
  IN drive = [index |-> 1, side |-> 0, track |-> 0, head |-> 0, half |-> 0,
              double |-> FALSE, spinning |-> FALSE, surface |-> blank,
              file |-> blank, dirty |-> [d \in Discs |-> NoTrack], adrift |-> {},
              failed |-> "no"]

Spec == Init /\ [][Next]_drive

\* A drive's motor turns the disc as long as it runs.
FairSpec == Spec /\ WF_drive(drive.failed = "no" /\ TimerCallback)

-----------------------------------------------------------------------------
(* Properties. *)

\* The drive's fields keep their types.
TypeOK ==
  /\ drive.index \in 1..(DiscCount + 1)
  /\ drive.side \in Sides /\ drive.track \in Tracks
  /\ drive.head \in Nat /\ drive.half \in {0, 1}
  /\ drive.spinning \in BOOLEAN /\ drive.double \in BOOLEAN
  /\ {drive.surface, drive.file} \subseteq [Discs -> [Sides \X Tracks -> Data]]
  /\ drive.dirty \in [Discs -> (Sides \X Tracks) \cup {NoTrack}]
  /\ drive.adrift \subseteq Discs
  /\ drive.failed \in {"no", "written track is not the dirty one", "dirty disc is loaded"}

\* The head is over a byte of the track, through steps, sides and swaps to
\* tracks of other lengths: what the assertions of the timer callback and of
\* disc_write_pulses ask.
HeadOnTrack == drive.head < TrackLength(drive)

\* Nothing written to an image that is to be written back is missing from its
\* file, but the one dirty track of the disc, wherever the disc is.
WritesReachFile ==
  \A d \in Discs : \A at \in Sides \X Tracks :
    Kind[d] = "mutable" /\ drive.surface[d][at] # drive.file[d][at]
      => drive.dirty[d] = at

\* With the motor off no disc of the drive has anything left to write but those
\* adrift, so that only these fail the assertion of the power-on reset that loads
\* them all.
StoppedIsClean ==
  /\ ~drive.spinning => \A d \in Discs : drive.dirty[d] = NoTrack \/ d \in drive.adrift
  /\ drive.failed = "dirty disc is loaded" =>
       \E d \in drive.adrift : drive.dirty[d] # NoTrack

\* What is written stays on the dirty track: the assertions of disc_write_pulses
\* fail at most for a disc put in again, or turned again, that is adrift with the
\* changes of another track.
WritesStayOnTrack ==
  drive.failed = "written track is not the dirty one" =>
    /\ drive.index \in drive.adrift
    /\ drive.dirty[drive.index] \notin {NoTrack, <<drive.side, drive.track>>}

\* No change is lost sight of but those adrift, and no assertion fails but for them.
ChangesAreTended == StoppedIsClean /\ WritesStayOnTrack

\* A protected disc is never changed, although the user may swap one in
\* between the controller's check and its write.
ProtectedNeverChanges ==
  \A d \in Discs : Kind[d] = "protected" =>
    drive.surface[d] = [at \in Sides \X Tracks |-> Blank]

\* A written track reaches the file after at most a turn of the disc, or when
\* the head leaves it or the motor stops; but for a disc adrift.
DirtyTrackIsFlushed ==
  \A d \in Discs :
    drive.dirty[d] # NoTrack ~>
      drive.dirty[d] = NoTrack \/ d \in drive.adrift \/ drive.failed # "no"
=============================================================================
