------------------------- MODULE DiscDriveProofs -------------------------
(***************************************************************************)
(* Proofs about DiscDrive: no write is lost, the head never leaves its     *)
(* track, and no assertion fails but for a disc that is adrift: one the    *)
(* user took out with unwritten changes, or the 6502 has written to with   *)
(* the motor off.                                                          *)
(*                                                                         *)
(* The invariant is Sound: only the disc in a turning drive is dirty, and  *)
(* its dirty track is the one under the head, or the disc is adrift.  Every *)
(* function of the drive is shown to lead from a sound struct to a sound   *)
(* one; the functions that move the head flush first, and a struct with    *)
(* nothing dirty but what is adrift (Settled) may be moved anywhere.       *)
(***************************************************************************)
EXTENDS DiscDrive, TLAPS

Places == Sides \X Tracks

Structs ==
  [index : 1..(DiscCount + 1), side : Sides, track : Tracks, head : Nat,
   half : {0, 1}, double : BOOLEAN, spinning : BOOLEAN,
   surface : [Discs -> [Places -> Data]], file : [Discs -> [Places -> Data]],
   dirty : [Discs -> Places \cup {NoTrack}], adrift : SUBSET Discs,
   failed : {"no", "written track is not the dirty one", "dirty disc is loaded"}]

HeadIn(f) == f.head < TrackLength(f)

Saved(f) == \A d \in Discs : \A at \in Places :
  Kind[d] = "mutable" /\ f.surface[d][at] # f.file[d][at] => f.dirty[d] = at

Untouched(f) == \A d \in Discs : Kind[d] = "protected" =>
  f.surface[d] = [at \in Places |-> Blank]

DirtyIsHere(f) == \A d \in Discs : f.dirty[d] # NoTrack =>
  \/ d \in f.adrift
  \/ d = f.index /\ f.spinning /\ f.dirty[d] = <<f.side, f.track>>

Settled(f) == \A d \in Discs : f.dirty[d] = NoTrack \/ d \in f.adrift

\* How the assertions may have failed.
FailsAdrift(f) ==
  /\ f.failed = "written track is not the dirty one" =>
       /\ f.index \in f.adrift
       /\ f.dirty[f.index] \notin {NoTrack, <<f.side, f.track>>}
  /\ f.failed = "dirty disc is loaded" =>
       \E d \in f.adrift : f.dirty[d] # NoTrack

Sound(f) ==
  /\ f \in Structs
  /\ HeadIn(f)
  /\ Saved(f)
  /\ Untouched(f)
  /\ DirtyIsHere(f)
  /\ f.failed = "no"

\* What a failed assertion leaves behind.
Ended(f) ==
  /\ f \in Structs
  /\ HeadIn(f)
  /\ Saved(f)
  /\ Untouched(f)
  /\ DirtyIsHere(f)
  /\ f.failed # "no" /\ FailsAdrift(f)

-----------------------------------------------------------------------------
(* Arithmetic of the head's position. *)

\* A position scaled from a track of l bytes to one of n is on that track.
LEMMA ScaledIsLess ==
  ASSUME NEW n \in Nat \ {0}, NEW k \in Nat \ {0}, NEW m \in Nat, m < k
  PROVE  (n * m) \div k \in Nat /\ (n * m) \div k < n
<1> DEFINE q == (n * m) \div k
<1>1. n * m \in Nat
  OBVIOUS
<1>2. q \in Nat
  BY <1>1
<1>3. q * k <= n * m
  BY <1>1
<1>4. n * m < n * k
  OBVIOUS
<1>5. q * k < n * k
  BY <1>2, <1>3, <1>4, <1>1
<1>6. ~(q >= n)
  <2>1. SUFFICES ASSUME q >= n PROVE FALSE
    OBVIOUS
  <2>2. q * k >= n * k
    BY <2>1, <1>2
  <2> QED BY <2>2, <1>5, <1>2
<1> QED BY <1>2, <1>6

\* A track is never of no length.
LEMMA LengthIsPositive ==
  ASSUME NEW f \in Structs
  PROVE  TrackLength(f) \in Nat \ {0}
<1>1. f.index \in 1..(DiscCount + 1) /\ f.side \in Sides /\ f.track \in Tracks
  BY DEF Structs
<1> QED BY <1>1, DriveAssumption DEF TrackLength

\* Moving the head to another track or side changes only its place, and puts
\* it over a byte of the track it moves to.
LEMMA RepositionKeepsHeadIn ==
  ASSUME NEW f \in Structs, NEW g \in Structs, HeadIn(f),
         g.head = f.head, g.half = f.half
  PROVE  LET h == Reposition(f, g)
         IN  /\ h \in Structs /\ HeadIn(h)
             /\ h.index = g.index /\ h.side = g.side /\ h.track = g.track
             /\ h.surface = g.surface /\ h.file = g.file
             /\ h.dirty = g.dirty /\ h.adrift = g.adrift /\ h.failed = g.failed
             /\ h.spinning = g.spinning
<1> DEFINE h == Reposition(f, g)
<1> DEFINE pos == (TrackLength(g) * (2 * f.head + f.half)) \div (2 * TrackLength(f))
<1>1. TrackLength(f) \in Nat \ {0} /\ TrackLength(g) \in Nat \ {0}
  BY LengthIsPositive
<1>2. f.head \in Nat /\ f.half \in {0, 1}
  BY DEF Structs
<1>3. f.head < TrackLength(f)
  BY DEF HeadIn
<1>4. 2 * f.head + f.half \in Nat /\ 2 * TrackLength(f) \in Nat \ {0}
      /\ 2 * f.head + f.half < 2 * TrackLength(f)
  BY <1>1, <1>2, <1>3
<1>5. pos \in Nat /\ pos < TrackLength(g)
  BY <1>1, <1>4, ScaledIsLess
<1>6. h = [g EXCEPT !.head = pos, !.half = 0]
  BY DEF Reposition
<1>7. /\ h \in Structs /\ h.head = pos
      /\ h.index = g.index /\ h.side = g.side /\ h.track = g.track
      /\ h.surface = g.surface /\ h.file = g.file
      /\ h.dirty = g.dirty /\ h.adrift = g.adrift /\ h.failed = g.failed
      /\ h.spinning = g.spinning
  <2> HIDE DEF pos, h
  <2> QED BY <1>5, <1>6 DEF Structs
<1>8. TrackLength(h) = TrackLength(g)
  <2> HIDE DEF h
  <2> QED BY <1>7 DEF TrackLength
<1>9. HeadIn(h)
  <2> HIDE DEF h, pos
  <2> QED BY <1>5, <1>7, <1>8 DEF HeadIn
<1> QED BY <1>7, <1>9

-----------------------------------------------------------------------------
(* What each function of the drive does to a sound struct. *)

\* Flushing leaves no disc dirty that is not adrift, and moves nothing.
LEMMA FlushCleans ==
  ASSUME NEW f, Sound(f)
  PROVE  LET h == FlushCurrent(f)
         IN  /\ Sound(h) /\ Settled(h)
             /\ h.index = f.index /\ h.side = f.side /\ h.track = f.track
             /\ h.head = f.head /\ h.half = f.half
<1> DEFINE h == FlushCurrent(f)
<1>1. f \in Structs
  BY DEF Sound
<1>2. CASE ~HasDisc(f)
  <2>1. h = f
    BY <1>2 DEF FlushCurrent
  <2>2. \A d \in Discs : f.dirty[d] = NoTrack \/ d \in f.adrift
    BY <1>2 DEF Sound, DirtyIsHere, HasDisc
  <2> QED BY <2>1, <2>2 DEF Settled
<1>3. CASE HasDisc(f)
  <2> DEFINE d == f.index
  <2> DEFINE at == f.dirty[d]
  <2>1. d \in Discs
    BY <1>3 DEF HasDisc
  <2>2. h = Flush(f, d)
    BY <1>3 DEF FlushCurrent
  <2>3. \A e \in Discs : e # d => f.dirty[e] = NoTrack \/ e \in f.adrift
    BY DEF Sound, DirtyIsHere
  <2>4. CASE at = NoTrack
    <3>1. h = f
      BY <2>2, <2>4 DEF Flush
    <3>2. \A e \in Discs : f.dirty[e] = NoTrack \/ e \in f.adrift
      BY <2>3, <2>4
    <3> QED BY <3>1, <3>2 DEF Settled
  <2>5. CASE at # NoTrack
    <3>1. at \in Places
      BY <1>1, <2>1, <2>5 DEF Structs
    <3> DEFINE written == IF Kind[d] = "mutable"
                          THEN [f.file[d] EXCEPT ![at] = f.surface[d][at]]
                          ELSE f.file[d]
    <3>2. h = [f EXCEPT !.dirty[d] = NoTrack, !.file[d] = written, !.adrift = f.adrift \ {d}]
      BY <2>2, <2>5 DEF Flush
    <3>3. written \in [Places -> Data]
      <4>1. /\ f.file \in [Discs -> [Places -> Data]]
            /\ f.surface \in [Discs -> [Places -> Data]]
        BY <1>1 DEF Structs
      <4>2. f.file[d] \in [Places -> Data] /\ f.surface[d][at] \in Data
        BY <2>1, <3>1, <4>1
      <4> HIDE DEF at, d
      <4> QED BY <4>2 DEF written
    <3>4. /\ h \in Structs
          /\ h.dirty = [f.dirty EXCEPT ![d] = NoTrack] /\ h.adrift = f.adrift \ {d}
          /\ h.file = [f.file EXCEPT ![d] = written]
          /\ h.surface = f.surface /\ h.failed = f.failed
          /\ h.index = f.index /\ h.side = f.side /\ h.track = f.track
          /\ h.head = f.head /\ h.half = f.half
      <4> HIDE DEF h, written
      <4> QED BY <1>1, <2>1, <3>2, <3>3 DEF Structs
    <3>5. Settled(h)
      <4> SUFFICES ASSUME NEW e \in Discs PROVE h.dirty[e] = NoTrack \/ e \in h.adrift
        BY DEF Settled
      <4>1. f.dirty \in [Discs -> Places \cup {NoTrack}]
        BY <1>1 DEF Structs
      <4> HIDE DEF h, d
      <4> QED BY <2>1, <2>3, <3>4, <4>1
    <3>6. Saved(h)
      <4> SUFFICES ASSUME NEW e \in Discs, NEW p \in Places, Kind[e] = "mutable",
                          h.surface[e][p] # h.file[e][p]
                   PROVE  h.dirty[e] = p
        BY DEF Saved
      <4>1. f.file \in [Discs -> [Places -> Data]]
        BY <1>1 DEF Structs
      <4>2. f.surface[e][p] = f.file[e][p] \/ f.dirty[e] = p
        BY DEF Sound, Saved
      <4>3. CASE e = d
        <5>1. h.file[e] = [f.file[d] EXCEPT ![at] = f.surface[d][at]]
          <6> HIDE DEF h, d, at
          <6> QED BY <2>1, <3>4, <4>1, <4>3
        <5>2. CASE p = at
          <6> HIDE DEF h, d, at
          <6> QED BY <4>1, <4>3, <5>1, <5>2, <2>1, <3>4
        <5>3. CASE p # at
          <6>1. f.surface[e][p] = f.file[e][p]
            BY <4>2, <4>3, <5>3
          <6> HIDE DEF h, d, at
          <6> QED BY <4>1, <4>3, <5>1, <5>3, <6>1, <2>1, <3>4
        <5> QED BY <5>2, <5>3
      <4>4. CASE e # d
        <5>1. f.dirty \in [Discs -> Places \cup {NoTrack}]
          BY <1>1 DEF Structs
        <5>2. h.file[e] = f.file[e] /\ h.dirty[e] = f.dirty[e]
          <6> HIDE DEF h, d
          <6> QED BY <3>4, <4>1, <4>4, <5>1
        <5> HIDE DEF h
        <5> QED BY <3>4, <4>2, <5>2
      <4> QED BY <4>3, <4>4
    <3>7. HeadIn(h) /\ Untouched(h) /\ DirtyIsHere(h) /\ h.failed = "no"
      <4>1. TrackLength(h) = TrackLength(f)
        <5> HIDE DEF h
        <5> QED BY <3>4 DEF TrackLength
      <4> HIDE DEF h
      <4> QED BY <3>4, <3>5, <4>1 DEF Sound, HeadIn, Untouched, DirtyIsHere, Settled
    <3>8. Sound(h)
      <4> HIDE DEF h
      <4> QED BY <3>4, <3>6, <3>7 DEF Sound
    <3> QED BY <3>4, <3>5, <3>8
  <2> QED BY <2>4, <2>5
<1> QED BY <1>2, <1>3

\* A settled struct stays sound when its place, its half byte and its motor
\* change, as long as the head stays on the track.
LEMMA SettledMoves ==
  ASSUME NEW f, Sound(f), Settled(f), NEW h \in Structs, HeadIn(h),
         h.surface = f.surface, h.file = f.file, h.dirty = f.dirty,
         h.adrift = f.adrift, h.failed = f.failed
  PROVE  Sound(h) /\ Settled(h)
BY DEF Sound, Settled, Saved, Untouched, DirtyIsHere

\* disc_drive_select_side puts the head on the other side only once the track is written.
LEMMA SelectSideSound ==
  ASSUME NEW f, Sound(f), NEW side \in Sides
  PROVE  Sound(SelectSide(f, side))
<1> DEFINE c == FlushCurrent(f)
<1> DEFINE g == [c EXCEPT !.side = side]
<1>1. /\ Sound(c) /\ Settled(c) /\ c.head = f.head /\ c.half = f.half
  BY FlushCleans
<1>2. c \in Structs /\ f \in Structs /\ HeadIn(f)
  BY <1>1 DEF Sound
<1>3. /\ g \in Structs /\ g.head = f.head /\ g.half = f.half
      /\ g.surface = c.surface /\ g.file = c.file /\ g.dirty = c.dirty /\ g.adrift = c.adrift
      /\ g.failed = c.failed
  <2> HIDE DEF c
  <2> QED BY <1>1, <1>2 DEF Structs
<1> HIDE DEF c, g
<1>4. SelectSide(f, side) = Reposition(f, g)
  BY DEF SelectSide, g, c
<1>5. /\ Reposition(f, g) \in Structs /\ HeadIn(Reposition(f, g))
      /\ Reposition(f, g).surface = c.surface /\ Reposition(f, g).file = c.file
      /\ Reposition(f, g).dirty = c.dirty /\ Reposition(f, g).adrift = c.adrift /\ Reposition(f, g).failed = c.failed
  BY <1>2, <1>3, RepositionKeepsHeadIn
<1> QED BY <1>1, <1>4, <1>5, SettledMoves

\* disc_drive_seek_track moves the head only once the track is written.
LEMMA SeekTrackSound ==
  ASSUME NEW f, Sound(f), NEW direction \in {-1, 1}
  PROVE  Sound(SeekTrack(f, direction))
<1> DEFINE c == FlushCurrent(f)
<1> DEFINE t == f.track + StepSize * direction
<1> DEFINE u == IF t < 0 THEN 0 ELSE IF t > MaxTrack THEN MaxTrack ELSE t
<1> DEFINE g == [c EXCEPT !.track = u]
<1>1. /\ Sound(c) /\ Settled(c) /\ c.head = f.head /\ c.half = f.half
  BY FlushCleans
<1>2. c \in Structs /\ f \in Structs /\ HeadIn(f)
  BY <1>1 DEF Sound
<1>3. u \in Tracks
  <2>1. f.track \in 0..MaxTrack
    BY <1>2 DEF Structs, Tracks
  <2>2. MaxTrack \in Nat /\ StepSize \in Int
    BY DriveAssumption
  <2>3. t \in Int
    BY <2>1, <2>2
  <2> HIDE DEF t
  <2> QED BY <2>2, <2>3 DEF Tracks
<1>4. /\ g \in Structs /\ g.head = f.head /\ g.half = f.half
      /\ g.surface = c.surface /\ g.file = c.file /\ g.dirty = c.dirty /\ g.adrift = c.adrift
      /\ g.failed = c.failed
  <2> HIDE DEF c, u
  <2> QED BY <1>1, <1>2, <1>3 DEF Structs
<1>5. SeekTrack(f, direction) = Reposition(f, g)
  BY DEF SeekTrack
<1> HIDE DEF c, g
<1>6. /\ Reposition(f, g) \in Structs /\ HeadIn(Reposition(f, g))
      /\ Reposition(f, g).surface = c.surface /\ Reposition(f, g).file = c.file
      /\ Reposition(f, g).dirty = c.dirty /\ Reposition(f, g).adrift = c.adrift /\ Reposition(f, g).failed = c.failed
  BY <1>2, <1>4, RepositionKeepsHeadIn
<1> QED BY <1>1, <1>5, <1>6, SettledMoves

\* disc_drive_stop_spinning writes the track and leaves nothing dirty that is not adrift.
LEMMA StopSpinningSound ==
  ASSUME NEW f, Sound(f)
  PROVE  /\ Sound(StopSpinning(f)) /\ Settled(StopSpinning(f))
<1> DEFINE c == FlushCurrent(f)
<1> DEFINE h == [c EXCEPT !.spinning = FALSE]
<1>1. Sound(c) /\ Settled(c)
  BY FlushCleans
<1>2. c \in Structs /\ HeadIn(c)
  BY <1>1 DEF Sound
<1> HIDE DEF c
<1>3. /\ h \in Structs /\ h.surface = c.surface /\ h.file = c.file
      /\ h.dirty = c.dirty /\ h.adrift = c.adrift /\ h.failed = c.failed /\ h.head = c.head
      /\ h.index = c.index /\ h.side = c.side /\ h.track = c.track
  BY <1>2 DEF Structs
<1>4. StopSpinning(f) = h
  BY DEF StopSpinning, c
<1> HIDE DEF h
<1>5. HeadIn(h)
  BY <1>2, <1>3 DEF HeadIn, TrackLength
<1>6. Settled(h)
  BY <1>1, <1>3 DEF Settled
<1> QED BY <1>1, <1>3, <1>4, <1>5, <1>6, SettledMoves

\* A failed assertion leaves the drive and its discs as they are.
LEMMA FailureKeeps ==
  ASSUME NEW f, Sound(f), NEW h, h.surface = f.surface, h.file = f.file, h.dirty = f.dirty,
         h.adrift = f.adrift, h.head = f.head, h.index = f.index, h.side = f.side,
         h.track = f.track, h.spinning = f.spinning
  PROVE  HeadIn(h) /\ Saved(h) /\ Untouched(h) /\ DirtyIsHere(h)
<1>1. HeadIn(h) BY DEF Sound, HeadIn, TrackLength
<1>2. Saved(h) BY DEF Sound, Saved
<1>3. Untouched(h) BY DEF Sound, Untouched
<1>4. DirtyIsHere(h) BY DEF Sound, DirtyIsHere
<1> QED BY <1>1, <1>2, <1>3, <1>4

\* A write lands on the track under the head, which is the dirty one if any is, or
\* it fails: then the disc has been adrift with another.
LEMMA WritePulsesSound ==
  ASSUME NEW f, Sound(f), NEW content \in Data
  PROVE  Sound(WritePulses(f, content)) \/ Ended(WritePulses(f, content))
<1> DEFINE h == WritePulses(f, content)
<1>1. CASE ~HasDisc(f) \/ Kind[f.index] = "protected"
  BY <1>1 DEF WritePulses
<1>3. CASE HasDisc(f) /\ Kind[f.index] # "protected" /\ f.dirty[f.index] \notin {NoTrack, <<f.side, f.track>>}
  <2>1. f \in Structs /\ f.index \in Discs
    BY <1>3 DEF Sound, HasDisc
  <2>2. f.index \in f.adrift
    BY <1>3, <2>1 DEF Sound, DirtyIsHere
  <2>3. h = [f EXCEPT !.failed = "written track is not the dirty one"]
    BY <1>3 DEF WritePulses, WriteDisc, Abort, Sound
  <2> HIDE DEF h
  <2>4. /\ h \in Structs /\ h.surface = f.surface /\ h.file = f.file
        /\ h.dirty = f.dirty /\ h.adrift = f.adrift /\ h.head = f.head
        /\ h.index = f.index /\ h.side = f.side /\ h.track = f.track
        /\ h.spinning = f.spinning /\ h.failed = "written track is not the dirty one"
    BY <2>1, <2>3 DEF Structs
  <2>5. HeadIn(h) /\ Saved(h) /\ Untouched(h) /\ DirtyIsHere(h)
    BY <2>4, FailureKeeps
  <2>6. FailsAdrift(h) /\ h.failed # "no"
    BY <1>3, <2>2, <2>4 DEF FailsAdrift
  <2>7. Ended(h)
    BY <2>4, <2>5, <2>6 DEF Ended
  <2> QED BY <2>7 DEF h
<1>2. CASE HasDisc(f) /\ Kind[f.index] # "protected" /\ f.dirty[f.index] \in {NoTrack, <<f.side, f.track>>}
  <2> DEFINE d == f.index
  <2> DEFINE at == <<f.side, f.track>>
  <2> DEFINE adrift == IF f.spinning THEN f.adrift ELSE f.adrift \cup {f.index}
  <2>1. f \in Structs
    BY DEF Sound
  <2>2. d \in Discs /\ at \in Places
    BY <1>2, <2>1 DEF HasDisc, Structs, Places
  <2>3. f.dirty[d] \in {NoTrack, at}
    BY <1>2
  <2>4. h = [f EXCEPT !.dirty[d] = at, !.surface[d][at] = content, !.adrift = adrift]
    BY <1>2, <2>3 DEF WritePulses, WriteDisc
  <2> DEFINE written == [f.surface[d] EXCEPT ![at] = content]
  <2>5. written \in [Places -> Data] /\ adrift \in SUBSET Discs
    BY <2>1, <2>2 DEF Structs
  <2>6. /\ h \in Structs
        /\ h.dirty = [f.dirty EXCEPT ![d] = at]
        /\ h.surface = [f.surface EXCEPT ![d] = written]
        /\ h.file = f.file /\ h.failed = f.failed /\ h.adrift = adrift
        /\ h.index = f.index /\ h.side = f.side /\ h.track = f.track
        /\ h.head = f.head /\ h.spinning = f.spinning
    <3>1. h = [f EXCEPT !.dirty[d] = at, !.surface[d] = written, !.adrift = adrift]
      BY <2>4
    <3> HIDE DEF h, written, at, d, adrift
    <3> QED BY <2>1, <2>2, <2>5, <3>1 DEF Structs
  <2>7. f.dirty \in [Discs -> Places \cup {NoTrack}]
        /\ f.surface \in [Discs -> [Places -> Data]]
    BY <2>1 DEF Structs
  <2>8. h.dirty[d] = at /\ \A e \in Discs : e # d => h.dirty[e] = f.dirty[e]
    <3> HIDE DEF h, written, at, d
    <3> QED BY <2>2, <2>6, <2>7
  <2>9. h.surface[d] = written
        /\ \A e \in Discs : e # d => h.surface[e] = f.surface[e]
    <3> HIDE DEF h, written, at, d
    <3> QED BY <2>2, <2>6, <2>7
  <2>10. HeadIn(h)
    <3> HIDE DEF h, written, at, d
    <3> QED BY <2>6 DEF Sound, HeadIn, TrackLength
  <2>11. DirtyIsHere(h)
    <3> HIDE DEF h
    <3> QED BY <2>6, <2>8 DEF Sound, DirtyIsHere
  <2>12. Untouched(h)
    <3> HIDE DEF h
    <3> QED BY <1>2, <2>9 DEF Sound, Untouched
  <2>13. Saved(h)
    <3> SUFFICES ASSUME NEW e \in Discs, NEW p \in Places, Kind[e] = "mutable",
                        h.surface[e][p] # h.file[e][p], h.dirty[e] # p
                 PROVE  FALSE
      BY DEF Saved
    <3>1. f.surface[e][p] = f.file[e][p] \/ f.dirty[e] = p
      BY DEF Sound, Saved
    <3>2. CASE e # d
      <4> HIDE DEF h
      <4> QED BY <2>6, <2>8, <2>9, <3>1, <3>2
    <3>3. CASE e = d
      <4>1. p # at
        <5> HIDE DEF h, at
        <5> QED BY <2>8, <3>3
      <4>2. h.surface[e][p] = f.surface[e][p]
        <5> HIDE DEF h, at, d
        <5> QED BY <2>2, <2>7, <2>9, <3>3, <4>1
      <4>3. f.dirty[e] # p
        BY <2>3, <3>3, <4>1 DEF NoTrack, Places, Sides, Tracks
      <4> HIDE DEF h
      <4> QED BY <2>6, <3>1, <4>2, <4>3
    <3> QED BY <3>2, <3>3
  <2> HIDE DEF h
  <2>14. Sound(h)
    BY <2>6, <2>10, <2>11, <2>12, <2>13 DEF Sound
  <2> QED BY <2>14 DEF h
<1> QED BY <1>1, <1>2, <1>3

\* A change of the 32us mode moves nothing and writes nothing.
LEMMA SetDensitySound ==
  ASSUME NEW f, Sound(f), NEW double \in BOOLEAN
  PROVE  Sound([f EXCEPT !.double = double])
<1> DEFINE h == [f EXCEPT !.double = double]
<1>1. f \in Structs
  BY DEF Sound
<1>2. /\ h \in Structs /\ h.surface = f.surface /\ h.file = f.file
      /\ h.dirty = f.dirty /\ h.adrift = f.adrift /\ h.failed = f.failed /\ h.head = f.head
      /\ h.index = f.index /\ h.side = f.side /\ h.track = f.track
      /\ h.spinning = f.spinning
  BY <1>1 DEF Structs
<1> HIDE DEF h
<1>3. HeadIn(h) /\ Saved(h) /\ Untouched(h) /\ DirtyIsHere(h) /\ h.failed = "no"
  BY <1>2 DEF Sound, HeadIn, TrackLength, Saved, Untouched, DirtyIsHere
<1>4. Sound(h)
  BY <1>2, <1>3 DEF Sound
<1> QED BY <1>4 DEF h

\* Whatever the controller does with a turning drive leaves it sound, or ends the program.
LEMMA ControllerSound ==
  ASSUME NEW f, Sound(f), NEW h \in ControllerOutcomes(f)
  PROVE  Sound(h) \/ Ended(h)
<1>1. CASE h = f
  BY <1>1
<1>2. CASE \E content \in Data : h = WritePulses(f, content)
  BY <1>2, WritePulsesSound
<1>3. CASE \E side \in Sides : h = SelectSide(f, side)
  BY <1>3, SelectSideSound
<1>4. CASE \E direction \in {-1, 1} : h = SeekTrack(f, direction)
  BY <1>4, SeekTrackSound
<1>5. CASE h = StopSpinning(f)
  BY <1>5, StopSpinningSound
<1>6. CASE \E double \in BOOLEAN : h = [f EXCEPT !.double = double]
  BY <1>6, SetDensitySound
<1> QED BY <1>1, <1>2, <1>3, <1>4, <1>5, <1>6 DEF ControllerOutcomes

\* The head moves on within its track, or to its start after a flush.
LEMMA AdvanceHeadSound ==
  ASSUME NEW f, Sound(f), NEW halfByte \in BOOLEAN
  PROVE  Sound(AdvanceHead(f, halfByte))
<1> DEFINE h == AdvanceHead(f, halfByte)
<1>1. f \in Structs /\ HeadIn(f)
  BY DEF Sound
<1>2. f.head \in Nat /\ TrackLength(f) \in Nat \ {0}
  BY <1>1, LengthIsPositive DEF Structs
<1>3. CASE halfByte /\ f.half = 0
  <2>1. h = [f EXCEPT !.half = 1]
    BY <1>3 DEF AdvanceHead
  <2> HIDE DEF h
  <2>2. /\ h \in Structs /\ h.surface = f.surface /\ h.file = f.file
        /\ h.dirty = f.dirty /\ h.adrift = f.adrift /\ h.failed = f.failed /\ h.head = f.head
        /\ h.index = f.index /\ h.side = f.side /\ h.track = f.track
        /\ h.spinning = f.spinning
    BY <1>1, <2>1 DEF Structs
  <2>3. HeadIn(h) /\ Saved(h) /\ Untouched(h) /\ DirtyIsHere(h) /\ h.failed = "no"
    BY <2>2 DEF Sound, HeadIn, TrackLength, Saved, Untouched, DirtyIsHere
  <2>4. Sound(h)
    BY <2>2, <2>3 DEF Sound
  <2> QED BY <2>4 DEF h
<1>4. CASE ~(halfByte /\ f.half = 0) /\ f.head + 1 = TrackLength(f)
  <2> DEFINE c == FlushCurrent(f)
  <2>1. Sound(c) /\ Settled(c)
    BY FlushCleans
  <2>2. h = [c EXCEPT !.half = 0, !.head = 0]
    BY <1>4 DEF AdvanceHead
  <2>3. c \in Structs
    BY <2>1 DEF Sound
  <2> HIDE DEF h, c
  <2>4. /\ h \in Structs /\ h.surface = c.surface /\ h.file = c.file
        /\ h.dirty = c.dirty /\ h.adrift = c.adrift /\ h.failed = c.failed /\ h.head = 0
    BY <2>2, <2>3 DEF Structs
  <2>5. HeadIn(h)
    BY <2>4, LengthIsPositive DEF HeadIn
  <2>6. Sound(h)
    BY <2>1, <2>4, <2>5, SettledMoves
  <2> QED BY <2>6 DEF h
<1>5. CASE ~(halfByte /\ f.half = 0) /\ f.head + 1 # TrackLength(f)
  <2>1. h = [f EXCEPT !.half = 0, !.head = f.head + 1]
    BY <1>5 DEF AdvanceHead
  <2>2. f.head + 1 \in Nat /\ f.head + 1 < TrackLength(f)
    BY <1>1, <1>2, <1>5 DEF HeadIn
  <2> HIDE DEF h
  <2>3. /\ h \in Structs /\ h.surface = f.surface /\ h.file = f.file
        /\ h.dirty = f.dirty /\ h.adrift = f.adrift /\ h.failed = f.failed /\ h.head = f.head + 1
        /\ h.index = f.index /\ h.side = f.side /\ h.track = f.track
        /\ h.spinning = f.spinning
    BY <1>1, <2>1, <2>2 DEF Structs
  <2>4. HeadIn(h)
    BY <2>2, <2>3 DEF HeadIn, TrackLength
  <2>5. Saved(h) /\ Untouched(h) /\ DirtyIsHere(h) /\ h.failed = "no"
    BY <2>3 DEF Sound, Saved, Untouched, DirtyIsHere
  <2>6. Sound(h)
    BY <2>3, <2>4, <2>5 DEF Sound
  <2> QED BY <2>6 DEF h
<1> QED BY <1>3, <1>4, <1>5

-----------------------------------------------------------------------------
(* The theorems. *)

\* A drive as it is made has nothing unwritten.
LEMMA InitSound == Init => Sound(drive)
<1> SUFFICES ASSUME Init PROVE Sound(drive)
  OBVIOUS
<1> DEFINE blank == [d \in Discs |-> [at \in Places |-> Blank]]
<1>1. blank \in [Discs -> [Places -> Data]]
  BY DriveAssumption
<1>2. 1 \in 1..(DiscCount + 1) /\ 0 \in Tracks /\ 0 \in Sides
  BY DriveAssumption DEF Tracks, Sides
<1>3. drive = [index |-> 1, side |-> 0, track |-> 0, head |-> 0, half |-> 0,
               double |-> FALSE, spinning |-> FALSE, surface |-> blank,
               file |-> blank, dirty |-> [d \in Discs |-> NoTrack], adrift |-> {},
               failed |-> "no"]
  BY DEF Init, Places
<1>4. drive \in Structs
  <2>1. [d \in Discs |-> NoTrack] \in [Discs -> Places \cup {NoTrack}]
    OBVIOUS
  <2>2. 0 \in {0, 1} /\ FALSE \in BOOLEAN /\ "no" \in {"no"} /\ 0 \in Nat
    OBVIOUS
  <2> DEFINE clean == [d \in Discs |-> NoTrack]
  <2>3. clean \in [Discs -> Places \cup {NoTrack}]
    BY <2>1
  <2> HIDE DEF blank, clean
  <2>4. drive = [index |-> 1, side |-> 0, track |-> 0, head |-> 0, half |-> 0,
                 double |-> FALSE, spinning |-> FALSE, surface |-> blank,
                 file |-> blank, dirty |-> clean, adrift |-> {}, failed |-> "no"]
    BY <1>3 DEF clean
  <2> QED BY <1>1, <1>2, <2>2, <2>3, <2>4 DEF Structs
<1>5. HeadIn(drive)
  BY <1>3, <1>4, LengthIsPositive DEF HeadIn
<1>6. Saved(drive) /\ Untouched(drive) /\ DirtyIsHere(drive)
  BY <1>3 DEF Saved, Untouched, DirtyIsHere
<1> QED BY <1>3, <1>4, <1>5, <1>6 DEF Sound

\* disc_drive_cycle_disc keeps it: a disc taken out with unwritten changes is adrift.
LEMMA CycleDiscSound ==
  ASSUME Sound(drive), CycleDisc
  PROVE  Sound(drive')
<1> DEFINE next == IF drive.index = DiscCount + 1 THEN 1 ELSE drive.index + 1
<1> DEFINE adrift == drive.adrift \cup TakenOut
<1> DEFINE g == [drive EXCEPT !.index = next, !.adrift = adrift]
<1>1. drive \in Structs /\ HeadIn(drive)
  BY DEF Sound
<1>2. next \in 1..(DiscCount + 1)
  <2>1. drive.index \in 1..(DiscCount + 1)
    BY <1>1 DEF Structs
  <2> QED BY ONLY <2>1, DriveAssumption DEF next
<1>3. /\ g \in Structs /\ g.head = drive.head /\ g.half = drive.half
      /\ g.surface = drive.surface /\ g.file = drive.file
      /\ g.dirty = drive.dirty /\ g.adrift = adrift /\ g.failed = drive.failed
  <2>1. adrift \in SUBSET Discs
    BY <1>1 DEF Structs, TakenOut
  <2> HIDE DEF next, adrift
  <2> QED BY <1>1, <1>2, <2>1 DEF Structs
<1>4. \A d \in Discs : drive.dirty[d] = NoTrack \/ d \in adrift
  BY DEF Sound, DirtyIsHere, TakenOut
<1>5. drive' = Reposition(drive, g)
  BY DEF CycleDisc
<1> HIDE DEF g
<1> DEFINE h == Reposition(drive, g)
<1>6. /\ h \in Structs /\ HeadIn(h)
      /\ h.surface = drive.surface /\ h.file = drive.file
      /\ h.dirty = drive.dirty /\ h.adrift = adrift /\ h.failed = drive.failed
  BY <1>1, <1>3, RepositionKeepsHeadIn
<1>7. Sound(h)
  <2> HIDE DEF h, adrift
  <2> QED BY <1>4, <1>6 DEF Sound, Saved, Untouched, DirtyIsHere
<1> QED BY <1>5, <1>7

\* disc_drive_power_on_reset keeps it, or fails for a disc adrift.
LEMMA PowerOnResetSound ==
  ASSUME Sound(drive), PowerOnReset
  PROVE  Sound(drive') \/ Ended(drive')
<1> DEFINE f == IF drive.spinning THEN StopSpinning(drive) ELSE drive
<1> DEFINE g == [f EXCEPT !.side = 0, !.track = 0, !.head = 0, !.half = 0,
                          !.index = 1]
<1> DEFINE h == LoadAll(g)
<1> DEFINE loaded == [d \in Discs |-> IF Kind[d] = "mutable" THEN g.file[d]
                                      ELSE g.surface[d]]
<1>1. Sound(f) /\ Settled(f)
  <2>1. CASE drive.spinning
    BY <2>1, StopSpinningSound
  <2>2. CASE ~drive.spinning
    BY <2>2 DEF Sound, DirtyIsHere, Settled
  <2> QED BY <2>1, <2>2
<1>2. f \in Structs
  BY <1>1 DEF Sound
<1>3. 1 \in 1..(DiscCount + 1) /\ 0 \in Tracks /\ 0 \in Sides
  BY DriveAssumption DEF Tracks, Sides
<1>4. drive' = h
  BY DEF PowerOnReset
<1>5. /\ g \in Structs /\ g.head = 0 /\ g.surface = f.surface
      /\ g.file = f.file /\ g.dirty = f.dirty /\ g.adrift = f.adrift /\ g.failed = f.failed
  <2> HIDE DEF f
  <2> QED BY <1>2, <1>3 DEF Structs
<1> HIDE DEF f, g
<1>6. HeadIn(g)
  BY <1>5, LengthIsPositive DEF HeadIn
<1>7. Sound(g) /\ Settled(g)
  BY <1>1, <1>5, <1>6, SettledMoves
<1>8. CASE \E d \in Discs : g.dirty[d] # NoTrack
  <2>1. PICK d \in Discs : g.dirty[d] # NoTrack /\ d \in g.adrift
    BY <1>7, <1>8 DEF Settled
  <2>2. h = [g EXCEPT !.failed = "dirty disc is loaded"]
    BY <1>7, <1>8 DEF LoadAll, Abort, Sound
  <2> HIDE DEF h
  <2>3. /\ h \in Structs /\ h.surface = g.surface /\ h.file = g.file
        /\ h.dirty = g.dirty /\ h.adrift = g.adrift /\ h.head = g.head
        /\ h.index = g.index /\ h.side = g.side /\ h.track = g.track
        /\ h.spinning = g.spinning /\ h.failed = "dirty disc is loaded"
    BY <1>5, <2>2 DEF Structs
  <2>4. HeadIn(h) /\ Saved(h) /\ Untouched(h) /\ DirtyIsHere(h)
    BY <1>7, <2>3, FailureKeeps
  <2>5. FailsAdrift(h) /\ h.failed # "no"
    BY <2>1, <2>3 DEF FailsAdrift
  <2> QED BY <1>4, <2>3, <2>4, <2>5 DEF Ended
<1>9. CASE ~\E d \in Discs : g.dirty[d] # NoTrack
  <2>1. h = [g EXCEPT !.surface = loaded]
    BY <1>9 DEF LoadAll
  <2>2. loaded \in [Discs -> [Places -> Data]]
    BY <1>5 DEF Structs
  <2>3. /\ h \in Structs /\ h.surface = loaded /\ h.file = g.file
        /\ h.dirty = g.dirty /\ h.failed = g.failed /\ h.head = 0
    <3> HIDE DEF h, loaded
    <3> QED BY <1>5, <2>1, <2>2 DEF Structs
  <2>4. HeadIn(h)
    <3> HIDE DEF h, loaded
    <3> QED BY <2>3, LengthIsPositive DEF HeadIn
  <2>5. Saved(h)
    <3> HIDE DEF h
    <3> QED BY <2>3 DEF Saved
  <2>6. Untouched(h)
    <3> HIDE DEF h
    <3> QED BY <1>7, <2>3 DEF Sound, Untouched
  <2>7. DirtyIsHere(h) /\ h.failed = "no"
    <3> HIDE DEF h
    <3> QED BY <1>7, <1>9, <2>3 DEF Sound, DirtyIsHere
  <2>8. Sound(h)
    <3> HIDE DEF h
    <3> QED BY <2>3, <2>4, <2>5, <2>6, <2>7 DEF Sound
  <2> QED BY <1>4, <2>8
<1> QED BY <1>8, <1>9

\* disc_drive_start_spinning keeps it.
LEMMA StartSpinningSound ==
  ASSUME Sound(drive), StartSpinning
  PROVE  Sound(drive')
<1>1. Settled(drive) /\ drive \in Structs
  BY DEF Sound, DirtyIsHere, Settled, StartSpinning
<1>2. /\ drive' \in Structs /\ drive'.surface = drive.surface
      /\ drive'.file = drive.file /\ drive'.dirty = drive.dirty
      /\ drive'.adrift = drive.adrift /\ drive'.failed = drive.failed /\ drive'.head = drive.head
      /\ drive'.index = drive.index /\ drive'.side = drive.side
      /\ drive'.track = drive.track
  BY <1>1 DEF StartSpinning, Structs
<1>3. HeadIn(drive')
  BY <1>2 DEF Sound, HeadIn, TrackLength
<1> QED BY <1>1, <1>2, <1>3, SettledMoves

\* One step from a sound drive leads to a sound drive, or ends the program.
LEMMA StepSound ==
  ASSUME Sound(drive), Running
  PROVE  Sound(drive') \/ Ended(drive')
<1>1. CASE Controller
  BY <1>1, ControllerSound DEF Controller
<1>2. CASE StartSpinning
  BY <1>2, StartSpinningSound
<1>3. CASE MoveStoppedHead
  BY <1>3, SelectSideSound, SeekTrackSound DEF MoveStoppedHead
<1>4. CASE WriteStopped
  BY <1>4, WritePulsesSound DEF WriteStopped
<1>5. CASE TimerCallback
  <2>1. PICK f \in ControllerOutcomes(drive) :
          drive' = IF f.failed = "no" THEN AdvanceHead(f, drive.half = 1 \/ drive.double) ELSE f
    BY <1>5 DEF TimerCallback
  <2>2. Sound(f) \/ Ended(f)
    BY <2>1, ControllerSound
  <2>3. (drive.half = 1 \/ drive.double) \in BOOLEAN
    OBVIOUS
  <2>4. CASE Sound(f)
    <3>1. drive' = AdvanceHead(f, drive.half = 1 \/ drive.double)
      BY <2>1, <2>4 DEF Sound
    <3> QED BY <2>3, <2>4, <3>1, AdvanceHeadSound
  <2>5. CASE Ended(f)
    <3>1. drive' = f
      BY <2>1, <2>5 DEF Ended
    <3> QED BY <2>5, <3>1
  <2> QED BY <2>2, <2>4, <2>5
<1>6. CASE CycleDisc
  BY <1>6, CycleDiscSound
<1>7. CASE PowerOnReset
  BY <1>7, PowerOnResetSound
<1> QED BY <1>1, <1>2, <1>3, <1>4, <1>5, <1>6, <1>7 DEF Running

\* The inductive invariant, whatever the controller and the 6502 do and whenever the
\* user swaps discs.
DriveInv == Sound(drive) \/ Ended(drive)

THEOREM AlwaysSound == Spec => []DriveInv
<1>1. Init => DriveInv
  BY InitSound DEF DriveInv
<1>2. DriveInv /\ [Next]_drive => DriveInv'
  <2> SUFFICES ASSUME DriveInv, [Next]_drive PROVE Sound(drive') \/ Ended(drive')
    BY DEF DriveInv
  <2>1. CASE UNCHANGED drive
    BY <2>1 DEF DriveInv
  <2>2. CASE drive.failed = "no" /\ Running
    BY <2>2, StepSound DEF DriveInv, Ended
  <2> QED BY <2>1, <2>2 DEF Next, Aborted
<1> QED BY <1>1, <1>2, PTL DEF Spec

\* No write is lost: whatever is missing from an image is the one dirty track of its
\* disc, also of a disc that was taken out with unwritten changes.  disc_drive.c
\* flushes before every move of the head that is not a swap, and disc_write_pulses
\* does not move the dirty mark from one track to another.
THEOREM WritesAlwaysReachFile == Spec => []WritesReachFile
<1>1. DriveInv => WritesReachFile
  BY DEF DriveInv, Sound, Ended, Saved, WritesReachFile, Places
<1> QED BY <1>1, AlwaysSound, PTL

\* With the motor off every disc is clean but those adrift, and no assertion fails but
\* for them: in disc_load the one has unwritten changes, in disc_write_pulses it is
\* the disc in the drive, with the changes of another track.
THEOREM ChangesAlwaysTended == Spec => []ChangesAreTended
<1>1. Sound(drive) => ChangesAreTended
  BY DEF Sound, DirtyIsHere, ChangesAreTended, StoppedIsClean, WritesStayOnTrack
<1>2. Ended(drive) => ChangesAreTended
  BY DEF Ended, DirtyIsHere, FailsAdrift, ChangesAreTended, StoppedIsClean, WritesStayOnTrack
<1> QED BY <1>1, <1>2, AlwaysSound, PTL DEF DriveInv

\* A write-protected disc is never changed.
THEOREM ProtectedAlwaysUnchanged == Spec => []ProtectedNeverChanges
<1>1. DriveInv => ProtectedNeverChanges
  BY DEF DriveInv, Sound, Ended, Untouched, ProtectedNeverChanges, Places
<1> QED BY <1>1, AlwaysSound, PTL

\* The head is over a byte of its track for tracks of every length.
THEOREM HeadAlwaysOnTrack == Spec => []HeadOnTrack
<1>1. DriveInv => HeadOnTrack
  BY DEF DriveInv, Sound, Ended, HeadIn, HeadOnTrack
<1> QED BY <1>1, AlwaysSound, PTL

\* The struct's fields keep their types.
THEOREM DriveTypesAlwaysOK == Spec => []TypeOK
<1>1. DriveInv => drive \in Structs
  BY DEF DriveInv, Sound, Ended
<1>2. drive \in Structs => TypeOK
  BY DEF Structs, TypeOK, Places
<1> QED BY <1>1, <1>2, AlwaysSound, PTL
=============================================================================
