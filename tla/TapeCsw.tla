------------------------------- MODULE TapeCsw -------------------------------
(***************************************************************************)
(* Tapes recorded as square waves: src/tape_csw.c finds the bits again in    *)
(* the lengths of the half waves. A 0 is one wave of 1200Hz, a 1 two of       *)
(* 2400Hz; the carrier is 2400Hz for any time, so that a byte after it begins *)
(* at any half wave.                                                         *)
(***************************************************************************)
EXTENDS Integers, Sequences

CONSTANTS SampleRate, Recordings, Shapes

NoBit == -1  \* silence
Times(bit, n) == [i \in 1 .. n |-> bit]
RECURSIVE Samples(_)
Samples(waves) == IF waves = <<>> THEN 0 ELSE Head(waves) + Samples(Tail(waves))

-----------------------------------------------------------------------------
(* Which lengths are a bit's, in hundredths of what they should be. Beside a *)
(* carrier's half wave half of a 0 must not pass for the whole.              *)
Share(hundredths, frequency) == ((2 * SampleRate * hundredths) + (100 * frequency)) \div (200 * frequency)
\* A mutant: the same thresholds everywhere.
ThresholdsAlike(mode) == [low |-> Share(75, 1200), high |-> Share(125, 1200)]
Thresholds(mode) ==
  IF mode = "carrier" THEN [low |-> Share(82, 1200), high |-> Share(118, 1200)]
  ELSE [low |-> Share(75, 1200), high |-> Share(125, 1200)]
IsHalf2400(wave) == Share(70, 4800) <= wave /\ wave <= Share(140, 4800)

\* The bit that begins at a half wave, and the half waves it takes.
NextBit(waves, at, mode) ==
  LET t == Thresholds(mode)
      is(n) == /\ at + n - 1 <= Len(waves)
               /\ t.low <= Samples(SubSeq(waves, at, at + n - 1))
               /\ Samples(SubSeq(waves, at, at + n - 1)) <= t.high
  IN  IF is(2) THEN [bit |-> 0, takes |-> 2] ELSE IF is(4) THEN [bit |-> 1, takes |-> 4]
      ELSE [bit |-> NoBit, takes |-> 1]

(* s: the mode, the half wave s.at, how long it has been silent, the carrier *)
(* in half waves, the ones in a row, and the bits found. Ten ones in a row   *)
(* are no byte.                                                              *)
AddBits(s, bit, n) == [s EXCEPT !.bits = @ \o Times(bit, n)]
EndCarrier(s) == AddBits(s, 1, (s.carrier + 3) \div 4)
InSilence(s, next, length) ==
  IF next.bit = 1
  THEN [AddBits(s, NoBit, ((s.ticks * 1200) \div SampleRate) + 1) EXCEPT !.mode = "carrier", !.carrier = 4]
  ELSE [s EXCEPT !.ticks = @ + length]
InCarrier(s, next, wave, length) ==
  CASE next.bit = 0 -> [AddBits(EndCarrier(s), 0, 1) EXCEPT !.mode = "data", !.ones = 0]
    [] next.bit # 0 /\ IsHalf2400(wave) -> [s EXCEPT !.carrier = @ + 1, !.at = @ - next.takes + 1]
    [] OTHER -> [EndCarrier(s) EXCEPT !.mode = "silence", !.ticks = length]
InData(s, next, length) ==
  LET ones == IF next.bit = 1 THEN s.ones + 1 ELSE 0
      more == [AddBits(s, next.bit, 1) EXCEPT !.ones = ones]
  IN  CASE next.bit = NoBit -> [s EXCEPT !.mode = "silence", !.ticks = length]
        [] next.bit # NoBit /\ ones = 10 -> [more EXCEPT !.mode = "carrier", !.carrier = 0]
        [] OTHER -> more
CswStep(s, waves) ==
  LET next   == NextBit(waves, s.at, s.mode)
      length == Samples(SubSeq(waves, s.at, s.at + next.takes - 1))
      t      == [s EXCEPT !.at = @ + next.takes]
  IN  CASE s.mode = "silence" -> InSilence(t, next, length)
        [] s.mode = "carrier" -> InCarrier(t, next, waves[s.at], length)
        [] s.mode = "data" -> InData(t, next, length)
RECURSIVE CswFrom(_, _)
CswFrom(s, waves) == IF s.at > Len(waves) THEN s.bits ELSE CswFrom(CswStep(s, waves), waves)
CswLoad(waves) ==
  CswFrom([mode |-> "silence", at |-> 1, ticks |-> 0, carrier |-> 0, ones |-> 0, bits |-> <<>>], waves)

-----------------------------------------------------------------------------
(* Recordings: silences of so many samples, carriers of so many half waves,  *)
(* and bits, played at a speed and with half waves of unequal lengths.       *)
WavesOf(piece) ==
  CASE piece.kind = "silence" -> <<[length |-> piece.samples, bit |-> NoBit]>>
    [] piece.kind = "carrier" -> Times([length |-> SampleRate \div 4800, bit |-> 1], piece.halves)
    [] piece.kind = "bit" -> IF piece.bit = 0 THEN Times([length |-> SampleRate \div 2400, bit |-> 0], 2)
                             ELSE Times([length |-> SampleRate \div 4800, bit |-> 1], 4)
BitsOf(piece) ==
  CASE piece.kind = "silence" -> Times(NoBit, ((piece.samples * 1200) \div SampleRate) + 1)
    [] piece.kind = "carrier" -> Times(1, (piece.halves + 3) \div 4)
    [] piece.kind = "bit" -> <<piece.bit>>
RECURSIVE AllOf(_, _)
AllOf(Of(_), pieces) == IF pieces = <<>> THEN <<>> ELSE Of(Head(pieces)) \o AllOf(Of, Tail(pieces))
Recorded(recording, shape) ==
  LET waves == AllOf(WavesOf, recording)
  IN  [i \in DOMAIN waves |->
         IF waves[i].bit = NoBit THEN waves[i].length
         ELSE ((waves[i].length * shape.speed) \div 100) + (IF i % 2 = 0 THEN shape.uneven ELSE -shape.uneven)]

\* Whatever the speed and the evenness of the recorder, and wherever the carrier
\* stops, the bits on the tape are those that were recorded.
BitsAreFound == \A recording \in Recordings, shape \in Shapes :
  CswLoad(Recorded(recording, shape)) = AllOf(BitsOf, recording)
=============================================================================
