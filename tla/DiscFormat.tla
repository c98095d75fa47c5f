------------------------------ MODULE DiscFormat ------------------------------
(***************************************************************************)
(* Tracks as flux: how src/disc.c builds one, and how src/disc_tool.c finds  *)
(* and reads the sectors on it (src/ibm_disc_format.c has the codes). A      *)
(* track is a sequence of bits, one for each 2us, 32 to a word. And tracks   *)
(* from captures of real discs: how src/disc_scp.c, src/disc_dfi.c,          *)
(* src/disc_rfi.c and src/disc_kryo.c turn the intervals between pulses that *)
(* a tool has measured into one, with what such a tool writes of a track for *)
(* the checks. An interval is in ticks of the tool.                          *)
(***************************************************************************)
EXTENDS Integers, Sequences, SequencesExt

CONSTANTS
  Unit,        \* the smallest sector; 128
  TrackBytes,  \* words of a track; 3125
  MaxTrackBytes  \* words a track has room for; 3328

Bit(byte, i) == (byte \div 2 ^ (8 - i)) % 2  \* i = 1 is the first on the disc
ByteOf(bits) == bits[1] * 128 + bits[2] * 64 + bits[3] * 32 + bits[4] * 16 + bits[5] * 8 + bits[6] * 4 + bits[7] * 2 + bits[8]

(* FM: a clock and a data pulse in turn, 4us apart. MFM: a clock only        *)
(* between two zeros.                                                        *)
FmPulses(clocks, data) ==
  [i \in 1 .. 32 |-> LET bit == ((i - 1) \div 4) + 1
                     IN  CASE i % 4 = 2 -> Bit(clocks, bit) [] i % 4 = 0 -> Bit(data, bit) [] OTHER -> 0]
MfmPulses(last, byte) ==
  [i \in 1 .. 16 |-> LET bit    == ((i - 1) \div 2) + 1
                         before == IF bit = 1 THEN last ELSE Bit(byte, bit - 1)
                     IN  IF i % 2 = 0 THEN Bit(byte, bit) ELSE IF before = 0 /\ Bit(byte, bit) = 0 THEN 1 ELSE 0]
FmClocks(pulses) == ByteOf([i \in 1 .. 8 |-> pulses[4 * i - 3]])
FmData(pulses) == ByteOf([i \in 1 .. 8 |-> pulses[4 * i - 1]])
FmIffy(pulses) == \E i \in 1 .. 16 : pulses[2 * i] = 1
MfmData(pulses) == ByteOf([i \in 1 .. 8 |-> IF pulses[2 * i - 1] = 0 THEN pulses[2 * i] ELSE 0])

(* CRC-16 of CCITT.                                                          *)
Flip(x, bit) == IF (x \div bit) % 2 = 1 THEN x - bit ELSE x + bit
RECURSIVE CrcBits(_, _, _)
CrcBits(crc, byte, i) ==
  IF i > 8 THEN crc
  ELSE IF crc \div 32768 = Bit(byte, i) THEN CrcBits((2 * crc) % 65536, byte, i + 1)
  ELSE CrcBits(Flip(Flip(Flip((2 * crc) % 65536, 4096), 32), 1), byte, i + 1)
RECURSIVE Crc(_, _)
Crc(crc, bytes) == IF bytes = <<>> THEN crc ELSE Crc(CrcBits(crc, Head(bytes), 1), Tail(bytes))
CrcInit == 65535
CrcBytes(crc) == <<crc \div 256, crc % 256>>

-----------------------------------------------------------------------------
(* Building a track: a builder b has the bits so far, the last bit of data   *)
(* and the CRC.                                                              *)
Mark == [clocks |-> \hC7, id |-> \hFE, data |-> \hFB, deleted |-> \hF8]
BuildTrack == [bits |-> <<>>, last |-> 0, crc |-> CrcInit]
ResetCrc(b) == [b EXCEPT !.crc = CrcInit]
AppendFm(b, data, clocks) ==
  [b EXCEPT !.bits = @ \o FmPulses(clocks, data), !.crc = CrcBits(@, data, 1)]
A1Sync == <<0, 1, 0, 0, 0, 1, 0, 0, 1, 0, 0, 0, 1, 0, 0, 1>>
\* A mutant: the syncs do not count for the CRC.
Append3SyncsUncounted(b) == [b EXCEPT !.bits = @ \o A1Sync \o A1Sync \o A1Sync]
Append3Syncs(b) ==  \* the last bit of data stays what it was before them
  [b EXCEPT !.bits = @ \o A1Sync \o A1Sync \o A1Sync, !.crc = Crc(@, <<\hA1, \hA1, \hA1>>)]

Pulses(mfm, last, bytes) ==
  LET size    == IF mfm THEN 16 ELSE 32
      byte(k) == IF mfm THEN MfmPulses(IF k = 1 THEN last ELSE bytes[k - 1] % 2, bytes[k]) ELSE FmPulses(255, bytes[k])
  IN  [i \in 1 .. size * Len(bytes) |-> byte(((i - 1) \div size) + 1)[((i - 1) % size) + 1]]
Chunk(b, mfm, bytes) ==
  [bits |-> b.bits \o Pulses(mfm, b.last, bytes), crc |-> Crc(b.crc, bytes),
   last |-> IF bytes = <<>> THEN b.last ELSE bytes[Len(bytes)] % 2]
Repeat(b, mfm, byte, n) == Chunk(b, mfm, [i \in 1 .. n |-> byte])
AppendCrc(b, mfm) == Chunk(b, mfm, CrcBytes(b.crc))
AppendMark(b, mfm, mark) ==
  IF mfm THEN Chunk(Append3Syncs(ResetCrc(b)), TRUE, <<mark>>) ELSE AppendFm(ResetCrc(b), mark, Mark.clocks)
Filled(b, mfm, byte) ==  \* the bits of the whole track
  LET n == IF mfm THEN 2 * TrackBytes - (Len(b.bits) \div 16) ELSE TrackBytes - (Len(b.bits) \div 32)
  IN  b.bits \o Pulses(mfm, b.last, [i \in 1 .. n |-> byte])

-----------------------------------------------------------------------------
(* Finding the sectors. A mark ends at a bit: in FM it is a byte with clocks *)
(* missing behind eight zeros, in MFM the byte behind eight zeros and three  *)
(* syncs, wherever a word begins.                                            *)
EightFmZeros == [i \in 1 .. 32 |-> IF i % 4 = 1 THEN 1 ELSE 0]
MfmSync == [i \in 1 .. 16 |-> i % 2] \o A1Sync \o A1Sync \o A1Sync
Ends(bits, i, pattern) ==
  /\ i >= Len(pattern)
  /\ \A k \in 1 .. Len(pattern) : bits[i - Len(pattern) + k] = pattern[k]
Before(bits, i, n) == SubSeq(bits, i - n + 1, i)
FmMark(bits, i) ==
  /\ i >= 64 /\ Ends(bits, i - 32, EightFmZeros)
  /\ ~FmIffy(Before(bits, i, 32)) /\ FmClocks(Before(bits, i, 32)) = Mark.clocks
MfmMark(bits, i) ==
  /\ i > 16 /\ Ends(bits, i - 16, MfmSync)
  /\ \A k \in i - 15 .. i : ~FmMark(bits, k)

MarkAt(bits, i) ==
  IF FmMark(bits, i) THEN [at |-> i, mfm |-> FALSE, byte |-> FmData(Before(bits, i, 32))]
  ELSE [at |-> i, mfm |-> TRUE, byte |-> MfmData(Before(bits, i, 16))]
Marks(bits) ==
  LET ends == { i \in 1 .. Len(bits) : FmMark(bits, i) \/ MfmMark(bits, i) }
      at   == SetToSortSeq(ends, LAMBDA i, j : i < j)
  IN  [k \in 1 .. Len(at) |-> MarkAt(bits, at[k])]

(* A sector begins at an ID mark; the first data mark before the next is its *)
(* data. Positions are bits already passed.                                  *)
RECURSIVE Paired(_)
Paired(marks) ==
  IF marks = <<>> THEN <<>>
  ELSE LET m == marks[Len(marks)]
           s == Paired(SubSeq(marks, 1, Len(marks) - 1))
       IN  CASE m.byte = Mark.id ->
                  Append(s, [mfm |-> m.mfm, header |-> m.at, data |-> 0, deleted |-> FALSE])
             [] m.byte \in {Mark.data, Mark.deleted} /\ s # <<>> /\ s[Len(s)].data = 0 ->
                  [s EXCEPT ![Len(s)].data = m.at, ![Len(s)].deleted = m.byte = Mark.deleted]
             [] OTHER -> s

(* Bytes from a position. Past the end the tool reads one more word, which   *)
(* nothing wrote, before it turns back to the start.                         *)
Flux(bits, i) ==
  LET k == (i - 1) % (Len(bits) + 32) IN IF k < Len(bits) THEN bits[k + 1] ELSE 0
Read(bits, mfm, pos, n) ==
  LET width == IF mfm THEN 16 ELSE 32
  IN  [k \in 1 .. n |-> LET pulses == [j \in 1 .. width |-> Flux(bits, pos + (k - 1) * width + j)]
                        IN  IF mfm THEN MfmData(pulses) ELSE FmData(pulses)]
StartCrc(mfm) == IF mfm THEN Crc(CrcInit, <<\hA1, \hA1, \hA1>>) ELSE CrcInit

(* The size is not told: the distance to the next header gives the largest   *)
(* that fits, the CRC decides between it and its halves.                     *)
SizeClass(bytes) ==
  CASE bytes < 0 -> 16 * Unit  \* unsigned
    [] bytes < 2 * Unit -> Unit
    [] bytes < 4 * Unit -> 2 * Unit
    [] bytes < 8 * Unit -> 4 * Unit
    [] bytes < 16 * Unit -> 8 * Unit
    [] OTHER -> 16 * Unit
DataCrcRight(bits, s, n) ==
  LET mark == IF s.deleted THEN Mark.deleted ELSE Mark.data
      read == Read(bits, s.mfm, s.data, n + 2)
  IN  CrcBytes(Crc(StartCrc(s.mfm), <<mark>> \o SubSeq(read, 1, n))) = SubSeq(read, n + 1, n + 2)
RECURSIVE SizeByCrc(_, _, _)
SizeByCrc(bits, s, n) ==  \* the length, and whether its CRC is right
  IF DataCrcRight(bits, s, n) THEN <<n, TRUE>>
  ELSE IF n \div 2 < Unit THEN <<n, FALSE>> ELSE SizeByCrc(bits, s, n \div 2)

Sector(bits, s, next) ==
  LET width  == IF s.mfm THEN 16 ELSE 32
      header == Read(bits, s.mfm, s.header, 6)
      end    == IF next = 0 THEN Len(bits) \div 32 ELSE next \div width
      size   == IF s.data = 0 THEN <<0, FALSE>> ELSE SizeByCrc(bits, s, SizeClass(end - (s.data \div width) - 5))
  IN  [mfm |-> s.mfm, at |-> s.data, header |-> SubSeq(header, 1, 4), deleted |-> s.deleted,
       header_right |-> CrcBytes(Crc(StartCrc(s.mfm), <<Mark.id>> \o SubSeq(header, 1, 4))) = SubSeq(header, 5, 6),
       data_right |-> size[2], bytes |-> Read(bits, s.mfm, s.data, size[1])]
FindSectors(bits) ==
  LET s == Paired(Marks(bits))
  IN  [k \in 1 .. Len(s) |-> Sector(bits, s[k], IF k < Len(s) THEN s[k + 1].header ELSE 0)]

-----------------------------------------------------------------------------
(* Captures.                                                                 *)

CaptureKinds == {"scp", "dfi", "rfi", "kryo"}
Rate == [scp |-> 80, dfi |-> 50, rfi |-> 100, kryo |-> 48]  \* ticks of a unit
Revolution == 32 * TrackBytes
Ones(bits) == { i \in DOMAIN bits : bits[i] = 1 }

-----------------------------------------------------------------------------
(* Building a track from pulses: each interval is rounded by itself, so that *)
(* what the drive's speed does to one is not passed on to the next.          *)
\* A mutant: cut off instead of rounded.
UnitsDown(quantize, ticks, rate) == IF quantize THEN 2 * (ticks \div (2 * rate)) ELSE ticks \div rate
Units(quantize, ticks, rate) ==
  IF quantize THEN 2 * ((ticks + rate) \div (2 * rate)) ELSE ((2 * ticks) + rate) \div (2 * rate)
RECURSIVE PulsesAt(_, _, _)
PulsesAt(deltas, a, b) ==  \* where the track ends, and the places of the pulses
  IF a > b THEN <<0, {}>>
  ELSE IF a = b THEN <<deltas[a], {deltas[a]}>>
  ELSE LET mid == (a + b) \div 2
           l == PulsesAt(deltas, a, mid)
           r == PulsesAt(deltas, mid + 1, b)
       IN  <<l[1] + r[1], l[2] \cup { l[1] + x : x \in r[2] }>>
SetTrackLength(at, length) ==
  CASE at < 32 -> length [] at \div 32 > MaxTrackBytes -> MaxTrackBytes [] OTHER -> at \div 32
\* What was on the track before stays there.
BuildFromPulses(bits, deltas) ==
  LET built == PulsesAt(deltas, 1, Len(deltas))
      ones  == built[2] \cup Ones(bits)
  IN  [i \in 1 .. 32 * SetTrackLength(built[1], Len(bits) \div 32) |-> IF i \in ones THEN 1 ELSE 0]
RECURSIVE BuildAll(_, _)
BuildAll(bits, revs) == IF revs = <<>> THEN bits ELSE BuildAll(BuildFromPulses(bits, Head(revs)), Tail(revs))

-----------------------------------------------------------------------------
(* The streams. Readers take them token by token: s.got is what there is of  *)
(* the next one, s.pulses the intervals since a revolution began, s.revs the *)
(* revolutions from which the track is built, in turn.                       *)
Start(indexes) ==
  [got |-> <<>>, pulses |-> <<>>, revs |-> <<>>, pos |-> 0, last |-> 0, rev |-> 0, total |-> 0, level |-> FALSE,
   indexes |-> indexes, found |-> <<>>]
Built(s) == [s EXCEPT !.revs = Append(@, s.pulses), !.pulses = <<>>]
Pulse(s, interval) == [s EXCEPT !.pulses = Append(@, interval)]

(* DFI: 127 carries on, the top bit is the index. A revolution begins with   *)
(* what was left of the one before; the first tells how many ticks it takes. *)
DfiByte(s, byte) ==
  CASE byte > 127 -> [Built(s) EXCEPT !.last = @ + (byte % 128), !.total = IF @ = 0 THEN s.pos ELSE @]
    [] byte = 127 -> [s EXCEPT !.last = @ + 127, !.pos = @ + 127]
    [] OTHER -> [Pulse(s, s.last + byte) EXCEPT !.last = 0, !.pos = @ + byte]

(* RFI: lengths of low and high levels in turn, 255 and over in three bytes. *)
(* A pulse is where the level rises. A revolution is built when the time has *)
(* gone past it; the last one never is.                                      *)
RfiRun(f, s, got) ==
  LET pos  == s.pos + (IF got[1] = 255 THEN (got[2] * 256) + got[3] + 255 ELSE got[1])
      past == IF pos \div f.revolution = s.rev THEN s ELSE [Built(s) EXCEPT !.rev = pos \div f.revolution]
      next == [past EXCEPT !.pos = pos, !.level = ~@]
  IN  IF next.level THEN [Pulse(next, pos - s.last) EXCEPT !.last = pos] ELSE next

(* KryoFlux: tokens of several kinds. What is "out of band" does not count   *)
(* in the positions in which the indexes, which come late, are told; so they *)
(* are looked for first. Nothing follows the end, 13 twice.                  *)
KryoLength(got) ==
  CASE got[1] = 13 -> IF Len(got) < 4 THEN (IF got = <<13, 13>> THEN 2 ELSE 4) ELSE 4 + got[3] + (got[4] * 256)
    [] got[1] \in 8 .. 10 -> got[1] - 7
    [] got[1] = 12 -> 3
    [] got[1] \in 0 .. 7 -> 2
    [] OTHER -> 1
KryoToken(s, got) ==
  LET past == IF s.rev < Len(s.indexes) /\ s.pos >= s.indexes[s.rev + 1]
              THEN [(IF s.rev > 0 THEN Built(s) ELSE s) EXCEPT !.rev = @ + 1, !.pulses = <<>>] ELSE s
      next == [past EXCEPT !.pos = @ + Len(got)]
  IN  CASE got[1] = 13 -> IF got[2] = 2 THEN [past EXCEPT !.found = Append(@, got[5] + (got[6] * 256))] ELSE past
        [] got[1] \in 8 .. 10 -> next
        [] got[1] = 12 -> Pulse(next, (got[2] * 256) + got[3])
        [] got[1] \in 0 .. 7 -> Pulse(next, (got[1] * 256) + got[2])
        [] OTHER -> Pulse(next, got[1])

TokenLength(f, got) ==
  CASE f.kind = "rfi" -> IF got[1] = 255 THEN 3 ELSE 1
    [] f.kind = "kryo" -> KryoLength(got)
    [] f.kind = "dfi" -> 1
Feed(f, s, byte) ==
  LET got == Append(s.got, byte)
      t   == [s EXCEPT !.got = <<>>]
  IN  CASE Len(got) < TokenLength(f, got) -> [s EXCEPT !.got = got]
        [] Len(got) = TokenLength(f, got) /\ f.kind = "dfi" -> DfiByte(t, byte)
        [] Len(got) = TokenLength(f, got) /\ f.kind = "rfi" -> RfiRun(f, t, got)
        [] OTHER -> KryoToken(t, got)
RECURSIVE Over(_, _, _, _, _)
Over(f, data, a, b, s) ==
  IF a = b THEN Feed(f, s, data[a])
  ELSE LET mid == (a + b) \div 2
           t   == Over(f, data, a, mid, s)
       IN  IF t.pos >= 0 THEN Over(f, data, mid + 1, b, t) ELSE t  \* so that t comes first
Streamed(f, stream, indexes) == Over(f, stream, 1, Len(stream), Start(indexes))

(* SCP has a sequence for each revolution, of which one is asked for. Sides  *)
(* come in turn, or, with one side only, tracks may follow each other.       *)
PlaceOf(f, i) ==
  CASE f.kind = "scp" -> IF f.sides = 1 /\ f.tracks[1] # <<>> THEN <<0, i>> ELSE <<i % 2, i \div 2>>
    [] f.kind \in {"dfi", "rfi"} -> <<i % f.sides, i \div f.sides>>
    [] f.kind = "kryo" -> <<0, i>>
LoadedRevs(f, stream) ==
  CASE f.kind = "scp" -> <<stream[f.rev]>>
    [] f.kind = "dfi" -> Built(Streamed(f, stream, <<>>)).revs
    [] f.kind = "rfi" -> Streamed(f, stream, <<>>).revs
    [] f.kind = "kryo" -> Streamed(f, stream, Streamed(f, stream, <<>>).found).revs
LoadedTrack(f, stream, empty) ==
  LET revs == LoadedRevs(f, stream)
      total == IF f.kind = "dfi" THEN Streamed(f, f.tracks[0], <<>>).total ELSE 0
      units(interval) ==
        CASE f.kind = "dfi" -> Units(f.quantize, interval * Revolution, total)
          [] f.kind = "kryo" -> Units(f.quantize, 100 * interval, 4805)
          [] OTHER -> Units(f.quantize, interval, Rate[f.kind])
  IN  BuildAll(empty, [r \in DOMAIN revs |-> [k \in DOMAIN revs[r] |-> units(revs[r][k])]])

-----------------------------------------------------------------------------
(* What a tool writes of a track: intervals that are off by up to 0.8us, or  *)
(* nearly 2us when they are going to be quantized to 4us. The stretch before *)
(* the end of the track has no flux.                                         *)
Wobble(quantize, k, rate) == ((k % 3) - 1) * (IF quantize THEN (9 * rate) \div 10 ELSE (2 * rate) \div 5)
Erased(bits) == [i \in DOMAIN bits |-> IF i \in Len(bits) - 39 .. Len(bits) - 8 THEN 0 ELSE bits[i]]
Intervals(bits, quantize, rate) ==
  LET left == Ones(Erased(bits))
      at   == SelectSeq([i \in DOMAIN bits |-> i], LAMBDA i : i \in left)
  IN  [k \in DOMAIN at |-> (rate * (IF k = 1 THEN at[1] ELSE at[k] - at[k - 1])) + Wobble(quantize, k, rate)]
Rest(bits, rate) == rate * (Len(bits) - Max(Ones(Erased(bits))))  \* from the last pulse to the index

RECURSIVE DfiBytes(_)
DfiBytes(ticks) == IF ticks < 127 THEN <<ticks>> ELSE <<127>> \o DfiBytes(ticks - 127)
RfiBytes(ticks) == IF ticks < 255 THEN <<ticks>> ELSE <<255, (ticks - 255) \div 256, (ticks - 255) % 256>>
KryoFlux(ticks) == IF ticks \in 14 .. 255 THEN <<ticks>>
                   ELSE IF ticks < 2048 THEN <<ticks \div 256, ticks % 256>> ELSE <<12, ticks \div 256, ticks % 256>>
KryoIndex(at) == <<13, 2, 12, 0, at % 256, at \div 256, 0, 0, 0, 0, 0, 0, 0, 0, 0, 0>>
High == 10  \* ticks that the level stays high for a pulse

RECURSIVE Joined(_, _, _)
Joined(s, a, b) ==
  IF a > b THEN <<>>
  ELSE IF a = b THEN s[a] ELSE LET mid == (a + b) \div 2 IN Joined(s, a, mid) \o Joined(s, mid + 1, b)
StreamOf(kind, bits, quantize) ==
  LET rate == Rate[kind]
      at   == Intervals(bits, quantize, rate)
      rest == Rest(bits, rate)
      n    == Len(at)
  IN  CASE kind = "scp" -> <<[k \in DOMAIN at |-> at[k] + ((-1) ^ k)], at>>
        [] kind = "dfi" ->
             LET last == DfiBytes(rest)
             IN  Joined([k \in 1 .. n |-> DfiBytes(at[k])], 1, n)
                 \o [last EXCEPT ![Len(last)] = 128 + @]
        [] kind = "rfi" -> RfiBytes(at[1]) \o Joined([k \in 2 .. n |-> RfiBytes(High) \o RfiBytes(at[k] - High)], 2, n)
                           \o RfiBytes(High) \o RfiBytes(rest + rate)
        [] kind = "kryo" ->
             LET before == <<8>> \o KryoFlux(2 * rate) \o <<9, 0>> \o KryoFlux(3000)
                 first  == KryoFlux(at[1] + rest)
                 track  == first \o Joined([k \in 2 .. n |-> KryoFlux(at[k])], 2, n)
             IN  before \o first \o KryoIndex(Len(before)) \o SubSeq(track, Len(first) + 1, Len(track))
                 \o KryoFlux(rate * 2) \o KryoIndex(Len(before) + Len(track))
                 \o <<10, 0, 0>> \o KryoFlux(rate * 2) \o <<13, 13>>
=============================================================================
