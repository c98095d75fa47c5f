------------------------------ MODULE DiscImages ------------------------------
(***************************************************************************)
(* Disc images: the files of src/disc_ssd.c (SSD, DSD), src/disc_adl.c and   *)
(* src/disc_hfe.c, loaded as flux and written back track by track, and the   *)
(* conversions and writes of src/disc.c and src/disc_tool.c.                 *)
(***************************************************************************)
EXTENDS DiscFormat

CONSTANTS
  SsdSectors, AdlSectors,  \* of a track; 10 and 16
  ImageTracks,             \* of an SSD, DSD or ADL; 80
  DiscTracks,              \* of a disc; 84
  Block,                   \* bytes of one side in an HFE's block; 256
  Contents, Files,         \* what a sector, and the sectors of a file, may hold
  Images,                  \* an image and what it is converted to, in turn
  MaxSteps                 \* bound: writes and formats

SectorSize == 2 * Unit
Sides == {0, 1}
Places == Sides \X (0 .. DiscTracks - 1)
SectorKinds == {"ssd", "dsd", "adl"}
Kinds == SectorKinds \cup {"hfe1", "hfe3"}
IsMfm(kind) == kind = "adl"
NoData == [i \in 1 .. SectorSize |-> 0]
Unformatted == [i \in 1 .. 32 * TrackBytes |-> 0]

VARIABLES disc, file, dirty, want, steps
imageVars == <<disc, file, dirty, want, steps>>

-----------------------------------------------------------------------------
(* A track as these images and the controllers format it. The gaps are one   *)
(* byte each; data is the contents of its sectors.                           *)
RECURSIVE Sectors(_, _, _, _, _)
Sectors(b, mfm, track, data, k) ==
  IF k = Len(data) THEN b
  ELSE LET gap     == IF mfm THEN \h4E ELSE 255
           synced  == IF mfm THEN Repeat(b, mfm, 0, 1) ELSE b
           header  == AppendCrc(Chunk(AppendMark(synced, mfm, Mark.id), mfm, <<track, 0, k, 1>>), mfm)
           gap2    == Repeat(Repeat(header, mfm, gap, 1), mfm, 0, 1)
           sector  == AppendCrc(Chunk(AppendMark(gap2, mfm, Mark.data), mfm, data[k + 1]), mfm)
           gap3    == IF mfm THEN Repeat(sector, mfm, gap, 1)
                      ELSE IF k < Len(data) - 1 THEN Repeat(Repeat(sector, mfm, gap, 1), mfm, 0, 1) ELSE sector
       IN  Sectors(gap3, mfm, track, data, k + 1)
TrackOf(mfm, track, data) ==
  LET gap   == IF mfm THEN \h4E ELSE 255
      start == Repeat(BuildTrack, mfm, gap, 1)
      gap1  == IF mfm THEN start ELSE Repeat(start, mfm, 0, 1)
  IN  Filled(Sectors(gap1, mfm, track, data, 0), mfm, gap)

-----------------------------------------------------------------------------
(* SSD, DSD and ADL: sectors one after the other, sides alternating.         *)
PerTrack(kind) == IF kind = "adl" THEN AdlSectors ELSE SsdSectors
TwoSided(kind) == kind \in {"dsd", "adl"}
\* A mutant: the sides follow each other.
PositionBySide(kind, double, side, track, id) ==
  (track + (side * ImageTracks)) * PerTrack(kind) + id
Position(kind, double, side, track, id) ==
  ((track * (IF double THEN 2 ELSE 1)) + side) * PerTrack(kind) + id
InFile(f, pos) == IF pos \in DOMAIN f.sectors THEN f.sectors[pos] ELSE NoData

SectorFlux(f) ==
  [p \in Places |->
     IF p[2] < ImageTracks /\ (p[1] = 1 => TwoSided(f.kind))
     THEN TrackOf(IsMfm(f.kind), p[2],
                  [k \in 1 .. PerTrack(f.kind) |-> InFile(f, Position(f.kind, TwoSided(f.kind), p[1], p[2], k - 1))])
     ELSE Unformatted]
(* A track's sectors that the file has a place for. An SSD written on its    *)
(* upper side goes where the next track is.                                  *)
RECURSIVE PutSectors(_, _, _, _, _)
PutSectors(f, found, double, side, track) ==
  IF found = <<>> THEN f
  ELSE LET s  == Head(found)
           ok == /\ IsMfm(f.kind) => s.mfm
                 /\ s.header[1] = track /\ s.header[3] < PerTrack(f.kind)
                 /\ Len(s.bytes) = SectorSize
           at == Position(f.kind, double, side, track, s.header[3])
       IN  PutSectors(IF ok THEN [f EXCEPT !.sectors = (at :> s.bytes) @@ @] ELSE f, Tail(found), double, side, track)

-----------------------------------------------------------------------------
(* HFE: a header, a table of offsets and lengths, and the flux of both sides *)
(* in alternate blocks, eight bits to a byte, the first the lowest. Version  *)
(* 3 has opcodes in it. Positions are in bytes; what was not written is 0.   *)
RECURSIVE HfeByte(_)
HfeByte(bits) == IF bits = <<>> THEN 0 ELSE Head(bits) + 2 * HfeByte(Tail(bits))
HfeBits(byte) == [i \in 1 .. 8 |-> (byte \div 2 ^ (i - 1)) % 2]
Flipped(opcode) == HfeByte([i \in 1 .. 8 |-> Bit(opcode, i)])
Opcode == [nop |-> \hF0, setindex |-> \hF1, setbitrate |-> \hF2, skipbits |-> \hF3, rand |-> \hF4]
IsOpcode(byte) == byte % 16 = 15

ByteAt(f, pos) == IF pos \in DOMAIN f.bytes THEN f.bytes[pos] ELSE 0
PutBytes(f, bytes) == [f EXCEPT !.bytes = bytes @@ @]

Blocks(n) == (n + 2 * Block - 1) \div (2 * Block)
ZeroTrack(f, track) ==
  LET start == f.table[track].offset
  IN  PutBytes(f, [p \in start .. start + (Blocks(f.table[track].length) * 2 * Block) - 1 |-> 0])
RECURSIVE ZeroTracks(_, _)
ZeroTracks(f, n) == IF n = 0 THEN f ELSE ZeroTracks(ZeroTrack(f, n - 1), n - 1)
CreateHeader(d) ==
  LET length == ((TrackBytes * 4) + 3) * 2
      delta  == (length \div (2 * Block)) + 1
      table  == [t \in 0 .. DiscTracks - 1 |->
                   IF t < d.used THEN [offset |-> (2 + (t * delta)) * 2 * Block, length |-> length]
                   ELSE [offset |-> 0, length |-> 0]]
  IN  ZeroTracks([kind |-> "hfe3", tracks |-> d.used, sides |-> IF d.double THEN 2 ELSE 1,
                  table |-> table, bytes |-> <<>>], d.used)

WordBytes(f, bits) ==
  LET bytes == [i \in 1 .. 4 |-> HfeByte(SubSeq(bits, 8 * i - 7, 8 * i))]
  IN  IF f.kind = "hfe1" THEN bytes
      ELSE IF \A i \in 1 .. 4 : bytes[i] = 0 THEN [i \in 1 .. 4 |-> Flipped(Opcode.rand)]
      ELSE [i \in 1 .. 4 |-> IF IsOpcode(bytes[i]) THEN Flipped(Opcode.rand) ELSE bytes[i]]
Encoded(f, bits) ==
  LET words == [w \in 1 .. Len(bits) \div 32 |-> WordBytes(f, SubSeq(bits, 32 * w - 31, 32 * w))]
  IN  [i \in 1 .. Len(bits) \div 8 |-> words[((i - 1) \div 4) + 1][((i - 1) % 4) + 1]]
HfeStream(f, bits) ==
  (IF f.kind = "hfe3" THEN <<Flipped(Opcode.setindex), Flipped(Opcode.setbitrate), Flipped(72)>> ELSE <<>>) \o Encoded(f, bits)
PutBlocks(f, start, length, pos, stream) ==  \* until the stream or the track's room ends
  LET blocks == { j \in 0 .. Len(stream) : j * Block < Len(stream) /\ pos + 2 * Block * j < length }
      from   == start + pos
      byte(k) == IF k < Len(stream) THEN stream[k + 1] ELSE 0
  IN  PutBytes(f, [p \in { from + 2 * Block * j + i : j \in blocks, i \in 0 .. Block - 1 } |->
                     byte((((p - from) \div (2 * Block)) * Block) + ((p - from) % Block))])
\* A mutant: the upper side starts where the lower side does.
PutFluxOver(f, used, side, track, bits) ==
  LET entry == f.table[track]
      grown == IF track >= used THEN ZeroTrack([f EXCEPT !.tracks = track + 1], track) ELSE f
  IN  IF entry.offset < 4 * Block THEN f
      ELSE PutBlocks(grown, entry.offset, entry.length, 0, HfeStream(f, bits))
PutFlux(f, used, side, track, bits) ==
  LET entry == f.table[track]
      grown == IF track >= used THEN ZeroTrack([f EXCEPT !.tracks = track + 1], track) ELSE f
  IN  IF entry.offset < 4 * Block THEN f  \* not allocated: the write is ignored
      ELSE PutBlocks(grown, entry.offset, entry.length, side * Block, HfeStream(f, bits))

(* Reading a stream, up to the next opcode that is not flux and on from it.  *)
Code(byte) == ByteOf(HfeBits(byte))
RECURSIVE Decoded(_, _)
Decoded(v3, bytes) ==
  LET opcodes == { k \in 1 .. Len(bytes) :
                     v3 /\ Code(bytes[k]) \in {Opcode.nop, Opcode.setindex, Opcode.setbitrate, Opcode.skipbits} }
      n       == IF opcodes = {} THEN Len(bytes) + 1 ELSE Min(opcodes)
      bits(k) == IF v3 /\ Code(bytes[k]) = Opcode.rand THEN HfeBits(0) ELSE HfeBits(bytes[k])
      plain   == [i \in 1 .. 8 * (n - 1) |-> bits(((i - 1) \div 8) + 1)[((i - 1) % 8) + 1]]
      from(k) == Decoded(v3, SubSeq(bytes, k, Len(bytes)))
  IN  CASE opcodes = {} -> plain
        [] opcodes # {} /\ Code(bytes[n]) = Opcode.setbitrate -> plain \o from(n + 2)
        [] opcodes # {} /\ Code(bytes[n]) = Opcode.skipbits ->
             plain \o SubSeq(HfeBits(bytes[n + 2]), 9 - Code(bytes[n + 1]), 8) \o from(n + 3)
        [] OTHER -> plain \o from(n + 1)
HfeFlux(f) ==
  [p \in Places |->
     IF p[2] < f.tracks /\ p[1] < f.sides
     THEN LET entry == f.table[p[2]]
              byte(i) == ByteAt(f, entry.offset + ((i \div Block) * 2 * Block) + (p[1] * Block) + (i % Block))
              bits == Decoded(f.kind = "hfe3", [i \in 1 .. entry.length \div 2 |-> byte(i - 1)])
          IN  SubSeq(bits, 1, Len(bits) - (Len(bits) % 32))
     ELSE Unformatted]

-----------------------------------------------------------------------------
(* Captures, which are only read; what a tool writes, and what is loaded.    *)
Tools == CaptureKinds \cup {"dense"}
Captured(tool, d) ==  \* "dense" is an SCP whose tracks follow each other
  LET kind   == IF tool = "dense" THEN "scp" ELSE tool
      sides  == IF d.double /\ kind # "kryo" THEN 2 ELSE 1
      step   == IF tool = "scp" THEN 2 ELSE sides
      stream(side, track) ==
        IF side < sides THEN StreamOf(kind, d.flux[<<side, track>>], kind = "rfi") ELSE <<>>
  IN  [kind |-> kind, sides |-> sides, quantize |-> kind = "rfi", revolution |-> Rate[kind] * Revolution, rev |-> 2,
       tracks |-> [i \in 0 .. (step * d.used) - 1 |-> stream(i % step, i \div step)]]
LoadCapture(f) ==
  LET there    == { i \in DOMAIN f.tracks : f.tracks[i] # <<>> }
      place    == [i \in there |-> PlaceOf(f, i)]
      loaded   == [i \in there |-> LoadedTrack(f, f.tracks[i], Unformatted)]
      at(p)    == CHOOSE i \in there : place[i] = p
  IN  [flux |-> [p \in Places |-> IF p \in { place[i] : i \in there } THEN loaded[at(p)] ELSE Unformatted],
       used |-> 1 + Max({ place[i][2] : i \in there }), double |-> \E i \in there : place[i][1] = 1]

-----------------------------------------------------------------------------
(* The disc: its flux, the tracks used and whether the upper side is.        *)
Load(f) ==
  CASE f.kind \in SectorKinds -> [flux |-> SectorFlux(f), used |-> ImageTracks, double |-> TwoSided(f.kind)]
    [] f.kind \in CaptureKinds -> LoadCapture(f)
    [] OTHER -> [flux |-> HfeFlux(f), used |-> f.tracks, double |-> f.sides = 2 /\ f.tracks > 0]
SetTrackUsed(d, side, track) ==
  [d EXCEPT !.double = @ \/ side = 1, !.used = IF track + 1 > @ THEN track + 1 ELSE @]
WriteTrack(f, d, side, track) ==
  IF f.kind \in SectorKinds
  THEN PutSectors(f, FindSectors(d.flux[<<side, track>>]), d.double, side, track)
  ELSE PutFlux(f, d.used, side, track, d.flux[<<side, track>>])

(* Conversion: every used track is written to the new file.                  *)
RECURSIVE WriteAll(_, _, _)
WriteAll(f, d, n) ==
  IF n = d.used THEN f
  ELSE LET lower == WriteTrack(f, d, 0, n)
       IN  WriteAll(IF d.double THEN WriteTrack(lower, d, 1, n) ELSE lower, d, n + 1)
EmptyImage(kind, d) ==
  IF kind = "hfe3" THEN CreateHeader(d)
  ELSE [kind |-> IF kind = "adl" THEN "adl" ELSE IF d.double THEN "dsd" ELSE "ssd", sectors |-> <<>>]
Converted(d, kind) == WriteAll(EmptyImage(kind, d), d, 0)

-----------------------------------------------------------------------------
(* Discs in use: sectors are written and tracks formatted by a controller,   *)
(* flushed by the drive, and the image is loaded again. want is what should  *)
(* be on the disc.                                                           *)
Wanted(f) ==
  [p \in Places |-> IF p[2] < ImageTracks /\ (p[1] = 1 => TwoSided(f.kind))
                    THEN [k \in 1 .. PerTrack(f.kind) |-> InFile(f, Position(f.kind, TwoSided(f.kind), p[1], p[2], k - 1))]
                    ELSE <<>>]
(* An HFE of another tool: version 1, with room for more tracks than it uses.*)
Foreign(d) ==
  LET length == TrackBytes * 4 * 2
      delta  == Blocks(length)
      f      == [kind |-> "hfe1", tracks |-> d.used, sides |-> 2, bytes |-> <<>>,
                 table |-> [t \in 0 .. DiscTracks - 1 |-> [offset |-> (2 + (t * delta)) * 2 * Block, length |-> length]]]
  IN  WriteAll(f, [d EXCEPT !.double = TRUE], 0)
RECURSIVE Through(_, _)
Through(f, kinds) ==
  IF kinds = <<>> THEN f
  ELSE LET d == Load(f)
           next == CASE Head(kinds) = "hfe1" -> Foreign(d)
                     [] Head(kinds) \in Tools -> Captured(Head(kinds), d)
                     [] OTHER -> Converted(d, Head(kinds))
       IN  Through(next, Tail(kinds))
InitImages ==
  \E kinds \in Images, sectors \in Files :
    LET f == [kind |-> Head(kinds), sectors |-> sectors]
    IN  want = Wanted(f) /\ file = Through(f, Tail(kinds)) /\ disc = Load(file) /\ dirty = <<>>
        /\ steps = IF \E k \in DOMAIN kinds : kinds[k] \in Tools THEN MaxSteps ELSE 0

Overlay(bits, pos, new) ==
  [i \in 1 .. Len(bits) |-> IF i \in pos + 1 .. pos + Len(new) THEN new[i - pos] ELSE bits[i]]
(* A sector is written from its data mark on; words are written whole.       *)
SectorFluxOf(s, bytes) ==
  IF s.mfm
  THEN AppendCrc(Chunk([bits |-> <<>>, last |-> 1, crc |-> Crc(StartCrc(TRUE), <<Mark.data>>)], TRUE, bytes), TRUE).bits
  ELSE AppendCrc(Chunk(AppendMark(BuildTrack, FALSE, Mark.data), FALSE, bytes), FALSE).bits
SectorAt(s) == IF s.mfm THEN s.at ELSE s.at - 33
CanTouch(p) == steps < MaxSteps /\ dirty \in {<<>>, p}
WriteSector ==
  \E p \in Places :
    LET found == FindSectors(disc.flux[p])
    IN  /\ CanTouch(p)
        /\ \E k \in 1 .. Len(found), bytes \in Contents :
             /\ disc' = [disc EXCEPT !.flux[p] = Overlay(@, SectorAt(found[k]), SectorFluxOf(found[k], bytes))]
             /\ want' = [want EXCEPT ![p][k] = bytes]
        /\ dirty' = p /\ steps' = steps + 1 /\ UNCHANGED file
Holds(p) ==  \* the image has a place for the track
  IF file.kind \in SectorKinds THEN p[2] < ImageTracks /\ (p[1] = 1 => TwoSided(file.kind))
  ELSE p[1] < file.sides /\ file.table[p[2]].offset > 0
FormatTrack ==
  \E p \in Places, mfm \in BOOLEAN :
    /\ CanTouch(p)
    /\ file.kind \in SectorKinds => mfm = IsMfm(file.kind)
    /\ Holds(p)
    /\ LET data == [k \in 1 .. SsdSectors |-> NoData]
       IN  /\ disc' = [disc EXCEPT !.flux[p] = Overlay(@, 0, TrackOf(mfm, p[2], data))]
           /\ want' = [want EXCEPT ![p] = data]
    /\ dirty' = p /\ steps' = steps + 1 /\ UNCHANGED file
FlushWrites ==
  /\ dirty # <<>>
  /\ file' = WriteTrack(file, disc, dirty[1], dirty[2])
  /\ disc' = SetTrackUsed(disc, dirty[1], dirty[2])
  /\ dirty' = <<>> /\ UNCHANGED <<want, steps>>
LoadAgain ==
  /\ dirty = <<>> /\ steps > 0 /\ disc' = Load(file) /\ UNCHANGED <<file, dirty, want, steps>>
NextImages == WriteSector \/ FormatTrack \/ FlushWrites \/ LoadAgain

-----------------------------------------------------------------------------
(* The disc holds what was written: on every track the scan finds the        *)
(* sectors in order, with right CRCs and the last contents written, whatever *)
(* the image, the encoding and the conversions they went through             *)
(* (disc_tool_find_sectors, disc_tool_read_sector).                          *)
HoldsAsWritten(d, p) ==
  LET found == FindSectors(d.flux[p])
  IN  /\ Len(found) = Len(want[p])
      /\ \A k \in 1 .. Len(found) :
           /\ found[k].header = <<p[2], 0, k - 1, 1>> /\ found[k].header_right
           /\ found[k].bytes = want[p][k] /\ found[k].data_right
DiscHoldsWhatIsWritten == \A p \in Places : HoldsAsWritten(disc, p)

(* Once the dirty track is flushed, the file holds it too: a disc loaded     *)
(* from it is the same (the write_track callbacks and the loaders).          *)
ImageIsTheDisc ==
  dirty = <<>> => LET again == Load(file)
                  IN  \A p \in Places : again.flux[p] = disc.flux[p] \/ HoldsAsWritten(again, p)
=============================================================================
