------------------------------- MODULE Render -------------------------------
(***************************************************************************)
(* src/render.c: the beam of the monitor, the canvas it draws on and the      *)
(* tables of pixels it draws from, and the teletext chip it feeds. The CRTC   *)
(* (src/video.c) moves the beam a character at a time; between its advances   *)
(* the machine changes modes, colours and registers.  Positions are in pixels.*)
(*                                                                         *)
(* The SAA5050 of src/teletext.c: a byte every microsecond, three of them    *)
(* and the display enable in a pipeline, and the attributes that the control *)
(* codes of a line set.  What a line shows is defined again from the line    *)
(* alone (Cell); the two must agree.                                         *)
(***************************************************************************)
EXTENDS Integers, Sequences, FiniteSets, TLC

CONSTANTS
  RowLines,              \* scanlines of a row of characters; 10
  FlashFrames, FlashOff, \* 48 frames, for 16 of which flashing text is off
  Plans,                 \* what a behaviour starts with and may do, see Init
  MaxChanges             \* bound: changes of modes and colours

VARIABLES
  plan,
  render,    \* the renderer
  chip,      \* the SAA5050
  prepared,  \* render_prepare was called since the last change
  text,      \* of a plan that shows text: the character, line and frame
  changes,   \* so far
  drawn      \* ghost: the last character, and where it went
vars == <<plan, render, chip, prepared, text, changes, drawn>>

-----------------------------------------------------------------------------
(* The SAA5050.                                                              *)
White == 7
Black == 0
Space == <<"alpha", 32>>  \* the set a character is taken from, and its code

Attributes ==
  [graphics |-> FALSE, separated |-> FALSE, double |-> FALSE, flash |-> FALSE,
   fg |-> White, bg |-> Black, hold |-> FALSE, held |-> Space]
ScanlineEnded(t) ==
  LET last == t.scanline + 1 = RowLines
  IN  (Attributes @@
       [scanline |-> IF last THEN 0 ELSE t.scanline + 1,
        second |-> IF last THEN ~t.second /\ t.hadDouble ELSE t.second,
        hadDouble |-> FALSE]) @@ t
NewFrameStarted(t) ==
  LET count == (t.flashCount + 1) % FlashFrames
  IN  [t EXCEPT !.scanline = 0, !.second = FALSE, !.flashCount = count, !.flashVisible = count >= FlashOff]
\* The ink is taken from a palette that teletext_create only then fills: it is black
\* until a scanline has ended.
Create ==
  NewFrameStarted([ScanlineEnded(
    Attributes @@ [scanline |-> 0, second |-> FALSE, hadDouble |-> FALSE, flashCount |-> 0,
     flashVisible |-> FALSE, data |-> <<0, 0, 0>>, dispen |-> <<FALSE, FALSE>>, incoming |-> FALSE,
     current |-> FALSE, char |-> Space, renderFg |-> Black, ra0 |-> FALSE, isv |-> FALSE]) EXCEPT !.fg = Black])

ActiveSet(t) == IF ~t.graphics THEN "alpha" ELSE IF t.separated THEN "separated" ELSE "mosaic"
Control(t, code) ==
  CASE code \in 1 .. 7 -> [t EXCEPT !.graphics = FALSE, !.fg = code]
    [] code = 8 -> [t EXCEPT !.flash = TRUE]
    [] code = 9 -> [t EXCEPT !.flash = FALSE]
    [] code = 12 -> [t EXCEPT !.double = FALSE]
    [] code = 13 -> [t EXCEPT !.double = TRUE, !.hadDouble = TRUE]
    [] code \in 17 .. 23 -> [t EXCEPT !.graphics = TRUE, !.fg = code - 16]
    [] code = 24 -> [t EXCEPT !.fg = t.bg, !.renderFg = t.bg]
    [] code = 25 -> [t EXCEPT !.separated = FALSE]
    [] code = 26 -> [t EXCEPT !.separated = TRUE]
    [] code = 28 -> [t EXCEPT !.bg = Black]
    [] code = 29 -> [t EXCEPT !.bg = t.fg]
    [] code = 30 -> [t EXCEPT !.hold = TRUE]
    [] code = 31 -> [t EXCEPT !.hold = FALSE]
    [] OTHER -> t
InMosaic(code) == (code \div 32) % 2 = 1
DoDataByte(old, data) ==
  LET t == [old EXCEPT !.renderFg = old.fg]
      byte == data % 128
      c == Control(t, byte)
      char == <<ActiveSet(t), byte>>
  IN  IF byte >= 32
      THEN [t EXCEPT !.char = char,
                     !.held = IF ~t.graphics THEN Space ELSE IF InMosaic(byte) THEN char ELSE @]
      ELSE IF t.graphics /\ (t.hold \/ c.hold) /\ c.double = t.double
           THEN [c EXCEPT !.char = t.held]
           ELSE [c EXCEPT !.char = Space, !.held = Space]
\* A mutant: the display enable is a stage early.
DataEarly(t, byte) ==
  LET shown == t.dispen[2]
      fed   == IF shown THEN DoDataByte(t, t.data[1]) ELSE t
      ended == IF ~shown /\ t.current THEN ScanlineEnded(fed) ELSE fed
  IN  [ended EXCEPT !.data = <<t.data[2], t.data[3], byte>>, !.current = shown,
                    !.dispen = <<t.dispen[2], t.incoming>>]
Data(t, byte) ==
  LET shown == t.dispen[1]
      fed   == IF shown THEN DoDataByte(t, t.data[1]) ELSE t
      ended == IF ~shown /\ t.current THEN ScanlineEnded(fed) ELSE fed
  IN  [ended EXCEPT !.data = <<t.data[2], t.data[3], byte>>, !.current = shown,
                    !.dispen = <<t.dispen[2], t.incoming>>]

RaIsvChanged(t, ra, isv) == [t EXCEPT !.ra0 = ra % 2 = 1, !.isv = isv]
DispenChanged(t, enabled) == [t EXCEPT !.incoming = enabled]
VsyncChanged(t) == NewFrameStarted(t)

\* teletext_render: what a cell shows, and the lines of its glyph (of 20) on the
\* one or two lines of the picture.
Hidden(t) == (t.flash /\ ~t.flashVisible) \/ (t.second /\ ~t.double)
GlyphLine(t) == IF ~t.double THEN t.scanline * 2 ELSE t.scanline + (IF t.second THEN RowLines ELSE 0)
Rounded(t, oneLine) == t.ra0 /\ ~t.double /\ (~t.isv \/ oneLine)
Shown(t, oneLine) ==
  LET line == GlyphLine(t) + (IF Rounded(t, oneLine) THEN 1 ELSE 0)
  IN  [char |-> IF Hidden(t) THEN Space ELSE t.char, fg |-> t.renderFg, bg |-> t.bg,
       lines |-> IF oneLine THEN <<line>> ELSE <<line, IF t.isv /\ ~t.double THEN line + 1 ELSE line>>]

-----------------------------------------------------------------------------
(* A line read as text. Colours and character sets count from the column     *)
(* behind their code, concealment, backgrounds, heights and flash from the   *)
(* column itself; graphics are held over codes that do not change the height.*)
(* It starts in the ink start.                                               *)
LastOf(line, k, codes) ==
  LET at == { j \in 1 .. k : line[j] \in codes } IN IF at = {} THEN 0 ELSE CHOOSE j \in at : \A i \in at : i <= j
LastIs(line, k, on, off) == LET j == LastOf(line, k, {on, off}) IN j > 0 /\ line[j] = on
Graphics(line, k) == LET j == LastOf(line, k - 1, (1 .. 7) \cup (17 .. 23)) IN j > 0 /\ line[j] > 16
SetAt(line, k) == IF ~Graphics(line, k) THEN "alpha" ELSE IF LastIs(line, k - 1, 26, 25) THEN "separated" ELSE "mosaic"
RECURSIVE Ink(_, _, _), Paper(_, _, _), HeldAt(_, _)
Ink(line, k, start) ==  \* behind column k
  LET j == LastOf(line, k, (1 .. 7) \cup (17 .. 23) \cup {24})
  IN  IF j = 0 THEN start ELSE IF line[j] = 24 THEN Paper(line, j, start) ELSE line[j] % 16
Paper(line, k, start) ==
  LET j == LastOf(line, k, {28, 29}) IN IF j = 0 \/ line[j] = 28 THEN Black ELSE Ink(line, j - 1, start)
Holding(line, k) ==
  /\ Graphics(line, k) /\ (LastIs(line, k - 1, 30, 31) \/ LastIs(line, k, 30, 31))
  /\ LastIs(line, k - 1, 13, 12) = LastIs(line, k, 13, 12)
HeldAt(line, k) ==
  IF k = 1 THEN Space
  ELSE IF line[k - 1] >= 32
       THEN IF ~Graphics(line, k - 1) THEN Space
            ELSE IF InMosaic(line[k - 1]) THEN <<SetAt(line, k - 1), line[k - 1]>> ELSE HeldAt(line, k - 1)
       ELSE IF Holding(line, k - 1) THEN HeldAt(line, k - 1) ELSE Space
Cell(line, k, start, lower, visible) ==
  [char |-> CASE LastIs(line, k, 8, 9) /\ ~visible -> Space
              [] lower /\ ~LastIs(line, k, 13, 12) -> Space
              [] line[k] >= 32 -> <<SetAt(line, k), line[k]>>
              [] line[k] < 32 /\ Holding(line, k) -> HeldAt(line, k)
              [] OTHER -> Space,
   fg |-> IF line[k] = 24 THEN Paper(line, k, start) ELSE Ink(line, k - 1, start),
   bg |-> Paper(line, k, start)]

-----------------------------------------------------------------------------
(* The glyphs: 6 by 10 pixels are doubled, their diagonals smoothed, and     *)
(* stretched to 16 by 20 shades.                                             *)
Doubled(g) == [p \in (0 .. 11) \X (0 .. 19) |-> g[<<p[1] \div 2, p[2] \div 2>>]]
\* A mutant: one diagonal is forgotten.
SmoothedOneWay(g) ==
  [p \in DOMAIN g |->
     IF /\ p[1] \in 1 .. 10 /\ p[2] \in 1 .. 18
        /\ \E dx \in {-1}, dy \in {-1, 1} :
             /\ g[<<p[1] + dx, p[2]>>] = 1 /\ g[<<p[1], p[2] + dy>>] = 1
             /\ g[<<p[1] + dx, p[2] + dy>>] = 0
     THEN 1 ELSE g[p]]
Smoothed(g) ==
  [p \in DOMAIN g |->
     IF /\ p[1] \in 1 .. 10 /\ p[2] \in 1 .. 18
        /\ \E dx \in {-1, 1}, dy \in {-1, 1} :
             /\ g[<<p[1] + dx, p[2]>>] = 1 /\ g[<<p[1], p[2] + dy>>] = 1
             /\ g[<<p[1] + dx, p[2] + dy>>] = 0
     THEN 1 ELSE g[p]]
Stretched(g) ==
  [p \in (0 .. 15) \X (0 .. 19) |->
     LET at(i) == g[<<(3 * (p[1] \div 4)) + i, p[2]>>]
     IN  CASE p[1] % 4 = 0 -> 255 * at(0)
           [] p[1] % 4 = 1 -> 85 * at(0) + 170 * at(1)
           [] p[1] % 4 = 2 -> 170 * at(1) + 85 * at(2)
           [] OTHER -> 255 * at(2)]
Block(k, separated) ==  \* bit k of a mosaic: the pixels it lights
  LET gap == IF separated THEN 1 ELSE 0
      top == <<0, 3, 7>>[(k \div 2) + 1]
      end == <<3, 7, 10>>[(k \div 2) + 1]
  IN  ((3 * (k % 2)) + gap .. (3 * (k % 2)) + 2) \X (top .. end - 1 - gap)
Mosaic(bits, separated) ==
  [p \in (0 .. 5) \X (0 .. 9) |->
     IF \E k \in 0 .. 5 : (bits \div 2 ^ k) % 2 = 1 /\ p \in Block(k, separated) THEN 1 ELSE 0]
Pretty(g) == Stretched(Smoothed(Doubled(g)))
Plain(g) == Stretched(Doubled(g))

(* The smoothing has no preferred direction: the mirror image of a glyph is  *)
(* the glyph of its mirror image. Mosaics tile their cell, and separated ones*)
(* keep clear of their neighbours (teletext_generate).                       *)
Mirror(g, w) == [p \in DOMAIN g |-> g[<<w - 1 - p[1], p[2]>>]]
Upside(g, h) == [p \in DOMAIN g |-> g[<<p[1], h - 1 - p[2]>>]]
GlyphsAreEven(glyphs) ==
  /\ \A g \in glyphs : Pretty(Mirror(g, 6)) = Mirror(Pretty(g), 16) /\ Pretty(Upside(g, 10)) = Upside(Pretty(g), 20)
  /\ \A p \in (0 .. 5) \X (0 .. 9) : Cardinality({ k \in 0 .. 5 : p \in Block(k, FALSE) }) = 1
  /\ \A bits \in {1, 6, 63} : \A p \in (0 .. 15) \X (0 .. 19) :
       Plain(Mosaic(bits, TRUE))[p] <= Plain(Mosaic(bits, FALSE))[p]

-----------------------------------------------------------------------------
(* The renderer.                                                             *)

Nothing == [at |-> -2]
NoCell == [char |-> <<"black">>]
Canvas == plan.canvas
Off == Canvas.width * Canvas.height + 1  \* behind the buffer
Mode7 == [teletext |-> TRUE, fast |-> FALSE, chars |-> 0]
ModeOf(r) == IF r.teletext THEN Mode7 ELSE [teletext |-> FALSE, fast |-> r.fast, chars |-> r.chars]
Wide(r) == IF r.mode.teletext \/ ~r.mode.fast THEN 16 ELSE 8  \* the pixels of a character
Flip7(color) == (8 * (color \div 8)) + 7 - (color % 8)

\* render_reset_render_pos: where the beam is on the canvas. Rows come in pairs.
\* A mutant: the limit is that of the narrow characters.
ResetRenderPosNarrow(r) ==
  LET row    == (r.v \div 2) * 2
      inRows == r.buffer /\ row >= Canvas.top /\ row < Canvas.top + Canvas.height
      inside == inRows /\ r.h >= Canvas.left /\ r.h < Canvas.left + Canvas.width
      start  == (row - Canvas.top) * Canvas.width
  IN  [r EXCEPT !.pos = IF inside THEN start + r.h - Canvas.left ELSE Off,
                !.max = IF inside THEN start + Canvas.width - 8 ELSE -1]
ResetRenderPos(r) ==
  LET row    == (r.v \div 2) * 2
      inRows == r.buffer /\ row >= Canvas.top /\ row < Canvas.top + Canvas.height
      inside == inRows /\ r.h >= Canvas.left /\ r.h < Canvas.left + Canvas.width
      start  == (row - Canvas.top) * Canvas.width
      size   == IF ~r.fast \/ r.mode.teletext THEN 16 ELSE 8
  IN  [r EXCEPT !.pos = IF inside THEN start + r.h - Canvas.left ELSE Off,
                !.max = IF inside THEN start + Canvas.width - size ELSE -1]

Vsync(r) ==
  ResetRenderPos([r EXCEPT !.v = IF r.h >= Canvas.half THEN -1 ELSE 0, !.grey = FALSE])
Hsync(r, odd) ==
  LET down == [r EXCEPT !.h = IF odd THEN -4 ELSE 0, !.v = @ + 2, !.cursor = -1,
                        !.grey = @ \/ (r.h >= Canvas.right /\ r.v <= 8)]
  IN  ResetRenderPos(IF down.v >= Canvas.bottom THEN Vsync(down) ELSE down)
SetHorizBeamPos(r, h) == ResetRenderPos([r EXCEPT !.h = h])
SetBuffer(r) == ResetRenderPos([r EXCEPT !.buffer = TRUE, !.h = 0, !.v = 0])

-----------------------------------------------------------------------------
(* Modes and colours, of one logical colour. A table of pixels is built when *)
(* it is first needed: tables holds the colour of the built ones, by mode.   *)
SelectRenderFunc(r) == [r EXCEPT !.blank = ~r.mode.teletext /\ (~r.dispen \/ r.ra8)]
SetDispen(r, enabled) == SelectRenderFunc([r EXCEPT !.dispen = enabled])
SetRa(r, ra) == SelectRenderFunc([r EXCEPT !.ra8 = (ra \div 8) % 2 = 1])
SetMode(r, fast, chars, teletext) ==
  [r EXCEPT !.fast = fast, !.chars = chars, !.teletext = teletext,
            !.tables = IF fast # r.fast \/ chars # r.chars THEN <<>> ELSE @]
SetPhysicalColor(r, physical) == [r EXCEPT !.physical = physical, !.tables = <<>>]
SetPalette(r, index, value) == [r EXCEPT !.palette[index] = value, !.tables = <<>>]
\* render_generate_*_table: a shift register gives a pixel's logical colour.
Shifted(byte, pixels) == ((byte + 1) * (2 ^ pixels)) - 1  \* ones are shifted in
Bit(value, b) == (value \div (2 ^ b)) % 2
LogicalColor(value) == Bit(value, 1) + (2 * Bit(value, 3)) + (4 * Bit(value, 5)) + (8 * Bit(value, 7))
TableRow(byte, width, pixels) ==
  [j \in 0 .. width - 1 |-> LogicalColor(Shifted(byte, j \div (width \div pixels)) % 256)]
\* A mutant: a flash is taken for one of what does not flash.
SetFlashKeeps(r, flash) == [r EXCEPT !.flash = flash]
SetFlash(r, flash) ==
  IF flash = r.flash THEN r ELSE [r EXCEPT !.flash = flash, !.tables = IF r.physical >= 8 THEN <<>> ELSE @]
PowerOnReset(r) ==
  [SetPhysicalColor(r, 0) EXCEPT !.palette = [index \in 0 .. 15 |-> IF index < 8 THEN index + 1 ELSE 0]]
DisplayColor(r) ==
  LET color == Flip7(r.physical)
  IN  IF r.palette[color] = 0 /\ color >= 8
      THEN r.palette[IF r.flash THEN Flip7(color % 8) ELSE color % 8] ELSE r.palette[color]
CheckTable(r) ==
  IF r.mode.teletext \/ r.mode \in DOMAIN r.tables THEN r
  ELSE [r EXCEPT !.tables = @ @@ (r.mode :> DisplayColor(r))]
Prepare(r) == CheckTable(ResetRenderPos(SelectRenderFunc([r EXCEPT !.mode = ModeOf(r)])))

(* A character: the beam moves on, on the canvas or not.                     *)
CheckCursor(r) == [r EXCEPT !.cursor = IF @ \in {-1, 3} THEN -1 ELSE @ + 1]
OnCanvas(r) == r.pos <= r.max
Moved(r) ==
  LET on == [r EXCEPT !.h = @ + Wide(r)]
  IN  IF OnCanvas(r) THEN CheckCursor([on EXCEPT !.pos = @ + Wide(r)])
      ELSE IF (on.h \div Wide(r)) * Wide(r) = Canvas.left THEN ResetRenderPos(on)
      ELSE IF on.h >= Canvas.right THEN Hsync(on, FALSE) ELSE on
\* The SAA5050 is delivered zeros with chunky addressing.
Fed(r, c, byte) == IF r.mode.teletext THEN Data(c, IF plan.chunky THEN 0 ELSE byte) ELSE c
Drawn(r, c) ==  \* on both lines of a pair, or on the beam's own
  [at |-> IF OnCanvas(r) THEN r.pos ELSE -1, h |-> r.h, v |-> r.v, width |-> Wide(r),
   color |-> IF r.mode.teletext \/ r.blank THEN -1 ELSE r.tables[r.mode],
   cell |-> IF r.mode.teletext /\ c.current THEN Shown(c, plan.interlaced) ELSE NoCell]
Character(c, byte) ==
  LET fed == Fed(render, c, byte)
  IN  render' = Moved(render) /\ chip' = fed /\ drawn' = Drawn(render, fed)

-----------------------------------------------------------------------------
Init ==
  /\ plan \in Plans
  /\ render = SetBuffer(PowerOnReset(
       [buffer |-> FALSE, h |-> 0, v |-> 0, pos |-> 0, max |-> -1, cursor |-> -1, grey |-> FALSE,
        fast |-> TRUE, chars |-> 3, teletext |-> plan.kind = "text",
        mode |-> [teletext |-> FALSE, fast |-> TRUE, chars |-> 3],
        dispen |-> FALSE, ra8 |-> FALSE, blank |-> TRUE, physical |-> 0, palette |-> [index \in 0 .. 15 |-> 0],
        flash |-> FALSE, tables |-> <<>>]))
  /\ chip = RaIsvChanged(Create, 0, plan.isv)
  /\ prepared = FALSE /\ changes = 0 /\ drawn = Nothing
  /\ text = [tick |-> 0, line |-> 0, row |-> 1, frame |-> 0]

(* The advance of the CRTC: prepared first, then characters, pulses, signals.*)
PrepareRender ==
  /\ ~prepared /\ prepared' = TRUE
  /\ render' = Prepare(render) /\ drawn' = Nothing /\ UNCHANGED <<plan, chip, text, changes>>
Signal(to) ==
  /\ prepared /\ plan.kind # "text" /\ render' = to /\ drawn' = Nothing
  /\ UNCHANGED <<plan, chip, prepared, text, changes>>
DrawCharacter ==
  /\ prepared /\ plan.kind # "text" /\ Character(chip, 32) /\ UNCHANGED <<plan, prepared, text, changes>>
\* The SAA5050 is clocked at 1MHz: at an odd tick nothing is drawn and nothing moves.
OddTick == render.mode.teletext /\ Signal(render)
BeginLine == \E odd \in plan.odd : Signal(Hsync(render, odd))
BeginFrame == Signal(Vsync(render))
ChangeDispen == Signal(SetDispen(render, ~render.dispen))
ChangeRa == plan.kind = "colours" /\ \E ra \in {7, 8} : Signal(SetRa(render, ra))
RaiseCursor == plan.kind = "beam" /\ render.cursor = -1 /\ Signal([render EXCEPT !.cursor = 0])

(* Between advances.                                                         *)
Change(to) ==
  /\ changes < MaxChanges /\ changes' = changes + 1 /\ prepared' = FALSE
  /\ plan.kind # "text" /\ render' = to /\ drawn' = Nothing /\ UNCHANGED <<plan, chip, text>>
ChangeMode ==
  \E fast, teletext \in BOOLEAN, chars \in plan.chars : Change(SetMode(render, fast, chars, teletext))
ChangeColor == plan.kind = "colours" /\ \E physical \in {7, 8, 15} : Change(SetPhysicalColor(render, physical))
ChangePalette == plan.kind = "colours" /\ \E index \in {0, 8} : Change(SetPalette(render, index, 20))
ChangeFlash == plan.kind = "colours" /\ Change(SetFlash(render, ~render.flash))
\* Rendering resumes at the start of a frame (video_check_go_active).
Resume ==
  /\ plan.kind = "beam"
  /\ \E h \in {0, Canvas.half}, lines \in 0 .. 1 :
       LET top == Vsync(SetHorizBeamPos(render, h))
       IN  Change(IF lines = 1 THEN Hsync(top, FALSE) ELSE top)

(* A page of text: its lines, of RowLines scanlines each. The CRTC delays the*)
(* display enable by a character; a whole frame drawn at once (video_render_ *)
(* full_frame) does not, and keeps it up for three characters more.          *)
Cols == Len(plan.rows[1])
Delay == IF plan.full THEN 0 ELSE 1
Enabled ==
  text.tick >= plan.pre + Delay /\ text.tick < plan.pre + Cols + (IF plan.full THEN 3 ELSE Delay)
LineTicks == plan.pre + Cols + (IF plan.full THEN 3 ELSE 4)
TextCharacter ==
  /\ prepared /\ plan.kind = "text" /\ text.tick < LineTicks
  /\ LET k == text.tick - plan.pre + 1
     IN  Character(DispenChanged(chip, Enabled), IF k \in 1 .. Cols THEN plan.rows[text.row][k] ELSE plan.junk)
  /\ text' = [text EXCEPT !.tick = @ + 1] /\ UNCHANGED <<plan, prepared, changes>>
TextLineEnds ==
  LET lastLine == text.line + 1 = RowLines
      end      == lastLine /\ text.row = Len(plan.rows)
      down     == DispenChanged(chip, FALSE)
      frame    == IF end THEN text.frame + 1 ELSE text.frame
      line     == IF lastLine THEN 0 ELSE text.line + 1
      ra       == IF plan.isv THEN (2 * line) + (frame % 2) ELSE line
  IN  /\ prepared /\ plan.kind = "text" /\ text.tick = LineTicks
      /\ frame < plan.frames
      /\ render' = IF end THEN Vsync(Hsync(render, FALSE)) ELSE Hsync(render, FALSE)
      /\ chip' = RaIsvChanged(IF end THEN VsyncChanged(down) ELSE down, IF plan.full THEN 0 ELSE ra, plan.isv)
      /\ text' = [tick |-> 0, line |-> line, frame |-> frame,
                  row |-> IF end THEN 1 ELSE IF lastLine THEN text.row + 1 ELSE text.row]
      /\ drawn' = Nothing /\ UNCHANGED <<plan, prepared, changes>>

PageShown ==
  /\ plan.kind = "text" /\ text.tick = LineTicks /\ text.frame + 1 = plan.frames
  /\ text.row = Len(plan.rows) /\ text.line + 1 = RowLines
  /\ UNCHANGED vars

Next ==
  \/ PrepareRender \/ DrawCharacter \/ OddTick \/ BeginLine \/ BeginFrame \/ ChangeDispen \/ ChangeRa \/ RaiseCursor
  \/ ChangeMode \/ ChangeColor \/ ChangePalette \/ ChangeFlash \/ Resume
  \/ TextCharacter \/ TextLineEnds \/ PageShown
Spec == Init /\ [][Next]_vars

-----------------------------------------------------------------------------
(* A character is drawn exactly if all of it is inside the window, and there:*)
(* whatever the mode it is drawn in began with, no pixel leaves its row.     *)
DrawnWhereTheBeamIs ==
  LET row    == (drawn.v \div 2) * 2
      inside == /\ row \in Canvas.top .. (Canvas.top + Canvas.height - 2)
                /\ drawn.h >= Canvas.left /\ drawn.h + drawn.width <= Canvas.left + Canvas.width
  IN  drawn.at # -2 =>
        drawn.at = IF inside THEN ((row - Canvas.top) * Canvas.width) + drawn.h - Canvas.left ELSE -1

(* What is drawn has the colour the palette, the ULA and the flash give now: *)
(* no table of pixels outlives what it was built from.                       *)
ColoursAreCurrent == drawn.at # -2 /\ drawn.color >= 0 => drawn.color = DisplayColor(render)

(* The cells of a page are those its lines define: three characters behind   *)
(* the bytes, the lower halves of double height below the lines that have it,*)
(* flashing by the frame, and nothing of the bytes fetched outside the       *)
(* displayed columns. A line starts white, but for the first ever shown.     *)
LineOf(row) == [k \in 1 .. Cols |-> IF plan.chunky THEN 0 ELSE plan.rows[row][k] % 128]
StartingInk == IF text.frame = 0 /\ text.row = 1 /\ text.line = 0 THEN Black ELSE White
RECURSIVE Lower(_)
Lower(row) ==
  row > 1 /\ ~Lower(row - 1) /\ \E k \in 1 .. Cols : LineOf(row - 1)[k] = 13
GlyphLines(double) ==
  LET s == text.line
  IN  IF double THEN LET at == s + (IF Lower(text.row) THEN RowLines ELSE 0) IN IF plan.interlaced THEN <<at>> ELSE <<at, at>>
      ELSE IF plan.interlaced THEN <<(2 * s) + (text.frame % 2)>> ELSE <<2 * s, (2 * s) + 1>>
TextIsTheLine ==
  plan.kind = "text" /\ drawn.at # -2 =>
    LET k    == text.tick - plan.pre - 3  \* of the character just drawn
        line == LineOf(text.row)
    IN  IF k \in 1 .. Cols
        THEN LET cell == Cell(line, k, StartingInk, Lower(text.row), (text.frame + 1) % FlashFrames >= FlashOff)
             IN  /\ [c \in {"char", "fg", "bg"} |-> drawn.cell[c]] = cell
                 /\ plan.isv => drawn.cell.lines = GlyphLines(LastIs(line, k, 13, 12))
        ELSE plan.full \/ drawn.cell = NoCell

(* Where a pixel's bits are in its byte, pixels at a time: a pixel's    *)
(* four are every second one, and what is behind the byte is ones.           *)
TablesAreBits(bytes) ==
  \A byte \in bytes, pixels \in {1, 2, 4, 8, 16} : \A width \in {8, 16} : width >= pixels =>
    \A j \in 0 .. width - 1 :
      LET p    == (pixels * j) \div width
          at(b) == IF b - p >= 0 THEN Bit(byte, b - p) ELSE 1
      IN  TableRow(byte, width, pixels)[j] = at(1) + (2 * at(3)) + (4 * at(5)) + (8 * at(7))

(* The picture doubled in place, and doubled anew (video:double-size).       *)
RECURSIVE Widened(_, _, _, _), Lengthened(_, _, _)
Widened(b, width, line, column) ==
  IF column < 0 THEN b
  ELSE LET at == line * width
       IN  Widened([b EXCEPT ![at + 2 * column] = b[at + column], ![at + 2 * column + 1] = b[at + column]],
                   width, line, column - 1)
Lengthened(b, width, line) ==
  IF line < 0 THEN b
  ELSE LET from == line * width
           dest == 2 * from
           copy(c, to) == [p \in DOMAIN c |-> IF p \in to .. to + width - 1 THEN c[from + p - to] ELSE c[p]]
       IN  Lengthened(copy(IF line = 0 THEN b ELSE copy(b, dest), dest + width), width, line - 1)
RECURSIVE AllWidened(_, _, _)
AllWidened(b, width, line) ==
  IF line = 0 THEN b ELSE Widened(AllWidened(b, width, line - 1), width, line - 1, (width \div 2) - 1)
ProcessFullBuffer(b, width, height) ==
  Lengthened(AllWidened(b, width, height \div 2), width, (height \div 2) - 1)
PictureIsDoubled(width, height) ==
  LET b == [p \in 0 .. (width * height) - 1 |-> p]
  IN  ProcessFullBuffer(b, width, height) =
        [p \in DOMAIN b |-> (((p \div width) \div 2) * width) + ((p % width) \div 2)]
=============================================================================
