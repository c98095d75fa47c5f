------------------------------ MODULE MCVideo -------------------------------
(***************************************************************************)
(* Frames of a few dozen ticks: four ticks a line, four lines a row, three   *)
(* rows, with and without vertical adjustment and the three kinds of         *)
(* interlace, at both clocks; or, the CRTC left alone, what the renderer      *)
(* draws (Render): on a window of a few characters, in the colours of one dot,*)
(* or pages of two rows of five characters.                                  *)
(***************************************************************************)
EXTENDS Video

CONSTANTS RowLines, FlashFrames, FlashOff, Plans, MaxChanges
VARIABLES plan, render, chip, prepared, text, changes, drawn
picture == <<plan, render, chip, prepared, text, changes, drawn>>
Picture == INSTANCE Render

Setup(kind, mode, r4, r5, edge) ==
  [plan |-> kind, r0 |-> 3, r1 |-> 2, vsync |-> 2, r4 |-> r4, r5 |-> r5, r6 |-> 0, r7 |-> 1,
   r9 |-> IF mode = 3 THEN 6 ELSE 3, mode |-> mode, start |-> 5,
   clock |-> 2, edge |-> edge, fast |-> TRUE, heard |-> kind = "pictures"]

MCSetups ==
  {[Setup("pictures", 0, 4, 0, 0) EXCEPT !.r6 = 2, !.r7 = 3], Setup("bitmap", 0, 2, 0, 0),
   Setup("interlace", 1, 3, 1, 1), Setup("teletext", 3, 2, 1, 0)}
MCWrites ==
  [pictures |-> {<<"start", 9>>},
   bitmap |-> {<<"pen", 0>>, <<"clear", 0>>, <<"clock", 1>>, <<"clock", 2>>, <<"edge", 0>>,
               <<"edge", 1>>, <<"r7", 133>>, <<"r4", 3>>, <<"mode", 1>>, <<"reset", 0>>},
   interlace |-> {<<"pen", 0>>, <<"clear", 0>>, <<"r7", 2>>, <<"r0", 5>>},
   teletext |-> {<<"pen", 0>>, <<"clear", 0>>, <<"edge", 0>>, <<"clock", 1>>, <<"r4", 130>>, <<"mode", 0>>}]

PlanOf(kind, canvas) ==
  [kind |-> kind, canvas |-> canvas, interlaced |-> FALSE, isv |-> TRUE, odd |-> {FALSE}, chars |-> {3},
   full |-> FALSE, chunky |-> FALSE, pre |-> 0, junk |-> 13, frames |-> 1, rows |-> <<<<32>>>>]
Window == [width |-> 48, left |-> 32, right |-> 112, half |-> 48, top |-> 2, height |-> 4, bottom |-> 8]
Page == [width |-> 160, left |-> 0, right |-> 200, half |-> 64, top |-> 0, height |-> 8, bottom |-> 64]
Dot == [width |-> 16, left |-> 0, right |-> 32, half |-> 32, top |-> 0, height |-> 2, bottom |-> 2]

\* Five columns: heights, graphics, held and separated, backgrounds and concealment.
Codes == {13, 18, 24, 30, 31, 53}
TextLines == {<<17, 53, a, b, c>> : a, b, c \in Codes} \cup {<<a, b, c, 53, 53>> : a, b, c \in Codes}
High == <<13, 65, 12, 13, 66>>
Flashing == <<8, 29, 65, 9, 19>>
Separated == <<26, 146, 53, 13, 182>>
Text(rows) == [PlanOf("text", Page) EXCEPT !.rows = rows]
MCPlans ==
  {PlanOf("beam", [Window EXCEPT !.left = 16, !.right = 80]),
   [PlanOf("beam", Window) EXCEPT !.interlaced = TRUE, !.odd = BOOLEAN],
   [PlanOf("colours", Dot) EXCEPT !.chars = {0, 3}]}
  \cup {Text(<<line, High>>) : line \in TextLines} \cup {Text(<<High, line>>) : line \in TextLines}
  \cup {[Text(<<Flashing, Separated>>) EXCEPT !.frames = 4, !.interlaced = i] : i \in BOOLEAN}
  \cup {[Text(<<High, Separated>>) EXCEPT !.isv = FALSE, !.interlaced = i] : i \in BOOLEAN}
  \cup {[Text(<<High, Separated>>) EXCEPT !.full = TRUE, !.pre = 3, !.junk = 0],
         [Text(<<High, Separated>>) EXCEPT !.chunky = TRUE]}

NoPicture ==
  /\ plan = <<>> /\ render = <<>> /\ chip = <<>> /\ prepared = FALSE /\ text = <<>>
  /\ changes = -1 /\ drawn = <<>>
InitCrtcOrPicture == Init /\ (NoPicture \/ (regs.plan = "pictures" /\ Picture!Init))
CrtcOrPicture ==
  /\ InitCrtcOrPicture
  /\ [][\/ changes = -1 /\ Next /\ UNCHANGED picture
        \/ changes >= 0 /\ Picture!Next /\ UNCHANGED vars]_<<vars, picture>>

\* The glyphs, the tables of pixels and the doubled picture, computed.
Strokes == {{<<0, 0>>, <<1, 1>>, <<2, 2>>, <<2, 3>>, <<3, 3>>}, {<<5, 9>>, <<4, 8>>, <<3, 9>>, <<2, 7>>}}
SomeGlyphs == {[p \in (0 .. 5) \X (0 .. 9) |-> IF p \in stroke THEN 1 ELSE 0] : stroke \in Strokes}
PixelsAreExact ==
  /\ Picture!GlyphsAreEven(SomeGlyphs) /\ Picture!TablesAreBits({0, 1, 27, 228, 255})
  /\ Picture!PictureIsDoubled(4, 6) /\ Picture!PictureIsDoubled(6, 4)
ASSUME PixelsAreExact

\* What is drawn is where the beam is and in the colours and mode of that moment,
\* whatever changes between two advances (Render; nothing of the CRTC alone).
PictureFollowsTheBeam == changes >= 0 => Picture!DrawnWhereTheBeamIs /\ Picture!ColoursAreCurrent
\* The SAA5050's pipeline shows of each line what its codes say (Render).
TextIsTheLine == changes >= 0 => Picture!TextIsTheLine
=============================================================================
