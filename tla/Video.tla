------------------------------- MODULE Video --------------------------------
(***************************************************************************)
(* src/video.c around the CRTC: it runs the chip only when it must, from a   *)
(* timer set for the next VSYNC edge, and while nothing is rendered it jumps *)
(* from edge to edge, or over whole frames, without running it at all.  ref  *)
(* is the same chip run every tick; the two must never be told apart by the  *)
(* system VIA.  Time is what happens between now and the last advance.       *)
(*                                                                         *)
(* The chip itself, the 6845, is run tick by tick: the counters, the latches *)
(* that end a frame, VSYNC and the display address.  Operators over a record *)
(* c (the chip) and a record r (its registers); "ago" says how many 2MHz     *)
(* ticks before now a thing happens.  Logging, colours, hsync and the cursor *)
(* are not here.                                                             *)
(***************************************************************************)
EXTENDS Integers

-----------------------------------------------------------------------------
(* The 6845.                                                                 *)
\* The bits of a register that are kept.
Masked(n, v) ==
  CASE n \in {"r4", "r6", "r7"} -> v % 128 [] n \in {"r5", "r9"} -> v % 32 [] OTHER -> v

Interlace(r) == r.mode \in {1, 3}
SyncAndVideo(r) == r.mode = 3
Stride(r) == IF SyncAndVideo(r) THEN 2 ELSE 1
Lines(r, n) == IF SyncAndVideo(r) THEN n - (n % 2) ELSE n  \* & scanline_mask
HalfR0(r) == (r.r0 + 1) \div 2

ScanlinesPerRow(r) == Lines(r, r.r9) \div Stride(r) + 1

SaneFraming(r) ==
  /\ r.r0 >= 3
  /\ r.vsync <= 3
  /\ r.r4 > r.r7
  /\ r.r7 > r.r6
  /\ r.r9 >= 3 * Stride(r)

FrameTicks(r) ==
  (r.r0 + 1) * (ScanlinesPerRow(r) * (r.r4 + 1) + r.r5)
    + (IF Interlace(r) THEN (r.r0 + 1) \div 2 ELSE 0)

Chip0 ==
  [hc |-> 0, sc |-> 0, vc |-> 0, adj |-> 0, vsyncLines |-> 0,
   frames |-> 0, oddFrame |-> FALSE, first |-> TRUE,
   adjPending |-> FALSE, inAdj |-> FALSE, dummy |-> FALSE,
   inVsync |-> FALSE, even |-> FALSE, odd |-> FALSE,
   hadEven |-> FALSE, hadOdd |-> FALSE,
   mainEnd |-> FALSE, adjEnd |-> FALSE, frameEnd |-> FALSE,
   checks |-> {1}, enable |-> {"vert"},
   raisedNow |-> FALSE, loweredNow |-> FALSE,
   addr |-> 0, saved |-> 0,
   active |-> FALSE, wallHit |-> FALSE, whole |-> FALSE, irq |-> FALSE]

\* Which of the two VSYNCs counts depends on the field.  The system VIA takes
\* the edge its PCR asks for.  When VSYNC rises while rendering, the picture is
\* painted; in fast mode rendering then stops until the next wall clock VSYNC.
NewVsync(c, r) == IF Interlace(r) /\ ~c.oddFrame THEN c.even ELSE c.odd
Painted(c, r) ==
  IF ~c.active \/ ~r.fast THEN c ELSE [c EXCEPT !.active = FALSE, !.wallHit = FALSE, !.whole = FALSE]
UpdateVsync(c, r, ago) ==
  IF NewVsync(c, r) = c.inVsync THEN c
  ELSE IF ~c.inVsync
       THEN Painted([c EXCEPT !.inVsync = TRUE, !.raisedNow = (ago = 0),
                              !.irq = @ \/ r.edge = 1], r)
       ELSE [c EXCEPT !.inVsync = FALSE, !.loweredNow = (ago = 0),
                      !.irq = @ \/ r.edge = 0]

R4Hit(c, r) == c.vc = r.r4
R5Hit(c, r) == c.adj = r.r5
R9Hit(c, r) == c.sc = Lines(r, r.r9)

CheckR6(c, r) ==
  IF c.vc = r.r6 /\ "vert" \in c.enable /\ ~c.first
  THEN [c EXCEPT !.enable = @ \ {"vert"}, !.frames = 1 - @]
  ELSE c

CheckR7(c, r, ago) ==
  IF c.vc = r.r7 /\ ~c.hadOdd
  THEN UpdateVsync([c EXCEPT !.hadOdd = TRUE, !.odd = TRUE,
                             !.vsyncLines = IF c.inVsync THEN @ ELSE r.vsync], r, ago)
  ELSE c

StartNewFrame(c, r) ==
  [c EXCEPT !.sc = 0, !.vc = 0, !.adj = 0, !.hadOdd = FALSE, !.hadEven = FALSE,
            !.inAdj = FALSE, !.dummy = FALSE, !.oddFrame = (c.frames = 1),
            !.mainEnd = FALSE, !.adjEnd = FALSE, !.frameEnd = FALSE, !.first = TRUE,
            !.enable = @ \cup {"vert"}, !.addr = r.start, !.saved = r.start,
            !.whole = c.active]

\* One tick later each: a new line, the end of the main part, the end of the
\* vertical adjustment, the end of the frame.
StartOfLineChecks(c, r) ==
  LET main == 2 \in c.checks /\ R4Hit(c, r) /\ R9Hit(c, r)
      late == 4 \in c.checks /\ c.mainEnd
  IN  [c EXCEPT
        !.frameEnd = @ \/ (8 \in c.checks /\ c.adjEnd),
        !.adjEnd = @ \/ (late /\ R5Hit(c, r)),
        !.adjPending = @ \/ (late /\ ~R5Hit(c, r) /\ ~c.inAdj /\ ~c.dummy),
        !.mainEnd = @ \/ main,
        !.checks = {2 * n : n \in @ \ {8}}]

\* video_do_rendering_tick: the address the display fetches from.
RenderingTickAnyLine(c, r) ==  \* a mutant: every line of a row moves the address on
  IF ~c.active THEN c
  ELSE [c EXCEPT !.saved = IF c.hc = r.r1 THEN c.addr ELSE @,
                 !.enable = IF c.hc \in {r.r1, r.r0} THEN @ \ {"horiz"} ELSE @,
                 !.addr = (@ + 1) % 16384]
RenderingTick(c, r) ==
  IF ~c.active THEN c
  ELSE [c EXCEPT !.saved = IF c.hc = r.r1 /\ R9Hit(c, r) THEN c.addr ELSE @,
                 !.enable = IF c.hc \in {r.r1, r.r0} THEN @ \ {"horiz"} ELSE @,
                 !.addr = (@ + 1) % 16384]

HalfLine(c, r, ago) ==
  IF ~((c.vc = r.r7 \/ c.even) /\ c.hc = HalfR0(r)) THEN c
  ELSE UpdateVsync(IF ~c.hadEven THEN [c EXCEPT !.hadEven = TRUE, !.even = TRUE]
                   ELSE IF c.vsyncLines = 0 THEN [c EXCEPT !.even = FALSE] ELSE c,
                   r, ago)

CountVsyncLines(c, r, ago) ==
  IF ~c.inVsync THEN c
  ELSE IF c.vsyncLines > 1 THEN [c EXCEPT !.vsyncLines = @ - 1]
  ELSE UpdateVsync([c EXCEPT !.vsyncLines = 0, !.odd = FALSE], r, ago)

NextScanline(c, r) ==
  LET nextRow == R9Hit(c, r) /\ ~c.inAdj
  IN  [c EXCEPT
        !.sc = IF nextRow THEN 0
               ELSE IF r.r0 = 0 THEN @ ELSE Lines(r, ((@ + Stride(r)) % 32)),
        !.vc = IF nextRow THEN (@ + 1) % 128 ELSE @,
        !.hadOdd = @ /\ ~nextRow, !.hadEven = @ /\ ~nextRow,
        !.addr = c.saved]

Adjusting(c) == IF c.inAdj THEN [c EXCEPT !.adj = (@ + 1) % 32] ELSE c

\* The transitions at the end of a line, and the checks of R6 and R7 after them.
Transition(c, r, ago) ==
  IF c.dummy \/ (~c.adjPending /\ c.frameEnd /\ ~(Interlace(r) /\ c.frames = 1))
  THEN CheckR7(StartNewFrame(c, r), r, ago)
  ELSE CheckR7(CheckR6(Adjusting(
         IF c.adjPending THEN [c EXCEPT !.adjPending = FALSE, !.inAdj = TRUE]
         ELSE [c EXCEPT !.dummy = @ \/ c.frameEnd]), r), r, ago)

EndOfLine(c, r, ago) ==
  Transition(NextScanline(CountVsyncLines(
    [c EXCEPT !.hc = 0, !.enable = @ \cup {"horiz"}, !.checks = @ \cup {1},
              !.first = FALSE], r, ago), r), r, ago)

\* One tick of the CRTC; ago is the time at its end.
Tick(c, r, ago) ==
  LET d == RenderingTick(StartOfLineChecks(c, r), r)
      e == HalfLine([d EXCEPT !.hc = (@ + 1) % 256], r, ago)
  IN  IF d.hc = r.r0 THEN EndOfLine(e, r, ago) ELSE e

RECURSIVE Ticks(_, _, _, _, _)
Ticks(c, r, ago, until, inc) ==
  IF ago <= until THEN c ELSE Ticks(Tick(c, r, ago - inc), r, ago - inc, until, inc)

\* video_advance_crtc_timing: from the last advance, "behind" ticks ago, to
\* now; oddNow is the time's lowest bit.  At 1MHz the chip ticks on even times.
Advance(c, r, behind, oddNow) ==
  LET inc == IF r.clock = 2 THEN 1 ELSE 2
      from == IF r.clock = 2 THEN behind ELSE behind + ((oddNow + behind) % 2)
      until == IF r.clock = 2 THEN 0 ELSE oddNow
  IN  Ticks(CheckR7(CheckR6(c, r), r, from), r, from, until, inc)

\* The part of video_crtc_write_value that changes the chip at once, register n
\* having got its new value in r.
Written(c, n, r, oddNow) ==
  LET c1 == IF n = "mode" THEN UpdateVsync(c, r, 0) ELSE c
      c2 == IF SyncAndVideo(r) THEN [c1 EXCEPT !.sc = @ - (@ % 2)] ELSE c1
  IN  [(IF n = "r7" THEN Advance(c2, r, 0, oddNow) ELSE c2) EXCEPT !.whole = FALSE]

-----------------------------------------------------------------------------
(* The program around it.                                                    *)

CONSTANTS
  Setups,     \* registers the machine may start with
  Writes,     \* by setup, what may be written: <<register, value>> pairs, the
              \* ULA's "clock", the VIA's "edge", "pen", "clear" or "reset"
  MaxWrites,  \* how many writes a behaviour holds
  Careful,    \* leave out the two writes that make VSYNC late
  FarTimer,   \* 40000: a timer for a VSYNC that is never due
  MaxBehind   \* the longest a timer is set for

VARIABLES
  regs,     \* the CRTC registers, the ULA's clock, the VIA's CA1 edge, fast mode
  crtc,     \* the chip as the code has it
  ref,      \* the chip run tick by tick
  behind,   \* now - prev_system_ticks
  oddNow,   \* the lowest bit of the time
  timer,    \* ticks until timer_id expires
  fire,     \* timer_fire_mode
  ca1Level, \* via_ca1_irq_level
  waited,   \* 100000 ticks have passed since the wall clock VSYNC
  writes,   \* writes so far
  failed    \* an assert() of the code that did not hold

ASSUME MaxWrites \in Nat /\ MaxBehind \in Nat /\ Careful \in BOOLEAN

vars == <<regs, crtc, ref, behind, oddNow, timer, fire, ca1Level, waited, writes, failed>>

Framing == {"r0", "r1", "vsync", "r4", "r5", "r6", "r7", "mode", "r9"}
Jumping(mode) == mode \in {"jumpRaise", "jumpLower", "jumpFrame"}

\* An advance leaves the jumping modes: the next edge is only expected.
Bounced(mode) ==
  CASE mode = "jumpRaise" -> "expectRaise"
    [] mode \in {"jumpLower", "jumpFrame"} -> "expectLower"
    [] OTHER -> mode

Shift(r) == IF r.clock = 2 THEN 1 ELSE 2
VsyncTicks(r) == r.vsync * (r.r0 + 1)
EvenField(c, r) == Interlace(r) /\ c.frames = 1

\* video_is_full_vsync_state_match
FullMatch(c, r, raise) ==
  /\ c.vc = r.r7
  /\ c.sc = IF raise THEN 0 ELSE r.vsync * Stride(r)
  /\ c.vsyncLines = IF raise THEN r.vsync ELSE 0
  /\ c.hc = IF EvenField(c, r) THEN HalfR0(r) ELSE 0
  /\ ~c.mainEnd
FullMatchAsserts(c, raise) ==
  /\ c.inVsync = raise
  /\ ~c.adjEnd /\ ~c.frameEnd /\ ~c.adjPending /\ ~c.inAdj /\ ~c.dummy

AtRaise(c, r) == SaneFraming(r) /\ c.raisedNow /\ FullMatch(c, r, TRUE)
AtLower(c, r) == SaneFraming(r) /\ c.loweredNow /\ FullMatch(c, r, FALSE)

\* video_calculate_timer, from the chip as it stands (even if it lags).
\* A mutant: the half line VSYNC of an even field is not watched for.
NearVsyncOdd(c, r) == c.inVsync
NearVsync(c, r) == c.inVsync \/ (Interlace(r) /\ r.r7 = c.vc /\ c.sc = 0)
StartOfRow(c) == c.hc = 0 /\ c.sc = 0 /\ ~c.mainEnd
NeverDue(c, r) == r.r7 > r.r4 + 1 /\ (c.vc < r.r4 \/ (c.vc = r.r4 /\ c.sc < r.r9))
LineEnd(c, r) == r.r0 + 1 - c.hc
SlowTimer(c, r) ==
  CASE c.hc > r.r0 -> Shift(r) * (256 - c.hc)
    [] c.hc <= r.r0 /\ NearVsync(c, r) ->
         Shift(r) * (IF Interlace(r) /\ c.hc < HalfR0(r) THEN HalfR0(r) - c.hc ELSE LineEnd(c, r))
    [] c.hc <= r.r0 /\ ~NearVsync(c, r) /\ ~StartOfRow(c) -> Shift(r) * LineEnd(c, r)
    [] OTHER ->
         LET row == Shift(r) * ScanlinesPerRow(r) * (r.r0 + 1)
         IN  IF c.vc < r.r7 /\ r.r7 <= r.r4 THEN (r.r7 - c.vc) * row
             ELSE IF NeverDue(c, r) THEN FarTimer ELSE row

TimerValue(c, r) ==
  IF r.clock = 1 /\ oddNow = 1 THEN 1
  ELSE IF AtRaise(c, r) THEN Shift(r) * VsyncTicks(r)
  ELSE IF AtLower(c, r) THEN Shift(r) * (FrameTicks(r) - VsyncTicks(r))
  ELSE SlowTimer(c, r)
TimerMode(c, r) ==
  IF r.clock = 1 /\ oddNow = 1 THEN "null"
  ELSE IF AtRaise(c, r) THEN IF c.active THEN "expectLower" ELSE "jumpLower"
  ELSE IF AtLower(c, r) THEN IF c.active THEN "expectRaise" ELSE "jumpRaise"
  ELSE "null"
TimerAsserts(c, r) ==
  \/ r.clock = 1 /\ oddNow = 1
  \/ /\ SaneFraming(r) /\ c.raisedNow => c.inVsync /\ (AtRaise(c, r) => FullMatchAsserts(c, TRUE))
     /\ SaneFraming(r) /\ c.loweredNow => ~c.inVsync /\ (AtLower(c, r) => FullMatchAsserts(c, FALSE))
     /\ ~AtRaise(c, r) /\ ~AtLower(c, r) /\ ~NearVsync(c, r) /\ StartOfRow(c)
          => ~c.adjPending /\ ~c.inAdj /\ ~c.dummy

\* video_jump_to_vsync_start and video_jump_to_vsync_end: what a frame, or a
\* VSYNC pulse, would have done to the chip.
JumpToStart(c, r) ==
  LET frames == 1 - c.frames
      toEven == Interlace(r) /\ frames = 1
      toOdd == Interlace(r) /\ frames = 0
  IN  [c EXCEPT !.oddFrame = (c.frames = 1), !.frames = frames, !.odd = TRUE,
                !.hc = IF toEven THEN HalfR0(r) ELSE IF toOdd THEN 0 ELSE @,
                !.hadEven = @ /\ toEven,
                !.even = @ /\ Interlace(r),
                !.vsyncLines = r.vsync, !.sc = 0]
StartAsserts(c, r) ==
  /\ ~c.odd /\ c.hadOdd /\ c.hadEven
  /\ c.hc = IF Interlace(r) /\ c.frames = 1 THEN HalfR0(r) ELSE 0
  /\ c.even = ~(Interlace(r) /\ c.frames = 1)

\* A mutant: the jump forgets that the other field's VSYNC has begun.
JumpToEndOneField(c, r) ==
  [c EXCEPT !.sc = r.vsync * Stride(r), !.vsyncLines = 0, !.odd = FALSE, !.hadEven = TRUE]
JumpToEnd(c, r) ==
  [c EXCEPT !.sc = r.vsync * Stride(r), !.vsyncLines = 0, !.odd = FALSE,
            !.even = ~EvenField(c, r),
            !.hadEven = @ \/ ~EvenField(c, r)]
EndAsserts(c, r) ==
  /\ c.hadOdd /\ c.sc = 0 /\ c.vsyncLines = r.vsync /\ c.vc = r.r7
  /\ c.hc = IF EvenField(c, r) THEN HalfR0(r) ELSE 0
  /\ EvenField(c, r) => c.hadEven

WholeFrameJump(c, r) ==
  [UpdateVsync(JumpToEnd(UpdateVsync(JumpToStart(c, r), r, 0), r), r, 0)
     EXCEPT !.raisedNow = FALSE]

\* video_check_go_active, at the end of every timer.
CanGoActive(c) == ~c.active /\ c.wallHit /\ (c.loweredNow \/ waited)
GoActive(c) ==
  /\ crtc' = IF CanGoActive(c) THEN [c EXCEPT !.active = TRUE, !.wallHit = FALSE] ELSE c
  /\ waited' = (waited /\ crtc'.wallHit)

Due == timer = 0

-----------------------------------------------------------------------------
Init ==
  /\ regs \in Setups
  /\ crtc = Chip0 /\ ref = Chip0
  /\ behind = 0 /\ oddNow = 0
  /\ timer = TimerValue(Chip0, regs) /\ fire = "null"
  /\ ca1Level = -1 /\ waited = FALSE /\ writes = 0 /\ failed = FALSE

\* One 2MHz tick passes.
PassTick ==
  /\ ~Due /\ behind < MaxBehind
  /\ timer' = timer - 1 /\ behind' = behind + 1 /\ oddNow' = 1 - oddNow
  /\ ref' = [Advance([ref EXCEPT !.raisedNow = FALSE, !.loweredNow = FALSE], regs, 1, 1 - oddNow)
               EXCEPT !.whole = FALSE, !.addr = 0, !.saved = 0]
  /\ crtc' = [crtc EXCEPT !.raisedNow = FALSE, !.loweredNow = FALSE]
  /\ UNCHANGED <<regs, fire, ca1Level, waited, writes, failed>>

\* video_timer_fired while jumping: no CRTC tick is run.
JumpRaise ==
  /\ Due /\ fire = "jumpRaise"
  /\ GoActive(UpdateVsync(JumpToStart(crtc, regs), regs, 0))
  /\ fire' = IF crtc'.active THEN "null" ELSE "jumpLower"
  /\ timer' = Shift(regs) * VsyncTicks(regs)
  /\ failed' = (failed \/ crtc.active \/ ~SaneFraming(regs) \/ ~StartAsserts(crtc, regs))
  /\ behind' = 0
  /\ UNCHANGED <<regs, ref, oddNow, ca1Level, writes>>

\* With CA1 interrupting on the falling edge nobody sees VSYNC rise.
JumpLower ==
  /\ Due /\ fire = "jumpLower"
  /\ GoActive(UpdateVsync(JumpToEnd(crtc, regs), regs, 0))
  /\ fire' = IF crtc'.active THEN "null" ELSE IF ca1Level = 0 THEN "jumpFrame" ELSE "jumpRaise"
  /\ timer' = Shift(regs) * (FrameTicks(regs) - (IF ca1Level = 0 THEN 0 ELSE VsyncTicks(regs)))
  /\ failed' = (failed \/ crtc.active \/ ~SaneFraming(regs) \/ ~EndAsserts(crtc, regs))
  /\ behind' = 0
  /\ UNCHANGED <<regs, ref, oddNow, ca1Level, writes>>

JumpFrame ==
  /\ Due /\ fire = "jumpFrame"
  /\ GoActive(WholeFrameJump(crtc, regs))
  /\ fire' = IF crtc'.active THEN "null" ELSE "jumpFrame"
  /\ timer' = Shift(regs) * FrameTicks(regs)
  /\ failed' = (failed \/ crtc.active \/ ~SaneFraming(regs) \/ ~StartAsserts(crtc, regs)
                  \/ ~EndAsserts(JumpToStart(crtc, regs), regs))
  /\ behind' = 0
  /\ UNCHANGED <<regs, ref, oddNow, ca1Level, writes>>

\* video_timer_fired otherwise: run the chip up to now, set the next timer.
Now == Advance(crtc, regs, behind, oddNow)
AdvanceAndRearm ==
  /\ Due /\ ~Jumping(fire)
  /\ GoActive(Now)
  /\ timer' = TimerValue(Now, regs)
  /\ fire' = IF CanGoActive(Now) THEN "null" ELSE TimerMode(Now, regs)
  /\ failed' = (failed \/ ~TimerAsserts(Now, regs)
                  \/ (fire = "expectRaise" /\ ~Now.raisedNow)
                  \/ (fire = "expectLower" /\ ~Now.loweredNow))
  /\ behind' = 0
  /\ UNCHANGED <<regs, ref, oddNow, ca1Level, writes>>

\* Writes after which the code's timer is late, or one of its asserts fails: a
\* new interlace mode at the very tick of an edge, and R7 set to the current
\* row, below its first line, of an interlaced even field.
Mishandled(n, c, r) ==
  \/ n = "mode" /\ (c.raisedNow \/ c.loweredNow)
  \/ n = "r7" /\ Interlace(r) /\ ~c.oddFrame /\ c.vc = r.r7 /\ (c.sc > 0 \/ c.hc >= HalfR0(r))

\* video_crtc_write_value for a register that shapes the frame.
Rearm(c, r) ==
  /\ crtc' = c
  /\ timer' = TimerValue(c, r) /\ fire' = TimerMode(c, r)
  /\ failed' = (failed \/ ~TimerAsserts(c, r))

WriteFraming(n, v) ==
  LET r == [regs EXCEPT ![n] = Masked(n, v)]
  IN  /\ ~Due /\ writes < MaxWrites 
      /\ Careful => ~Mishandled(n, Now, r)
      /\ regs' = r
      /\ Rearm(Written(Now, n, r, oddNow), r)
      /\ ref' = Written(Advance(ref, regs, 0, oddNow), n, r, oddNow)
      /\ behind' = 0 /\ writes' = writes + 1
      /\ UNCHANGED <<oddNow, ca1Level, waited>>

\* R12 and R13: the picture's address, no part of the frame.
WriteStart(v) ==
  /\ ~Due /\ writes < MaxWrites 
  /\ regs' = [regs EXCEPT !.start = v]
  /\ crtc' = [(IF crtc.active THEN Now ELSE crtc) EXCEPT !.whole = FALSE]
  /\ behind' = IF crtc.active THEN 0 ELSE behind
  /\ writes' = writes + 1
  /\ UNCHANGED <<ref, oddNow, timer, fire, ca1Level, waited, failed>>

\* video_ula_write_ctrl: the clock changes, the teletext bit changes, or both.
UlaWriteCtrl(clock, teletextChanged) ==
  LET r == [regs EXCEPT !.clock = clock]
      advances == crtc.active \/ clock /= regs.clock
  IN  /\ ~Due /\ writes < MaxWrites /\ <<"clock", clock>> \in Writes[regs.plan]
      /\ clock /= regs.clock \/ teletextChanged
      /\ Careful => advances \/ behind = 0
      /\ regs' = r
      /\ Rearm(IF advances THEN Now ELSE crtc, r)
      /\ behind' = IF advances THEN 0 ELSE behind
      /\ writes' = writes + 1
      /\ UNCHANGED <<ref, oddNow, ca1Level, waited>>

\* What runs the chip up to now without changing it: a light pen pulse, the
\* debugger, and, while rendering, a write to the screen, the palette or IC32.
CatchUp ==
  /\ ~Due /\ behind > 0
  /\ crtc.active \/ <<"pen", 0>> \in Writes[regs.plan]
  /\ crtc' = Now /\ behind' = 0 /\ fire' = Bounced(fire)
  /\ UNCHANGED <<regs, ref, oddNow, timer, ca1Level, waited, writes, failed>>

\* The system VIA's PCR, whose callback comes after the VIA has the new value.
WritePCR(level) ==
  LET r == [regs EXCEPT !.edge = level]
  IN  /\ ~Due /\ writes < MaxWrites /\ <<"edge", level>> \in Writes[regs.plan]
      /\ Careful => fire /= "jumpFrame"
      /\ regs' = r /\ ca1Level' = level
      /\ crtc' = Advance(crtc, r, behind, oddNow)
      /\ behind' = 0 /\ fire' = Bounced(fire) /\ writes' = writes + 1
      /\ UNCHANGED <<ref, oddNow, timer, waited, failed>>

\* The 6502 clears the VIA's flag.
ClearInterrupt ==
  /\ ~Due /\ crtc.irq /\ <<"clear", 0>> \in Writes[regs.plan]
  /\ crtc' = [crtc EXCEPT !.irq = FALSE] /\ ref' = [ref EXCEPT !.irq = FALSE]
  /\ UNCHANGED <<regs, behind, oddNow, timer, fire, ca1Level, waited, writes, failed>>

\* video_apply_wall_time_delta: a wall clock VSYNC; and 100000 ticks later.
WallVsync ==
  /\ ~Due /\ regs.heard /\ ~crtc.wallHit
  /\ crtc' = [crtc EXCEPT !.wallHit = TRUE]
  /\ UNCHANGED <<regs, ref, behind, oddNow, timer, fire, ca1Level, waited, writes, failed>>
LongWait ==
  /\ ~Due /\ crtc.wallHit /\ ~crtc.active /\ ~waited
  /\ waited' = TRUE
  /\ UNCHANGED <<regs, crtc, ref, behind, oddNow, timer, fire, ca1Level, writes, failed>>

ToggleFast ==
  /\ ~Due /\ regs.heard /\ writes < MaxWrites
  /\ regs' = [regs EXCEPT !.fast = ~@] /\ writes' = writes + 1
  /\ UNCHANGED <<crtc, ref, behind, oddNow, timer, fire, ca1Level, waited, failed>>

PowerOnReset ==
  /\ ~Due /\ writes < MaxWrites /\ <<"reset", 0>> \in Writes[regs.plan]
  /\ \E r \in Setups : /\ r.plan = regs.plan
                        /\ regs' = [r EXCEPT !.edge = 0, !.fast = regs.fast]
                        /\ timer' = TimerValue(Chip0, r)
  /\ crtc' = Chip0 /\ ref' = Chip0 /\ behind' = 0 /\ oddNow' = 0
  /\ fire' = "null" /\ ca1Level' = -1 /\ waited' = FALSE /\ writes' = writes + 1
  /\ UNCHANGED failed

Next ==
  \/ PassTick \/ JumpRaise \/ JumpLower \/ JumpFrame \/ AdvanceAndRearm
  \/ CatchUp \/ ClearInterrupt \/ WallVsync \/ LongWait \/ ToggleFast \/ PowerOnReset
  \/ \E w \in Writes[regs.plan] : w[1] \in Framing /\ WriteFraming(w[1], w[2])
  \/ \E w \in Writes[regs.plan] : w[1] = "start" /\ WriteStart(w[2])
  \/ \E clock \in 1..2, t \in BOOLEAN : UlaWriteCtrl(clock, t)
  \/ \E level \in 0..1 : WritePCR(level)

Spec == Init /\ [][Next]_vars

-----------------------------------------------------------------------------
CountsOf(c) ==
  <<c.hc, c.sc, c.vc, c.adj, c.vsyncLines, c.frames, c.oddFrame, c.first, c.adjPending,
    c.inAdj, c.dummy, c.inVsync, c.even, c.odd, c.hadEven, c.hadOdd,
    c.mainEnd, c.adjEnd, c.frameEnd, "vert" \in c.enable>>
\* None of the assertions about expected edges and jumps has failed.
AssertsHold == ~failed

\* A frame displayed from its start with the same registers is fetched row by
\* row from the start address, also when rendering resumed after jumps.
DisplayFollows ==
  crtc.whole /\ SaneFraming(regs) /\ regs.r1 <= regs.r0 /\ crtc.enable = {"horiz", "vert"}
    => crtc.addr = (regs.start + crtc.vc * regs.r1 + crtc.hc) % 16384

\* Whatever shortcut was taken, once the code has caught up its CRTC is the one
\* that ran every tick, none of its own assertions has failed on the way, and
\* the addresses it fetches are those of the row it displays.
JumpsAreExact ==
  AssertsHold /\ DisplayFollows /\ (behind = 0 /\ ~Due => CountsOf(crtc) = CountsOf(ref))

\* The system VIA's interrupt flag is set at the very tick the edge of VSYNC
\* that its PCR asks for happens, however seldom the CRTC is run: the timer is
\* never set for later than that edge.
VsyncOnTime == ~Due => crtc.irq = ref.irq
=============================================================================
