----------------------------- MODULE WdFdcProofs -----------------------------
(***************************************************************************)
(* Proofs about WdFdc: for any drives, any programs of the 6502 and of the   *)
(* user, and counts of any size, the chip's state, timer, busy bit, drives   *)
(* and lines agree, its counts stay in their bounds, a byte lost is          *)
(* reported, and a restore ends at track zero.                               *)
(***************************************************************************)
EXTENDS WdFdc, TLAPS

-----------------------------------------------------------------------------
(* The struct, and what the functions keep of it.                            *)

Bits == {MotorOn, WriteProtected, SpinUpDone, RecordNotFound, CrcError, Track0, Index, Busy}
Timers == {"none", "settle", "seek", "done"}
Failures == {"no", "timer is running", "settled command waits", "drive is spinning", "drive is not spinning"}
Twice == {"drive is spinning", "drive is not spinning"}

Fdcs ==
  [status : SUBSET Bits, track : Registers, sector : Registers, data : Registers,
   intrq : BOOLEAN, drq : BOOLEAN, doRaise : BOOLEAN, reset : BOOLEAN,
   current : Drives \cup {None}, pulse : BOOLEAN, onIndex : BOOLEAN,
   command : AllCommands, type : 0..3, settle : BOOLEAN,
   write : BOOLEAN, verify : BOOLEAN, multi : BOOLEAN,
   state : States, count : Nat, indexCount : Nat,
   timer : Timers, crcSecond : BOOLEAN,
   spinning : [Drives -> BOOLEAN], head : [Drives -> 0..MaxTrack],
   media : [Drives -> Media], failed : Failures]

BusyIn(f) == Busy \in f.status
MotorIn(f) == MotorOn \in f.status
LostIn(f) == LostByte \in f.status
Transfers(f) == f.type \in {2, 3}
Waiting(f) == f.drq /\ Drq \in f.status

Visible(f) == Transfers(f) => (f.drq <=> Drq \in f.status)

\* No drive is touched, and nothing else that only the 6502 or the user changes.
SameDrives(f, g) ==
  /\ g.current = f.current /\ g.spinning = f.spinning /\ g.media = f.media /\ g.reset = f.reset
  /\ MotorIn(g) <=> MotorIn(f)
  /\ BusyIn(g) <=> BusyIn(f)
  /\ g.type = f.type /\ g.command = f.command /\ g.write = f.write /\ g.pulse = f.pulse
  /\ g.failed \in Twice => g.failed = f.failed

\* Of a transfer: what waits goes on waiting, what was lost stays reported, and what
\* is put in the place of a byte that waits is reported.
Honest(f, g) ==
  Transfers(f) =>
    /\ Visible(f) => Visible(g)
    /\ LostIn(f) => LostIn(g)
    /\ Waiting(f) => Waiting(g) /\ (g.data # f.data => LostIn(g))

Kept(f, g) == g \in Fdcs /\ SameDrives(f, g) /\ Honest(f, g)

\* The head is where it was, and the track register too.
Still(f, g) == g.head = f.head /\ g.track = f.track
\* A command is as far as it was.
Place(f, g) == g.state = f.state /\ g.count = f.count /\ g.timer = f.timer
Counts(f, g) == g.indexCount = f.indexCount /\ g.crcSecond = f.crcSecond

\* Of the bits only two pairs share a number.
LEMMA BitsDiffer ==
  /\ Bits \subseteq Int /\ {MotorOn, Busy, Drq, LostByte, CrcError, DeletedMark, RecordNotFound, Index, Track0,
       WriteProtected, SpinUpDone} = Bits
  /\ Busy # MotorOn
  /\ {CrcError, DeletedMark, RecordNotFound, WriteProtected, SpinUpDone} \cap {Busy, MotorOn, Drq, LostByte} = {}
  /\ {Drq, LostByte, Index, Track0} \cap {Busy, MotorOn} = {}
  /\ Drq # LostByte
BY DEF Bits, MotorOn, Busy, Drq, LostByte, CrcError, DeletedMark, RecordNotFound, Index, Track0,
       WriteProtected, SpinUpDone

\* What is kept by one function and then by another is kept by both.
LEMMA KeptTwice ==
  ASSUME NEW f, NEW g, NEW h, Kept(f, g), Kept(g, h)
  PROVE  Kept(f, h)
BY DEF Kept, SameDrives, Honest, Transfers

\* A new state begins with a count of zero (wd_fdc_set_state, wd_fdc.c).
LEMMA SetStateKeeps ==
  ASSUME NEW f \in Fdcs, NEW s \in States
  PROVE  LET g == SetState(f, s)
         IN  /\ Kept(f, g) /\ Still(f, g) /\ Counts(f, g)
             /\ g.state = s /\ g.count = 0 /\ g.timer = f.timer
             /\ g.data = f.data /\ g.status = f.status
<1> DEFINE g == SetState(f, s)
<1>1. g \in Fdcs BY DEF SetState, Fdcs
<1> QED BY <1>1 DEF SetState, Fdcs, Kept, Still, Counts, SameDrives, Honest, Visible, Transfers, Waiting, BusyIn, MotorIn, LostIn

\* A bit of the status changes nothing else, if it is neither the busy nor the motor bit.
LEMMA WithBitKeeps ==
  ASSUME NEW f \in Fdcs, NEW bit \in Bits, NEW on \in BOOLEAN, bit \notin {Busy, MotorOn},
         Transfers(f) => bit # Drq /\ (bit = LostByte => on)
  PROVE  LET g == WithBit(f, bit, on)
         IN  /\ Kept(f, g) /\ Still(f, g) /\ Counts(f, g) /\ Place(f, g)
             /\ g.data = f.data
             /\ (on /\ bit = LostByte => LostIn(g))
<1> DEFINE g == WithBit(f, bit, on)
           status == IF on THEN f.status \cup {bit} ELSE f.status \ {bit}
<1>1. status \in SUBSET Bits BY DEF Fdcs
<1>2. g = [f EXCEPT !.status = status] BY DEF WithBit
<1>3. (MotorOn \in status <=> MotorOn \in f.status) /\ (Busy \in status <=> Busy \in f.status) OBVIOUS
<1>4. Transfers(f) => (Drq \in status <=> Drq \in f.status) /\ (LostByte \in f.status => LostByte \in status)
  OBVIOUS
<1>5. on /\ bit = LostByte => LostByte \in status OBVIOUS
<1> HIDE DEF status
<1>6. g \in Fdcs BY <1>1, <1>2 DEF Fdcs
<1> QED
  BY <1>2, <1>3, <1>4, <1>5, <1>6
  DEF Fdcs, Kept, Still, Counts, Place, SameDrives, Honest, Visible, Transfers, Waiting, BusyIn, MotorIn, LostIn

\* The type I bits are the index and track zero sensors, after a type I command only.
LEMMA UpdateTypeIBitsKeeps ==
  ASSUME NEW f \in Fdcs, NEW pulse \in BOOLEAN
  PROVE  LET g == UpdateTypeIBits(f, pulse)
         IN  /\ Kept(f, g) /\ Still(f, g) /\ Counts(f, g) /\ Place(f, g)
             /\ g.data = f.data
<1> DEFINE on == f.head[f.current] = 0
           h == WithBit(f, Track0, on)
           g == WithBit(h, Index, pulse)
<1>0. Track0 \in Bits \ {Busy, MotorOn} /\ Index \in Bits \ {Busy, MotorOn} /\ on \in BOOLEAN BY BitsDiffer
<1>00. UpdateTypeIBits(f, pulse) = IF f.type = 1 THEN g ELSE f BY DEF UpdateTypeIBits
<1> HIDE DEF on
<1>1. CASE f.type = 1
  <2>1. /\ Kept(f, h) /\ Still(f, h) /\ Counts(f, h) /\ Place(f, h)
        /\ h.data = f.data
    BY <1>0, <1>1, WithBitKeeps DEF Transfers
  <2>2. h \in Fdcs /\ h.type = 1 BY <1>1, <2>1 DEF Kept, SameDrives
  <2> HIDE DEF h
  <2>3. /\ Kept(h, g) /\ Still(h, g) /\ Counts(h, g) /\ Place(h, g)
        /\ g.data = h.data
    BY <1>0, <2>2, WithBitKeeps DEF Transfers
  <2>4. UpdateTypeIBits(f, pulse) = g BY <1>1, <1>00 DEF h
  <2> HIDE DEF g
  <2> QED BY <2>1, <2>3, <2>4, KeptTwice DEF Still, Counts, Place
<1>2. CASE f.type # 1
  BY <1>2 DEF UpdateTypeIBits, Kept, Still, Counts, Place, SameDrives, Honest
<1> QED BY <1>1, <1>2

\* A timer is started once: a second start only stops the program.
LEMMA StartTimerKeeps ==
  ASSUME NEW f \in Fdcs, NEW kind \in Timers \ {"none"}
  PROVE  LET g == StartTimer(f, kind)
         IN  /\ Kept(f, g) /\ Still(f, g) /\ Counts(f, g)
             /\ g.count = f.count /\ g.data = f.data
             /\ f.timer = "none" => g.timer = kind /\ g.state = "timer_wait"
             /\ f.timer # "none" => g.timer = f.timer /\ g.state = f.state
<1> DEFINE failed == IF f.failed = "no" THEN "timer is running" ELSE f.failed
           g == IF f.timer # "none" THEN [f EXCEPT !.failed = failed]
                ELSE [f EXCEPT !.timer = kind, !.state = "timer_wait"]
<1>1. StartTimer(f, kind) = g BY DEF StartTimer, Fail
<1>2. failed \in Failures /\ (failed \in Twice => failed = f.failed) BY DEF Fdcs, Failures, Twice
<1>3. "timer_wait" \in States BY DEF States
<1> HIDE DEF failed
<1>4. g \in Fdcs BY <1>2, <1>3 DEF Fdcs
<1> QED
  BY <1>1, <1>2, <1>4
  DEF Fdcs, Kept, Still, Counts, SameDrives, Honest, Visible, Transfers, Waiting, BusyIn, MotorIn, LostIn

\* A command is done once its timer has run.
LEMMA CommandDoneKeeps ==
  ASSUME NEW f \in Fdcs, NEW raise \in BOOLEAN
  PROVE  LET g == CommandDone(f, raise)
         IN  /\ Kept(f, g) /\ Still(f, g) /\ Counts(f, g)
             /\ g.count = f.count /\ g.data = f.data
             /\ f.timer = "none" => g.timer = "done" /\ g.state = "timer_wait"
             /\ f.timer # "none" => g.timer = f.timer /\ g.state = f.state
<1> DEFINE h == [f EXCEPT !.doRaise = raise]
<1>1. h \in Fdcs BY DEF Fdcs
<1>2. /\ Kept(f, h) /\ Still(f, h) /\ Counts(f, h) /\ Place(f, h)
      /\ h.data = f.data
  BY <1>1 DEF Fdcs, Kept, Still, Counts, Place, SameDrives, Honest, Visible, Transfers, Waiting, BusyIn, MotorIn, LostIn
<1>3. CommandDone(f, raise) = StartTimer(h, "done") BY DEF CommandDone
<1> HIDE DEF h
<1>4. "done" \in Timers \ {"none"} BY DEF Timers
<1> DEFINE g == StartTimer(h, "done")
<1>5. /\ Kept(h, g) /\ Still(h, g) /\ Counts(h, g)
      /\ g.count = h.count /\ g.data = h.data
      /\ h.timer = "none" => g.timer = "done" /\ g.state = "timer_wait"
      /\ h.timer # "none" => g.timer = h.timer /\ g.state = h.state
  BY <1>1, <1>4, StartTimerKeeps
<1> HIDE DEF g
<1> QED BY <1>2, <1>3, <1>5, KeptTwice DEF Still, Counts, Place, g

\* Another byte while one is waiting is a byte lost.
LEMMA SetDrqKeeps ==
  ASSUME NEW f \in Fdcs
  PROVE  LET g == SetDrq(f, TRUE)
         IN  /\ Kept(f, g) /\ Still(f, g) /\ Counts(f, g) /\ Place(f, g)
             /\ g.data = f.data
             /\ (Transfers(f) /\ Waiting(f) => LostIn(g))
<1> DEFINE g == SetDrq(f, TRUE)
           status == f.status \cup {Drq} \cup (IF Drq \in f.status THEN {LostByte} ELSE {})
<1>0. {Drq, LostByte} \subseteq Bits \ {Busy, MotorOn} BY BitsDiffer
<1>1. status \in SUBSET Bits BY <1>0 DEF Fdcs
<1>2. g = [f EXCEPT !.drq = TRUE, !.status = status] BY DEF SetDrq
<1>3. (MotorOn \in status <=> MotorOn \in f.status) /\ (Busy \in status <=> Busy \in f.status) BY <1>0
<1>4. Drq \in status /\ (LostByte \in f.status => LostByte \in status) /\ (Drq \in f.status => LostByte \in status)
  OBVIOUS
<1> HIDE DEF status
<1>6. g \in Fdcs BY <1>1, <1>2 DEF Fdcs
<1> QED
  BY <1>2, <1>3, <1>4, <1>6
  DEF Fdcs, Kept, Still, Counts, Place, SameDrives, Honest, Visible, Transfers, Waiting, BusyIn, MotorIn, LostIn

\* A byte for the 6502 takes the place of one it did not take only if that is reported.
LEMMA SendDataToHostKeeps ==
  ASSUME NEW f \in Fdcs, NEW byte \in Registers
  PROVE  LET g == SendDataToHost(f, byte)
         IN  /\ Kept(f, g) /\ Still(f, g) /\ Counts(f, g) /\ Place(f, g)
            
<1> DEFINE h == SetDrq(f, TRUE)
           g == [h EXCEPT !.data = byte]
<1>1. /\ Kept(f, h) /\ Still(f, h) /\ Counts(f, h) /\ Place(f, h)
      /\ h.data = f.data
      /\ (Transfers(f) /\ Waiting(f) => LostIn(h))
  BY SetDrqKeeps
<1>2. SendDataToHost(f, byte) = g BY DEF SendDataToHost
<1>3. h \in Fdcs BY <1>1 DEF Kept
<1> HIDE DEF h
<1>4. g \in Fdcs BY <1>3 DEF Fdcs
<1>5. /\ g.data = byte /\ g.status = h.status /\ g.drq = h.drq /\ g.type = h.type
      /\ SameDrives(h, g) /\ Still(h, g) /\ Counts(h, g) /\ Place(h, g)
  BY <1>3 DEF Fdcs, SameDrives, Still, Counts, Place, BusyIn, MotorIn
<1> HIDE DEF g
<1>6. SameDrives(f, g) /\ Still(f, g) /\ Counts(f, g) /\ Place(f, g)
  BY <1>1, <1>5 DEF Kept, SameDrives, Still, Counts, Place
<1>7. Honest(f, g) BY <1>1, <1>5 DEF Kept, Honest, SameDrives, Visible, Transfers, Waiting, LostIn
<1> QED BY <1>1, <1>2, <1>4, <1>5, <1>6, <1>7 DEF Kept

-----------------------------------------------------------------------------
(* Commands: seeking, verifying, and what they begin with.                   *)

\* The track register says how far a restore's head may be from track zero.
Approaches(f) == f.command = "restore" => f.data = 0 /\ f.head[f.current] <= f.track

\* A restore that is not interrupted is at track zero, or on its way to it.
Homing(f) ==
  /\ f.timer = "seek" => Approaches(f)
  /\ /\ f.command = "restore" /\ f.state \notin {"idle", "spin_up_wait"}
     /\ f.timer \notin {"seek", "settle"} /\ (f.timer = "done" => f.doRaise)
     => f.head[f.current] = 0 /\ f.track = 0

\* A command waits for its timer, or for the bytes of the disc, from none on.
Begun(f, g) ==
  /\ Kept(f, g) /\ g.crcSecond = f.crcSecond
  /\ \/ g.state = "timer_wait" /\ g.timer \in {"seek", "done"} /\ g.indexCount = f.indexCount /\ g.count = f.count
     \/ /\ g.state \in {"search_id", "wait_index", "write_track_setup"} /\ g.timer = "none"
        /\ g.indexCount = 0 /\ g.count = 0

\* The command's parameters are those of its code.
Issued(f) == f.type = CommandType(f.command) /\ f.write = (f.command \in Writes)

\* A seek that has arrived reads a header to verify it, or is done.
LEMMA CheckVerifyBegins ==
  ASSUME NEW f \in Fdcs, f.timer = "none"
  PROVE  LET g == CheckVerify(f)
         IN  /\ Begun(f, g) /\ Still(f, g) /\ g.data = f.data
             /\ g.timer # "seek"
<1> DEFINE e == [f EXCEPT !.indexCount = 0]
<1>1. CASE f.verify
  <2>1. e \in Fdcs /\ Kept(f, e) /\ Still(f, e) /\ Place(f, e) /\ e.data = f.data /\ e.indexCount = 0 /\ e.crcSecond = f.crcSecond
    BY DEF Fdcs, Kept, Still, Place, SameDrives, Honest, Visible, Transfers, Waiting, BusyIn, MotorIn, LostIn
  <2>2. CheckVerify(f) = SetState(e, "search_id") BY <1>1 DEF CheckVerify
  <2> HIDE DEF e
  <2>3. "search_id" \in States BY DEF States
  <2> DEFINE g == SetState(e, "search_id")
  <2>4. /\ Kept(e, g) /\ Still(e, g) /\ Counts(e, g) /\ g.state = "search_id" /\ g.count = 0 /\ g.timer = e.timer
        /\ g.data = e.data
    BY <2>1, <2>3, SetStateKeeps
  <2> HIDE DEF g
  <2> QED BY <2>1, <2>2, <2>4, KeptTwice DEF g, Begun, Still, Counts, Place
<1>2. CASE ~f.verify
  <2>1. CheckVerify(f) = CommandDone(f, TRUE) BY <1>2 DEF CheckVerify
  <2> QED BY <2>1, CommandDoneKeeps DEF Begun, Counts
<1> QED BY <1>1, <1>2

\* A step stays on the disc, and is one track towards zero when there is one.
LEMMA StepIsOnDisc ==
  ASSUME NEW track \in 0..MaxTrack, NEW direction \in {-1, 1}
  PROVE  /\ Step(track, direction) \in 0..MaxTrack
         /\ direction = -1 /\ track > 0 => Step(track, direction) = track - 1
BY WdAssumption DEF WdAssumption, Step

\* A byte register wraps, but not on its way down to zero.
LEMMA RegistersWrap ==
  ASSUME NEW x \in Registers, NEW direction \in {-1, 1}
  PROVE  /\ (x + direction) % RegMod \in Registers
         /\ x > 0 => (x - 1) % RegMod = x - 1
<1>1. RegMod \in Nat \ {0} BY WdAssumption DEF WdAssumption
<1>2. x + direction \in Int BY <1>1 DEF Registers
<1> QED BY <1>1, <1>2 DEF Registers

\* A step moves the head, the track register if asked to, and starts the timer.
LEMMA DoSeekStepBegins ==
  ASSUME NEW f \in Fdcs, f.timer = "none", f.current \in Drives, NEW direction \in {-1, 1}, NEW update \in BOOLEAN,
         NEW pulse \in BOOLEAN, f.type = 1
  PROVE  LET g == DoSeekStep(f, direction, update, pulse)
         IN  /\ Begun(f, g) /\ g.data = f.data /\ g.timer = "seek"
             /\ g.head[f.current] = Step(f.head[f.current], direction)
             /\ g.track = IF update THEN (f.track + direction) % RegMod ELSE f.track
<1> DEFINE at == Step(f.head[f.current], direction)
           track == IF update THEN (f.track + direction) % RegMod ELSE f.track
           e == [f EXCEPT !.head[f.current] = at, !.track = track]
           u == UpdateTypeIBits(e, pulse)
           g == StartTimer(u, "seek")
<1>1. at \in 0..MaxTrack BY StepIsOnDisc DEF Fdcs
<1>2. track \in Registers BY RegistersWrap DEF Fdcs
<1>3. DoSeekStep(f, direction, update, pulse) = g BY DEF DoSeekStep
<1> HIDE DEF at, track
<1>4. e \in Fdcs BY <1>1, <1>2 DEF Fdcs
<1>5. Kept(f, e) /\ Place(f, e) /\ Counts(f, e) /\ e.data = f.data /\ e.track = track /\ e.head[f.current] = at
  BY <1>4 DEF Fdcs, Kept, Counts, Place, SameDrives, Honest, Visible, Transfers, Waiting, BusyIn, MotorIn, LostIn
<1> HIDE DEF e
<1>6. Kept(e, u) /\ Still(e, u) /\ Counts(e, u) /\ Place(e, u) /\ u.data = e.data BY <1>4, UpdateTypeIBitsKeeps
<1>7. u \in Fdcs BY <1>6 DEF Kept
<1> HIDE DEF u
<1>8. "seek" \in Timers \ {"none"} BY DEF Timers
<1>9. /\ Kept(u, g) /\ Still(u, g) /\ Counts(u, g) /\ g.count = u.count /\ g.data = u.data
      /\ u.timer = "none" => g.timer = "seek" /\ g.state = "timer_wait"
  BY <1>7, <1>8, StartTimerKeeps
<1> HIDE DEF g
<1>10. Kept(f, g) BY <1>5, <1>6, <1>9, KeptTwice
<1> QED BY <1>3, <1>5, <1>6, <1>9, <1>10 DEF Begun, Counts, Place, Still, at, track

\* A seek steps on, or has arrived; a restore arrives at track zero only.
LEMMA DoSeekStepOrVerifyBegins ==
  ASSUME NEW f \in Fdcs, f.timer = "none", f.current \in Drives, NEW pulse \in BOOLEAN, f.type = 1
  PROVE  LET g == DoSeekStepOrVerify(f, pulse) IN Begun(f, g) /\ (Approaches(f) => Homing(g))
<1> DEFINE direction == IF f.track > f.data THEN -1 ELSE 1
           z == [f EXCEPT !.track = 0]
<1>0. f.track \in Registers /\ f.data \in Registers /\ f.head[f.current] \in 0..MaxTrack /\ 0 \in Registers
     /\ f.track \in Nat /\ f.data \in Nat /\ f.head[f.current] \in Nat
  BY WdAssumption DEF Fdcs, Registers, WdAssumption
<1>1. CASE f.track = f.data
  <2>1. DoSeekStepOrVerify(f, pulse) = CheckVerify(f) BY <1>1 DEF DoSeekStepOrVerify
  <2> DEFINE g == CheckVerify(f)
  <2>2. Begun(f, g) /\ Still(f, g) /\ g.timer # "seek" BY CheckVerifyBegins
  <2>3. Approaches(f) /\ f.command = "restore" => f.head[f.current] = 0 /\ f.track = 0 BY <1>0, <1>1 DEF Approaches
  <2> HIDE DEF g
  <2> QED BY <2>1, <2>2, <2>3 DEF g, Homing, Still, Begun, Kept, SameDrives
<1>2. CASE f.track # f.data /\ f.head[f.current] = 0 /\ direction = -1
  <2>1. DoSeekStepOrVerify(f, pulse) = CheckVerify(z) BY <1>2 DEF DoSeekStepOrVerify
  <2>2. z \in Fdcs BY <1>0 DEF Fdcs
  <2>3. Kept(f, z) /\ Place(f, z) /\ Counts(f, z) /\ z.head = f.head /\ z.track = 0
    BY <2>2 DEF Fdcs, Kept, Counts, Place, SameDrives, Honest, Visible, Transfers, Waiting, BusyIn, MotorIn, LostIn
  <2> HIDE DEF z
  <2> DEFINE g == CheckVerify(z)
  <2>4. Begun(z, g) /\ Still(z, g) /\ g.timer # "seek" BY <2>2, <2>3, CheckVerifyBegins DEF Place
  <2> HIDE DEF g
  <2>5. Begun(f, g) BY <2>3, <2>4, KeptTwice DEF Begun, Counts, Place
  <2>6. Homing(g) BY <1>2, <2>3, <2>4 DEF Homing, Still, Begun, Kept, SameDrives
  <2> QED BY <2>1, <2>5, <2>6 DEF g
<1>3. CASE f.track # f.data /\ ~(f.head[f.current] = 0 /\ direction = -1)
  <2> DEFINE g == DoSeekStep(f, direction, TRUE, pulse)
  <2>1. DoSeekStepOrVerify(f, pulse) = g BY <1>3 DEF DoSeekStepOrVerify
  <2>2. direction \in {-1, 1} OBVIOUS
  <2>3. ASSUME Approaches(f), f.command = "restore" PROVE direction = -1 /\ f.head[f.current] > 0 /\ f.track > 0
    <3>1. f.data = 0 BY <2>3 DEF Approaches
    <3>2. f.track > f.data BY <1>0, <1>3, <3>1
    <3>3. f.head[f.current] # 0 BY <1>3, <3>2
    <3> QED BY <1>0, <3>1, <3>2, <3>3
  <2> HIDE DEF direction
  <2>4. /\ Begun(f, g) /\ g.data = f.data /\ g.timer = "seek"
        /\ g.head[f.current] = Step(f.head[f.current], direction)
        /\ g.track = (f.track + direction) % RegMod
    BY <2>2, DoSeekStepBegins
  <2>5. Approaches(f) /\ f.command = "restore" => g.head[f.current] = f.head[f.current] - 1 /\ g.track = f.track - 1
    <3>1. Approaches(f) /\ f.command = "restore" => Step(f.head[f.current], direction) = f.head[f.current] - 1
      BY <1>0, <2>2, <2>3, StepIsOnDisc
    <3>2. Approaches(f) /\ f.command = "restore" => (f.track + direction) % RegMod = f.track - 1
      BY <1>0, <2>2, <2>3, RegistersWrap
    <3> QED BY <2>4, <3>1, <3>2
  <2> HIDE DEF g
  <2>6. g.command = f.command /\ g.current = f.current BY <2>4 DEF Begun, Kept, SameDrives
  <2>7. Approaches(f) => Homing(g)
    <3>1. ASSUME Approaches(f), f.command = "restore"
          PROVE  g.data = 0 /\ g.head[g.current] <= g.track
      <4>1. f.data = 0 /\ f.head[f.current] <= f.track BY <3>1 DEF Approaches
      <4> QED BY <1>0, <2>4, <2>5, <2>6, <3>1, <4>1
    <3> QED BY <2>4, <2>6, <3>1 DEF Homing, Approaches
  <2> QED BY <2>1, <2>4, <2>7 DEF g
<1> QED BY <1>1, <1>2, <1>3

\* Every command begins where its code says, and a restore on its way to track zero.
LEMMA DispatchBegins ==
  ASSUME NEW f \in Fdcs, f.timer = "none", f.current \in Drives, NEW pulse \in BOOLEAN, Issued(f)
  PROVE  LET g == Dispatch(f, pulse) IN Begun(f, g) /\ Homing(g)
<1> DEFINE g == Dispatch(f, pulse)
           z == [f EXCEPT !.track = RegMod - 1, !.data = 0]
           e == [f EXCEPT !.indexCount = 0]
<1>0. /\ f.command \in AllCommands /\ f.type = CommandType(f.command) /\ f.write = (f.command \in Writes)
      /\ 0 \in Registers /\ RegMod - 1 \in Registers /\ RegMod \in Nat
      /\ f.head[f.current] \in 0..MaxTrack /\ MaxTrack \in Nat /\ MaxTrack <= RegMod - 1
  BY WdAssumption DEF Fdcs, Registers, WdAssumption, Issued
<1>1. CASE f.write /\ f.media[f.current] = "protected"
  <2> DEFINE h == WithBit(f, WriteProtected, TRUE)
             c == CommandDone(h, TRUE)
  <2>1. g = c BY <1>1 DEF Dispatch
  <2>2. WriteProtected \in Bits \ {Busy, MotorOn, Drq, LostByte} BY BitsDiffer
  <2>3. Kept(f, h) /\ Still(f, h) /\ Counts(f, h) /\ Place(f, h) BY <2>2, WithBitKeeps
  <2>4. h \in Fdcs BY <2>3 DEF Kept
  <2> HIDE DEF h
  <2>5. /\ Kept(h, c) /\ Counts(h, c) /\ c.count = h.count
        /\ h.timer = "none" => c.timer = "done" /\ c.state = "timer_wait"
    BY <2>4, CommandDoneKeeps
  <2>6. f.command # "restore" BY <1>0, <1>1 DEF Writes
  <2> HIDE DEF c, g
  <2>7. Begun(f, c) BY <2>3, <2>5, KeptTwice DEF Begun, Counts, Place
  <2>8. Homing(c) BY <2>6, <2>7 DEF Homing, Approaches, Begun, Kept, SameDrives
  <2> QED BY <2>1, <2>7, <2>8 DEF g
<1>2. CASE ~(f.write /\ f.media[f.current] = "protected")
  <2>1. CASE f.command = "restore"
    <3>1. g = DoSeekStepOrVerify(z, pulse) BY <1>2, <2>1 DEF Dispatch
    <3>2. z \in Fdcs BY <1>0 DEF Fdcs
    <3>3. f.type = 1 BY <1>0, <2>1 DEF CommandType, TypeI
    <3>4. Kept(f, z) /\ Place(f, z) /\ Counts(f, z) /\ z.head = f.head /\ z.track = RegMod - 1 /\ z.data = 0
      BY <3>2, <3>3 DEF Fdcs, Kept, Counts, Place, SameDrives, Honest, Visible, Transfers, Waiting, BusyIn, MotorIn, LostIn
    <3> HIDE DEF z
    <3>5. z.type = 1 /\ z.current = f.current /\ z.timer = "none" BY <3>3, <3>4 DEF Kept, SameDrives, Place
    <3>6. z.head[z.current] <= z.track BY <1>0, <3>4, <3>5
    <3> DEFINE h == DoSeekStepOrVerify(z, pulse)
    <3>7. Begun(z, h) /\ Homing(h) BY <3>2, <3>4, <3>5, <3>6, DoSeekStepOrVerifyBegins DEF Approaches
    <3> HIDE DEF h
    <3>8. Begun(f, h) BY <3>4, <3>7, KeptTwice DEF Begun, Counts, Place
    <3> QED BY <3>1, <3>7, <3>8 DEF h
  <2>2. CASE f.command = "seek"
    <3>1. g = DoSeekStepOrVerify(f, pulse) BY <1>2, <2>2 DEF Dispatch
    <3>2. f.type = 1 BY <1>0, <2>2 DEF CommandType, TypeI
    <3> HIDE DEF g
    <3> QED BY <2>2, <3>1, <3>2, DoSeekStepOrVerifyBegins DEF g, Approaches
  <2>3. CASE f.command \in {"step_in", "step_in_update", "step_out", "step_out_update"}
    <3>1. PICK direction \in {-1, 1}, update \in BOOLEAN : g = DoSeekStep(f, direction, update, pulse)
      BY <1>2, <2>3 DEF Dispatch
    <3>2. f.type = 1 BY <1>0, <2>3 DEF CommandType, TypeI
    <3> HIDE DEF g
    <3>3. Begun(f, g) BY <3>1, <3>2, DoSeekStepBegins
    <3>4. Homing(g) BY <2>3, <3>3 DEF Homing, Approaches, Begun, Kept, SameDrives
    <3> QED BY <3>3, <3>4 DEF g
  <2>4. CASE f.command \in {"read_sector", "write_sector", "read_address", "read_track", "write_track"}
    <3>1. PICK s \in {"search_id", "wait_index", "write_track_setup"} : g = SetState(e, s)
      BY <1>2, <2>4 DEF Dispatch
    <3>2. e \in Fdcs /\ Kept(f, e) /\ Place(f, e) /\ e.indexCount = 0 /\ e.crcSecond = f.crcSecond
      BY DEF Fdcs, Kept, Place, SameDrives, Honest, Visible, Transfers, Waiting, BusyIn, MotorIn, LostIn
    <3> HIDE DEF e, g
    <3>3. s \in States BY DEF States
    <3>4. Kept(e, g) /\ Counts(e, g) /\ g.state = s /\ g.count = 0 /\ g.timer = e.timer
      BY <3>1, <3>2, <3>3, SetStateKeeps
    <3>5. Begun(f, g) BY <3>2, <3>4, KeptTwice DEF Begun, Counts, Place
    <3>6. Homing(g) BY <2>4, <3>5 DEF Homing, Approaches, Begun, Kept, SameDrives
    <3> QED BY <3>5, <3>6 DEF g
  <2> QED BY <1>0, <2>1, <2>2, <2>3, <2>4 DEF AllCommands
<1> QED BY <1>1, <1>2

-----------------------------------------------------------------------------
(* The bytes of the disc.                                                    *)

\* A command goes on at a byte, or is done.
Goes(f, g) ==
  /\ Kept(f, g) /\ Still(f, g)
  /\ g.timer = f.timer \/ (f.timer = "none" /\ g.timer = "done")
  /\ g.timer # f.timer => g.state = "timer_wait"

\* Two functions in a row go on, if the first leaves the timer alone.
LEMMA GoesTwice ==
  ASSUME NEW f, NEW g, NEW h, Goes(f, g), Goes(g, h), g.timer = f.timer
  PROVE  Goes(f, h)
BY KeptTwice DEF Goes, Still

\* What keeps everything but the place in the command goes on.
LEMMA KeptGoes ==
  ASSUME NEW f, NEW g, Kept(f, g), Still(f, g), g.timer = f.timer
  PROVE  Goes(f, g)
BY DEF Goes

\* A command goes on by being done.
LEMMA CommandDoneGoes ==
  ASSUME NEW f \in Fdcs, f.timer = "none"
  PROVE  LET g == CommandDone(f, TRUE)
         IN  /\ Goes(f, g) /\ Counts(f, g) /\ g.state = "timer_wait" /\ g.timer = "done" /\ g.count = f.count
BY CommandDoneKeeps DEF Goes

\* A command goes on to another state.
LEMMA SetStateGoes ==
  ASSUME NEW f \in Fdcs, NEW s \in States
  PROVE  LET g == SetState(f, s)
         IN  Goes(f, g) /\ Counts(f, g) /\ g.state = s /\ g.count = 0 /\ g.timer = f.timer
BY SetStateKeeps DEF Goes

\* The bits a command ends with, or reports by the way.
LEMMA WithBitGoes ==
  ASSUME NEW f \in Fdcs, NEW on \in BOOLEAN, NEW bit \in {CrcError, DeletedMark, RecordNotFound, SpinUpDone, LostByte},
         bit = LostByte => on
  PROVE  LET g == WithBit(f, bit, on) IN Goes(f, g) /\ Counts(f, g) /\ Place(f, g)
<1>1. bit \in Bits /\ bit \notin {Busy, MotorOn} /\ bit # Drq
  BY DEF Bits, MotorOn, Busy, Drq, LostByte, CrcError, DeletedMark, RecordNotFound, Index, Track0,
         WriteProtected, SpinUpDone
<1> QED BY <1>1, WithBitKeeps DEF Goes, Place

\* A command goes on by asking for a byte.
LEMMA SetDrqGoes ==
  ASSUME NEW f \in Fdcs
  PROVE  LET g == SetDrq(f, TRUE) IN Goes(f, g) /\ Counts(f, g) /\ Place(f, g)
BY SetDrqKeeps DEF Goes, Place

\* A command goes on by sending a byte.
LEMMA SendDataToHostGoes ==
  ASSUME NEW f \in Fdcs, NEW byte \in Registers
  PROVE  LET g == SendDataToHost(f, byte) IN Goes(f, g) /\ Counts(f, g) /\ Place(f, g)
BY SendDataToHostKeeps DEF Goes, Place

\* A byte is counted.
LEMMA CountedGoes ==
  ASSUME NEW f \in Fdcs, NEW n \in Nat
  PROVE  LET g == [f EXCEPT !.count = n]
         IN  Goes(f, g) /\ Counts(f, g) /\ g.state = f.state /\ g.timer = f.timer /\ g.count = n
BY DEF Goes, Fdcs, Kept, Still, Counts, SameDrives, Honest, Visible, Transfers, Waiting, BusyIn, MotorIn, LostIn

\* How many bytes have passed in a state, and how many index pulses: n is their
\* number, second whether a CRC byte is to follow.
FitsAt(state, count, n, second) ==
  /\ count <= MaxCount /\ n <= IndexBound + MaxCount
  /\ state \in ReadStates \cup {"spin_up_wait", "done"} => n <= SpinUpPulses
  /\ state = "wait_index" => n = 0
  /\ state = "idle" => n <= SpinDownPulses + 1
  /\ state = "in_id" => count < IdBytes
  /\ state = "search_data" => count < MarkLast
  /\ state = "in_data" => count <= SectorBytes + 2
  /\ state = "write_sector_delay" => count < DelayEnd /\ n <= IF count = 0 THEN SpinUpPulses ELSE count
  /\ state = "write_sector_lead_in" => count < LeadIn /\ n <= DelayEnd + count
  /\ state = "write_sector_body" => count <= SectorBytes + 2 /\ n <= DelayEnd + LeadIn + count
  /\ state = "check_multi" => count <= 1 /\ n <= SpinUpPulses + DelayEnd + LeadIn + SectorBytes + 3
  /\ state = "write_track_setup" => count <= 3 /\ n <= count
  /\ state = "in_write_track" =>
       count <= 1 /\ n <= IF count = 1 THEN 6 ELSE IF second THEN 4 ELSE 5

After(n, edge) == IF edge THEN n + 1 ELSE n

\* What a byte leads to, before its index pulse is counted.
Leads(f, g, edge) ==
  /\ Goes(f, g)
  /\ g.state # "idle" /\ (g.timer # "none" <=> g.state = "timer_wait")
  /\ g.state # "spin_up_wait"
  /\ FitsAt(g.state, g.count, After(g.indexCount, edge), g.crcSecond)

\* A byte comes to a command in a state.
At(f, state, edge) ==
  /\ f \in Fdcs /\ f.state = state /\ f.timer = "none"
  /\ FitsAt(state, f.count, f.indexCount, f.crcSecond)
  /\ edge \in BOOLEAN

\* What is assumed of the sizes, as the provers use it.
LEMMA Sizes ==
  /\ {RegMod, MaxTrack, SpinUpPulses, SpinDownPulses, IdBytes, MarkFirst, MarkLast, SectorBytes, DelayLost,
      DelayEnd, LeadIn, IndexBound, MaxCount} \subseteq Nat
  /\ SpinUpPulses >= 1 /\ SpinDownPulses >= 1 /\ IdBytes >= 1 /\ SectorBytes >= 1 /\ LeadIn >= 1
  /\ MarkFirst + 1 < MarkLast /\ 1 < DelayLost /\ DelayLost + 1 < DelayEnd
  /\ IndexBound >= SpinDownPulses /\ IndexBound >= SpinUpPulses
  /\ MaxCount = IdBytes + MarkLast + SectorBytes + DelayEnd + LeadIn + 4
BY WdAssumption DEF WdAssumption, MaxCount

\* A command that ends leaves its counts where they are.
LEMMA Ends ==
  ASSUME NEW f \in Fdcs, NEW edge \in BOOLEAN, f.timer = "none",
         f.count <= MaxCount, f.indexCount < IndexBound + MaxCount
  PROVE  Leads(f, CommandDone(f, TRUE), edge)
<1> DEFINE g == CommandDone(f, TRUE)
<1>1. Goes(f, g) /\ Counts(f, g) /\ g.state = "timer_wait" /\ g.timer = "done" /\ g.count = f.count
  BY CommandDoneGoes
<1> HIDE DEF g
<1>2. f.indexCount \in Nat BY DEF Fdcs
<1>3. After(g.indexCount, edge) <= IndexBound + MaxCount BY <1>1, <1>2, Sizes DEF After, Counts
<1>4. FitsAt("timer_wait", g.count, After(g.indexCount, edge), g.crcSecond)
  BY <1>1, <1>3 DEF FitsAt, ReadStates
<1> QED BY <1>1, <1>4 DEF Leads, g

\* The next state begins with a count of zero.
LEMMA Enters ==
  ASSUME NEW f \in Fdcs, NEW edge \in BOOLEAN, NEW s \in States \ {"idle", "timer_wait", "spin_up_wait"}, f.timer = "none",
         FitsAt(s, 0, After(f.indexCount, edge), f.crcSecond)
  PROVE  Leads(f, SetState(f, s), edge)
BY SetStateGoes DEF Leads, Counts

\* What goes on without its timer leads where its successor leads.
LEMMA LeadsTwice ==
  ASSUME NEW f, NEW g, NEW h, NEW edge, Goes(f, g), g.timer = f.timer, Leads(g, h, edge)
  PROVE  Leads(f, h, edge)
BY GoesTwice DEF Leads


\* What a byte that is read leads to, whatever the count of index pulses.
Reads(f, g) ==
  /\ Goes(f, g) /\ Counts(f, g)
  /\ g.timer # "none" <=> g.state = "timer_wait"
  /\ g.state \in ReadStates \cup {"write_sector_delay", "check_multi", "done", "timer_wait"}
  /\ g.count <= MaxCount
  /\ g.state = "in_id" => g.count < IdBytes
  /\ g.state = "search_data" => g.count < MarkLast
  /\ g.state = "in_data" => g.count <= SectorBytes + 2
  /\ g.state \in {"write_sector_delay", "check_multi"} => g.count = 0

\* A byte that is read, counted or not, may end the command or go on to a state.
LEMMA ReadEnds ==
  ASSUME NEW f \in Fdcs, f.timer = "none", f.count <= MaxCount
  PROVE  Reads(f, CommandDone(f, TRUE))
BY CommandDoneGoes DEF Reads, ReadStates

\* A byte that is read leads to another state.
LEMMA ReadEnters ==
  ASSUME NEW f \in Fdcs, f.timer = "none",
         NEW s \in {"search_id", "in_id", "search_data", "in_data", "in_read_track", "write_sector_delay", "check_multi", "done"}
  PROVE  Reads(f, SetState(f, s))
<1>1. s \in States BY DEF States
<1> DEFINE g == SetState(f, s)
<1>2. Goes(f, g) /\ Counts(f, g) /\ g.state = s /\ g.count = 0 /\ g.timer = f.timer BY <1>1, SetStateGoes
<1> HIDE DEF g
<1> QED BY <1>2, Sizes DEF g, Reads, ReadStates

\* What goes on in place reads as its successor does.
LEMMA ReadsTwice ==
  ASSUME NEW f, NEW g, NEW h, Goes(f, g), Counts(f, g), g.timer = f.timer, Reads(g, h)
  PROVE  Reads(f, h)
BY GoesTwice DEF Reads, Counts

\* The bytes that are read are a register's.
LEMMA BytesAreRegisters ==
  ASSUME program \in Programs
  PROVE  program.bytes \subseteq Registers
BY WdAssumption DEF WdAssumption, Registers

\* A mark begins a header, other bytes are passed over.
LEMMA SearchIdReads ==
  ASSUME NEW f, NEW edge, At(f, "search_id", edge), NEW g \in SearchId(f)
  PROVE  Reads(f, g)
<1>1. f \in Fdcs /\ f.timer = "none" /\ f.state = "search_id" /\ f.count <= MaxCount BY DEF At, FitsAt
<1>2. Reads(f, f)
  <2>1. Kept(f, f) BY <1>1 DEF Kept, SameDrives, Honest
  <2> QED BY <1>1, <2>1 DEF Reads, Goes, Still, Counts, ReadStates
<1>3. Reads(f, SetState(f, "in_id")) BY <1>1, ReadEnters
<1> QED BY <1>2, <1>3 DEF SearchId

\* The bytes of a header are counted; the last one decides.
LEMMA InIdReads ==
  ASSUME NEW f, NEW edge, At(f, "in_id", edge), NEW g \in InId(f), program \in Programs
  PROVE  Reads(f, g)
<1> DEFINE e == [f EXCEPT !.count = @ + 1]
           n == f.count + 1
           stored(byte) == IF f.count = 0 THEN [e EXCEPT !.sector = byte] ELSE e
           sent == {SendDataToHost(stored(byte), byte) : byte \in program.bytes}
           got == IF f.command = "read_address" THEN sent ELSE {e}
           ended(bad) == {SetState(WithBit(h, CrcError, bad), "done") : h \in got}
<1>0. InId(f) = IF e.count # IdBytes THEN got
                ELSE IF f.command = "read_address"
                THEN ended(TRUE) \cup ended(FALSE)
                ELSE {SetState(e, "search_id"), SetState(WithBit(e, CrcError, TRUE), "search_id"),
                      IF f.type = 1 THEN CommandDone(e, TRUE)
                      ELSE IF f.write THEN SetState(e, "write_sector_delay") ELSE SetState(e, "search_data")}
  BY DEF InId
<1>1. f \in Fdcs /\ f.timer = "none" /\ f.state = "in_id" /\ f.count \in Nat /\ f.count < IdBytes BY DEF At, FitsAt, Fdcs
<1>2. n \in Nat /\ n <= IdBytes /\ n <= MaxCount /\ e = [f EXCEPT !.count = n] BY <1>1, Sizes
<1> HIDE DEF n, e
<1>3. e \in Fdcs /\ Goes(f, e) /\ Counts(f, e) /\ e.state = "in_id" /\ e.timer = "none" /\ e.count = n
  BY <1>1, <1>2, CountedGoes DEF Goes, Kept
<1>4. ASSUME NEW h \in sent
      PROVE  h \in Fdcs /\ Goes(f, h) /\ Counts(f, h) /\ h.state = "in_id" /\ h.timer = "none" /\ h.count = n
  <2>1. PICK byte \in program.bytes : h = SendDataToHost(stored(byte), byte) OBVIOUS
  <2>2. byte \in Registers BY BytesAreRegisters
  <2> DEFINE s == stored(byte)
  <2>3. s \in Fdcs /\ Goes(e, s) /\ Counts(e, s) /\ s.state = e.state /\ s.timer = e.timer /\ s.count = e.count
    BY <1>3, <2>2
    DEF Fdcs, Goes, Kept, Still, Counts, SameDrives, Honest, Visible, Transfers, Waiting, BusyIn, MotorIn, LostIn
  <2> HIDE DEF s
  <2>4. Goes(s, h) /\ Counts(s, h) /\ Place(s, h) BY <2>1, <2>2, <2>3, SendDataToHostGoes DEF s
  <2>5. Goes(f, s) /\ Counts(f, s) BY <1>1, <1>3, <2>3, GoesTwice DEF Counts
  <2>6. Goes(f, h) /\ Counts(f, h) BY <1>1, <1>3, <2>3, <2>4, <2>5, GoesTwice DEF Counts
  <2> QED BY <1>3, <2>3, <2>4, <2>6 DEF Place, Goes, Kept
<1>5. CASE n # IdBytes
  <2>1. g = e \/ g \in sent BY <1>0, <1>3, <1>5
  <2> HIDE DEF sent
  <2>2. /\ Goes(f, g) /\ Counts(f, g) /\ g.state = "in_id" /\ g.timer = "none" /\ g.count = n
    BY <1>3, <1>4, <2>1
  <2> QED BY <1>2, <1>5, <2>2, Sizes DEF Reads, ReadStates
<1>6. CASE n = IdBytes /\ f.command = "read_address"
  <2>1. PICK h \in sent, bad \in BOOLEAN : g = SetState(WithBit(h, CrcError, bad), "done")
    BY <1>0, <1>3, <1>6
  <2> DEFINE c == WithBit(h, CrcError, bad)
  <2> HIDE DEF sent
  <2>2. h \in Fdcs /\ Goes(f, h) /\ Counts(f, h) /\ h.timer = "none" BY <1>4
  <2>3. Goes(h, c) /\ Counts(h, c) /\ Place(h, c) BY <2>2, WithBitGoes, BitsDiffer
  <2> HIDE DEF c
  <2>4. Goes(f, c) /\ Counts(f, c) /\ c.timer = "none" /\ c \in Fdcs
    BY <1>1, <2>2, <2>3, GoesTwice DEF Counts, Place, Goes, Kept
  <2>5. Reads(c, SetState(c, "done")) BY <2>4, ReadEnters
  <2> QED BY <1>1, <2>1, <2>4, <2>5, ReadsTwice DEF c
<1>7. CASE n = IdBytes /\ f.command # "read_address"
  <2> DEFINE c == WithBit(e, CrcError, TRUE)
  <2>1. g = CommandDone(e, TRUE)
        \/ \E s \in {"search_id", "write_sector_delay", "search_data"} : g = SetState(e, s) \/ g = SetState(c, s)
    BY <1>0, <1>3, <1>7
  <2> HIDE DEF sent
  <2>2. Goes(e, c) /\ Counts(e, c) /\ Place(e, c) BY <1>3, WithBitGoes, BitsDiffer
  <2> HIDE DEF c
  <2>3. Goes(f, c) /\ Counts(f, c) /\ c.timer = "none" /\ c \in Fdcs
    BY <1>1, <1>3, <2>2, GoesTwice DEF Counts, Place, Goes, Kept
  <2>4. Reads(e, CommandDone(e, TRUE)) BY <1>2, <1>3, ReadEnds
  <2>5. \A s \in {"search_id", "write_sector_delay", "search_data"} : Reads(e, SetState(e, s)) /\ Reads(c, SetState(c, s))
    BY <1>3, <2>3, ReadEnters
  <2>6. Reads(e, g) \/ Reads(c, g) BY <2>1, <2>4, <2>5
  <2> QED BY <1>1, <1>3, <2>3, <2>6, ReadsTwice
<1> QED BY <1>5, <1>6, <1>7

\* Between header and data the bytes are counted, from the first to the last at which a mark counts.
LEMMA SearchDataReads ==
  ASSUME NEW f, NEW edge, At(f, "search_data", edge), NEW g \in SearchData(f)
  PROVE  Reads(f, g)
<1> DEFINE e == [f EXCEPT !.count = @ + 1]
           n == f.count + 1
           c == WithBit(e, CrcError, FALSE)
           found == SetState(c, "in_data")
<1>0. \/ (e.count <= MarkFirst \/ ~(e.count >= MarkLast)) /\ g = e
      \/ g = SetState(e, "search_id") \/ g = found \/ g = WithBit(found, DeletedMark, TRUE)
  BY DEF SearchData
<1>1. f \in Fdcs /\ f.timer = "none" /\ f.state = "search_data" /\ f.count \in Nat /\ f.count < MarkLast
  BY DEF At, FitsAt, Fdcs
<1>2. n \in Nat /\ n <= MarkLast /\ n <= MaxCount /\ e = [f EXCEPT !.count = n] BY <1>1, Sizes
<1> HIDE DEF n, e
<1>3. e \in Fdcs /\ Goes(f, e) /\ Counts(f, e) /\ e.state = "search_data" /\ e.timer = "none" /\ e.count = n
  BY <1>1, <1>2, CountedGoes DEF Goes, Kept
<1>4. Goes(e, c) /\ Counts(e, c) /\ Place(e, c) BY <1>3, WithBitGoes, BitsDiffer
<1> HIDE DEF c
<1>5. Goes(f, c) /\ Counts(f, c) /\ c.timer = "none" /\ c \in Fdcs
  BY <1>1, <1>3, <1>4, GoesTwice DEF Counts, Place, Goes, Kept
<1>6. "in_data" \in States BY DEF States
<1>7. Goes(c, found) /\ Counts(c, found) /\ found.state = "in_data" /\ found.count = 0 /\ found.timer = "none"
  BY <1>5, <1>6, SetStateGoes
<1>8. Reads(c, found) BY <1>5, ReadEnters
<1> HIDE DEF found
<1>9. found \in Fdcs /\ Goes(f, found) /\ Counts(f, found)
  BY <1>1, <1>5, <1>7, GoesTwice DEF Counts, Goes, Kept
<1> DEFINE d == WithBit(found, DeletedMark, TRUE)
<1>10. Goes(found, d) /\ Counts(found, d) /\ Place(found, d) BY <1>9, WithBitGoes
<1> HIDE DEF d
<1>11. Reads(found, d)
  BY <1>7, <1>10, Sizes DEF Reads, Place, ReadStates
<1>12. CASE (e.count <= MarkFirst \/ ~(e.count >= MarkLast)) /\ g = e
  BY <1>2, <1>3, <1>12, Sizes DEF Reads, ReadStates
<1>13. CASE g = SetState(e, "search_id")
  BY <1>1, <1>3, <1>13, ReadEnters, ReadsTwice
<1>14. CASE g = found
  BY <1>1, <1>5, <1>8, <1>14, ReadsTwice
<1>15. CASE g = d
  BY <1>1, <1>7, <1>9, <1>11, <1>15, ReadsTwice
<1> QED BY <1>0, <1>12, <1>13, <1>14, <1>15 DEF d

\* The bytes of the data are sent, the CRC checked.
LEMMA InDataReads ==
  ASSUME NEW f, NEW edge, At(f, "in_data", edge), NEW g \in InData(f), program \in Programs
  PROVE  Reads(f, g)
<1> DEFINE e == [f EXCEPT !.count = @ + 1]
           n == f.count + 1
           c == WithBit(e, CrcError, TRUE)
<1>0. \/ e.count <= SectorBytes /\ \E byte \in program.bytes : g = SendDataToHost(e, byte)
      \/ e.count <= SectorBytes + 2 /\ g = e
      \/ g = SetState(e, "check_multi") \/ g = CommandDone(c, TRUE)
  BY DEF InData
<1>1. f \in Fdcs /\ f.timer = "none" /\ f.state = "in_data" /\ f.count \in Nat /\ f.count <= SectorBytes + 2
  BY DEF At, FitsAt, Fdcs
<1>2. n \in Nat /\ n <= MaxCount /\ e = [f EXCEPT !.count = n] BY <1>1, Sizes
<1> HIDE DEF n, e
<1>3. e \in Fdcs /\ Goes(f, e) /\ Counts(f, e) /\ e.state = "in_data" /\ e.timer = "none" /\ e.count = n
  BY <1>1, <1>2, CountedGoes DEF Goes, Kept
<1>4. CASE e.count <= SectorBytes /\ \E byte \in program.bytes : g = SendDataToHost(e, byte)
  <2>1. PICK byte \in Registers : g = SendDataToHost(e, byte) BY <1>4, BytesAreRegisters
  <2>2. Goes(e, g) /\ Counts(e, g) /\ Place(e, g) BY <1>3, <2>1, SendDataToHostGoes
  <2>3. Reads(e, g) BY <1>2, <1>3, <1>4, <2>2, Sizes DEF Reads, Place, ReadStates
  <2> QED BY <1>1, <1>3, <2>3, ReadsTwice
<1>5. CASE e.count <= SectorBytes + 2 /\ g = e
  BY <1>2, <1>3, <1>5, Sizes DEF Reads, ReadStates
<1>6. CASE g = SetState(e, "check_multi")
  BY <1>1, <1>3, <1>6, ReadEnters, ReadsTwice
<1>7. CASE g = CommandDone(c, TRUE)
  <2>1. Goes(e, c) /\ Counts(e, c) /\ Place(e, c) BY <1>3, WithBitGoes
  <2> HIDE DEF c
  <2>2. Goes(f, c) /\ Counts(f, c) /\ c.timer = "none" /\ c \in Fdcs
    BY <1>1, <1>3, <2>1, GoesTwice DEF Counts, Place, Goes, Kept
  <2>3. c.count <= MaxCount BY <1>2, <1>3, <2>1 DEF Place
  <2> QED BY <1>1, <1>7, <2>2, <2>3, ReadEnds, ReadsTwice
<1> QED BY <1>0, <1>4, <1>5, <1>6, <1>7

\* Reading a track ends at the index pulse.
LEMMA InReadTrackReads ==
  ASSUME NEW f, NEW edge, At(f, "in_read_track", edge), NEW g \in InReadTrack(f, edge), program \in Programs
  PROVE  Reads(f, g)
<1>1. f \in Fdcs /\ f.timer = "none" /\ f.state = "in_read_track" /\ f.count <= MaxCount BY DEF At, FitsAt
<1>2. CASE g = CommandDone(f, TRUE) BY <1>1, <1>2, ReadEnds
<1>3. CASE \E byte \in program.bytes : g = SendDataToHost(f, byte)
  <2>1. PICK byte \in Registers : g = SendDataToHost(f, byte) BY <1>3, BytesAreRegisters
  <2>2. Goes(f, g) /\ Counts(f, g) /\ Place(f, g) BY <1>1, <2>1, SendDataToHostGoes
  <2> QED BY <1>1, <2>2 DEF Reads, Place, ReadStates
<1> QED BY <1>2, <1>3 DEF InReadTrack

\* While a byte is looked for the index pulses stay below the count at which the
\* search ends, and are not read again after it.
LEMMA ReadingLeads ==
  ASSUME NEW f, NEW edge, f.state \in ReadStates, At(f, f.state, edge), NEW pulse, NEW g \in Reading(f, pulse, edge),
         program \in Programs
  PROVE  Leads(f, g, edge)
<1>1. PICK r \in Received(f, edge) :
        g = IF r.indexCount = SpinUpPulses THEN CommandDone(WithBit(r, RecordNotFound, TRUE), TRUE) ELSE r
  BY DEF Reading
<1>2. Reads(f, r)
  BY SearchIdReads, InIdReads, SearchDataReads, InDataReads, InReadTrackReads DEF Received, ReadStates
<1>3. f \in Fdcs /\ f.timer = "none" /\ f.indexCount \in Nat /\ f.indexCount <= SpinUpPulses
  BY DEF At, FitsAt, ReadStates, Fdcs
<1>4. r \in Fdcs /\ r.indexCount = f.indexCount /\ edge \in BOOLEAN BY <1>2 DEF Reads, Goes, Kept, Counts, At
<1>5. CASE r.indexCount # SpinUpPulses
  <2>1. After(r.indexCount, edge) <= SpinUpPulses BY <1>3, <1>4, <1>5, Sizes DEF After
  <2>2. After(r.indexCount, edge) \in Nat BY <1>3, <1>4 DEF After
  <2>3. /\ After(r.indexCount, edge) <= IndexBound + MaxCount
        /\ After(r.indexCount, edge) <= SpinUpPulses + DelayEnd + LeadIn + SectorBytes + 3
    BY <2>1, <2>2, Sizes
  <2>4. FitsAt(r.state, r.count, After(r.indexCount, edge), r.crcSecond)
    BY <1>2, <2>1, <2>3, Sizes DEF Reads, FitsAt, ReadStates
  <2> QED BY <1>1, <1>2, <1>5, <2>4 DEF Leads, Reads, ReadStates
<1>6. CASE r.indexCount = SpinUpPulses
  <2> DEFINE c == WithBit(r, RecordNotFound, TRUE)
             d == CommandDone(c, TRUE)
  <2>1. Goes(r, c) /\ Counts(r, c) /\ Place(r, c) BY <1>4, WithBitGoes
  <2>2. c \in Fdcs BY <2>1 DEF Goes, Kept
  <2>3. g = d BY <1>1, <1>6
  <2> HIDE DEF c
  <2>4. /\ Kept(c, d) /\ Still(c, d) /\ Counts(c, d) /\ d.count = c.count
        /\ c.timer = "none" => d.timer = "done" /\ d.state = "timer_wait"
        /\ c.timer # "none" => d.timer = c.timer /\ d.state = c.state
    BY <2>2, CommandDoneKeeps
  <2> HIDE DEF d
  <2>5. d.state = "timer_wait" /\ d.timer = "done"
    BY <1>2, <1>3, <2>1, <2>4 DEF Reads, Place, Goes
  <2>6. Kept(f, d) /\ Still(f, d) BY <1>2, <2>1, <2>4, KeptTwice DEF Goes, Still, Reads
  <2>7. d.count <= MaxCount /\ d.indexCount = f.indexCount BY <1>2, <1>4, <2>1, <2>4 DEF Reads, Place, Counts
  <2>8. After(d.indexCount, edge) <= IndexBound + MaxCount BY <1>3, <1>4, <2>7, Sizes DEF After
  <2>9. FitsAt("timer_wait", d.count, After(d.indexCount, edge), d.crcSecond) BY <2>7, <2>8 DEF FitsAt, ReadStates
  <2> QED BY <1>3, <2>3, <2>5, <2>6, <2>9 DEF Leads, Goes
<1> QED BY <1>5, <1>6

\* A byte may change nothing that tells where the command is.
LEMMA Stays ==
  ASSUME NEW f \in Fdcs, NEW g, NEW edge, f.timer = "none", f.state \notin {"idle", "spin_up_wait", "timer_wait"},
         Goes(f, g), Counts(f, g), g.state = f.state, g.timer = f.timer,
         FitsAt(f.state, g.count, After(f.indexCount, edge), f.crcSecond)
  PROVE  Leads(f, g, edge)
BY DEF Leads, Counts

\* A command that stands still goes on.
LEMMA GoesItself ==
  ASSUME NEW f \in Fdcs
  PROVE  Goes(f, f) /\ Counts(f, f)
BY DEF Goes, Kept, Still, Counts, SameDrives, Honest

\* Reading a track begins at the index pulse, which its search is yet to count.
LEMMA WaitIndexLeads ==
  ASSUME NEW f, NEW edge, At(f, "wait_index", edge), NEW pulse, NEW g \in WaitIndex(f, pulse, edge), program \in Programs
  PROVE  Leads(f, g, edge)
<1>1. f \in Fdcs /\ f.timer = "none" /\ f.state = "wait_index" /\ f.count <= MaxCount /\ f.indexCount = 0 /\ edge \in BOOLEAN
  BY DEF At, FitsAt
<1>2. CASE ~edge
  <2>1. g = f BY <1>2 DEF WaitIndex
  <2>2. FitsAt("wait_index", f.count, After(0, edge), f.crcSecond)
    BY <1>1, <1>2, Sizes DEF FitsAt, After, ReadStates
  <2> QED BY <1>1, <2>1, <2>2, Stays, GoesItself
<1>3. CASE edge
  <2> DEFINE h == SetState(f, "in_read_track")
  <2>1. PICK byte \in Registers : g = SendDataToHost(h, byte) BY <1>3, BytesAreRegisters DEF WaitIndex
  <2>2. "in_read_track" \in States BY DEF States
  <2>3. Goes(f, h) /\ Counts(f, h) /\ h.state = "in_read_track" /\ h.count = 0 /\ h.timer = "none"
    BY <1>1, <2>2, SetStateGoes
  <2>4. h \in Fdcs BY <2>3 DEF Goes, Kept
  <2> HIDE DEF h
  <2>5. Goes(h, g) /\ Counts(h, g) /\ Place(h, g) BY <2>1, <2>4, SendDataToHostGoes
  <2>6. FitsAt("in_read_track", 0, After(h.indexCount, edge), h.crcSecond)
    BY <1>1, <1>3, <2>3, Sizes DEF FitsAt, After, ReadStates, Counts
  <2>7. Leads(h, g, edge) BY <2>3, <2>4, <2>5, <2>6, Stays DEF Place
  <2> QED BY <1>1, <2>3, <2>7, LeadsTwice
<1> QED BY <1>1, <1>2, <1>3

\* A count that goes on by one.
LEMMA Counted ==
  ASSUME NEW f \in Fdcs
  PROVE  LET g == [f EXCEPT !.count = @ + 1]
         IN  Goes(f, g) /\ Counts(f, g) /\ g.state = f.state /\ g.timer = f.timer /\ g.count = f.count + 1
<1> DEFINE n == f.count + 1
<1>1. n \in Nat BY DEF Fdcs
<1> HIDE DEF n
<1>2. LET g == [f EXCEPT !.count = n]
      IN  Goes(f, g) /\ Counts(f, g) /\ g.state = f.state /\ g.timer = f.timer /\ g.count = n
  BY <1>1, CountedGoes
<1> QED BY <1>2 DEF n

\* The delay before the data asks for the first byte and gives up without it.
LEMMA WriteSectorDelayLeads ==
  ASSUME NEW f, NEW edge, At(f, "write_sector_delay", edge), NEW pulse, NEW g \in WriteSectorDelay(f, pulse, edge)
  PROVE  Leads(f, g, edge)
<1> DEFINE lost == f.count = DelayLost /\ Drq \in f.status
           e == IF f.count = 0 THEN [f EXCEPT !.indexCount = 0]
                ELSE IF f.count = 1 THEN SetDrq(f, TRUE)
                ELSE IF lost THEN CommandDone(WithBit(f, LostByte, TRUE), TRUE) ELSE f
<1>0. g = IF e.count + 1 = DelayEnd THEN SetState(e, "write_sector_lead_in") ELSE [e EXCEPT !.count = @ + 1]
  BY DEF WriteSectorDelay
<1>1. /\ f \in Fdcs /\ f.timer = "none" /\ f.state = "write_sector_delay" /\ f.count \in Nat /\ f.indexCount \in Nat
      /\ f.count < DelayEnd /\ edge \in BOOLEAN /\ (f.count # 0 => f.indexCount <= f.count)
  BY DEF At, FitsAt, Fdcs
<1>2. /\ Goes(f, e) /\ e.count = f.count /\ e.crcSecond = f.crcSecond
      /\ e.indexCount = IF f.count = 0 THEN 0 ELSE f.indexCount
      /\ \/ e.timer = "none" /\ e.state = f.state
         \/ f.count = DelayLost /\ e.timer = "done" /\ e.state = "timer_wait"
  <2>1. CASE f.count = 0
    <3>1. e = [f EXCEPT !.indexCount = 0] BY <2>1
    <3> HIDE DEF e
    <3> QED BY <1>1, <2>1, <3>1
      DEF Fdcs, Goes, Kept, Still, SameDrives, Honest, Visible, Transfers, Waiting, BusyIn, MotorIn, LostIn
  <2>2. CASE f.count = 1
    <3>1. e = SetDrq(f, TRUE) BY <2>2
    <3> HIDE DEF e
    <3>2. Goes(f, e) /\ Counts(f, e) /\ Place(f, e) BY <1>1, <3>1, SetDrqGoes
    <3> QED BY <1>1, <2>2, <3>2 DEF Counts, Place
  <2>3. CASE f.count \notin {0, 1} /\ ~lost
    <3>1. e = f BY <2>3
    <3> HIDE DEF e
    <3> QED BY <1>1, <2>3, <3>1, GoesItself
  <2>4. CASE f.count \notin {0, 1} /\ lost
    <3> DEFINE c == WithBit(f, LostByte, TRUE)
    <3>1. e = CommandDone(c, TRUE) BY <2>4
    <3>2. Goes(f, c) /\ Counts(f, c) /\ Place(f, c) BY <1>1, WithBitGoes
    <3> HIDE DEF c, e
    <3>3. c \in Fdcs /\ c.timer = "none" BY <1>1, <3>2 DEF Goes, Kept, Place
    <3>4. Goes(c, e) /\ Counts(c, e) /\ e.state = "timer_wait" /\ e.timer = "done" /\ e.count = c.count
      BY <3>1, <3>3, CommandDoneGoes
    <3>5. Goes(f, e) BY <1>1, <3>2, <3>3, <3>4, GoesTwice
    <3> QED BY <2>4, <3>2, <3>4, <3>5 DEF Counts, Place
  <2> QED BY <2>1, <2>2, <2>3, <2>4
<1> HIDE DEF e
<1>3. e \in Fdcs /\ e.indexCount \in Nat /\ e.indexCount <= e.count BY <1>1, <1>2 DEF Goes, Kept
<1>4. After(e.indexCount, edge) <= e.count + 1 /\ After(e.indexCount, edge) \in Nat BY <1>1, <1>2, <1>3 DEF After
<1>5. CASE e.count + 1 = DelayEnd
  <2>1. e.timer = "none" BY <1>1, <1>2, <1>5, Sizes
  <2>2. FitsAt("write_sector_lead_in", 0, After(e.indexCount, edge), e.crcSecond)
    BY <1>1, <1>4, <1>5, Sizes DEF FitsAt, ReadStates
  <2>3. "write_sector_lead_in" \in States BY DEF States
  <2>4. Leads(e, SetState(e, "write_sector_lead_in"), edge) BY <1>1, <1>3, <2>1, <2>2, <2>3, Enters
  <2> QED BY <1>0, <1>1, <1>2, <1>5, <2>1, <2>4, LeadsTwice
<1>6. CASE e.count + 1 # DelayEnd
  <2>1. g = [e EXCEPT !.count = @ + 1] BY <1>0, <1>6
  <2>2. Goes(e, g) /\ Counts(e, g) /\ g.state = e.state /\ g.timer = e.timer /\ g.count = e.count + 1
    BY <1>3, <2>1, Counted
  <2>3. Kept(f, g) /\ Still(f, g) BY <1>2, <2>2, KeptTwice DEF Goes, Still
  <2>4. FitsAt(g.state, g.count, After(e.indexCount, edge), g.crcSecond)
    <3>1. g.count \in Nat /\ g.count # 0 /\ g.count <= DelayEnd /\ After(e.indexCount, edge) <= g.count
      BY <1>1, <1>2, <1>4, <1>6, <2>2, Sizes
    <3>2. g.state = "write_sector_delay" => g.count < DelayEnd BY <1>1, <1>2, <1>6, <2>2, Sizes
    <3>3. g.state \in {"write_sector_delay", "timer_wait"} BY <1>1, <1>2, <2>2
    <3>4. g.count <= MaxCount /\ After(e.indexCount, edge) <= IndexBound + MaxCount BY <1>4, <3>1, Sizes
    <3> QED BY <3>1, <3>2, <3>3, <3>4 DEF FitsAt, ReadStates
  <2> QED BY <1>1, <1>2, <2>2, <2>3, <2>4 DEF Leads, Goes, Counts
<1> QED BY <1>5, <1>6

\* The lead-in is counted to its end.
LEMMA WriteSectorLeadInLeads ==
  ASSUME NEW f, NEW edge, At(f, "write_sector_lead_in", edge), NEW pulse, NEW g \in WriteSectorLeadIn(f, pulse, edge)
  PROVE  Leads(f, g, edge)
<1>1. /\ f \in Fdcs /\ f.timer = "none" /\ f.state = "write_sector_lead_in" /\ f.count \in Nat /\ f.indexCount \in Nat
      /\ f.count < LeadIn /\ edge \in BOOLEAN /\ f.indexCount <= DelayEnd + f.count
  BY DEF At, FitsAt, Fdcs
<1>2. After(f.indexCount, edge) <= DelayEnd + f.count + 1 /\ After(f.indexCount, edge) \in Nat BY <1>1, Sizes DEF After
<1>3. CASE f.count + 1 = LeadIn
  <2>1. g = SetState(f, "write_sector_body") BY <1>3 DEF WriteSectorLeadIn
  <2>2. FitsAt("write_sector_body", 0, After(f.indexCount, edge), f.crcSecond)
    BY <1>1, <1>2, <1>3, Sizes DEF FitsAt, ReadStates
  <2>3. "write_sector_body" \in States BY DEF States
  <2> QED BY <1>1, <2>1, <2>2, <2>3, Enters
<1>4. CASE f.count + 1 # LeadIn
  <2>1. g = [f EXCEPT !.count = @ + 1] BY <1>4 DEF WriteSectorLeadIn
  <2>2. Goes(f, g) /\ Counts(f, g) /\ g.state = f.state /\ g.timer = f.timer /\ g.count = f.count + 1
    BY <1>1, <2>1, Counted
  <2>3. FitsAt("write_sector_lead_in", f.count + 1, After(f.indexCount, edge), f.crcSecond)
    BY <1>1, <1>2, <1>4, Sizes DEF FitsAt, ReadStates
  <2> QED BY <1>1, <2>2, <2>3, Stays
<1> QED BY <1>3, <1>4

\* The data and its CRC are counted to their end, a byte not given reported.
LEMMA WriteSectorBodyLeads ==
  ASSUME NEW f, NEW edge, At(f, "write_sector_body", edge), NEW pulse, NEW g \in WriteSectorBody(f, pulse, edge)
  PROVE  Leads(f, g, edge)
<1> DEFINE taken == IF Drq \in f.status THEN WithBit(f, LostByte, TRUE) ELSE f
           e == IF f.count < SectorBytes
                THEN IF f.count # SectorBytes - 1 THEN SetDrq(taken, TRUE) ELSE taken
                ELSE IF f.count < SectorBytes + 2 THEN f
                ELSE SetState(f, "check_multi")
<1>0. g = [e EXCEPT !.count = @ + 1] BY DEF WriteSectorBody
<1>1. /\ f \in Fdcs /\ f.timer = "none" /\ f.state = "write_sector_body" /\ f.count \in Nat /\ f.indexCount \in Nat
      /\ f.count <= SectorBytes + 2 /\ edge \in BOOLEAN /\ f.indexCount <= DelayEnd + LeadIn + f.count
  BY DEF At, FitsAt, Fdcs
<1>2. Goes(f, taken) /\ Counts(f, taken) /\ Place(f, taken)
  BY <1>1, GoesItself, WithBitGoes DEF Place
<1>3. taken \in Fdcs BY <1>2 DEF Goes, Kept
<1> HIDE DEF taken
<1>4. /\ Goes(f, e) /\ Counts(f, e) /\ e.timer = "none"
      /\ \/ f.count < SectorBytes + 2 /\ e.state = f.state /\ e.count = f.count
         \/ e.state = "check_multi" /\ e.count = 0
  <2>1. CASE f.count < SectorBytes /\ f.count # SectorBytes - 1
    <3>1. e = SetDrq(taken, TRUE) BY <2>1
    <3>2. Goes(taken, e) /\ Counts(taken, e) /\ Place(taken, e) BY <1>3, <3>1, SetDrqGoes
    <3> HIDE DEF e
    <3>3. Goes(f, e) /\ Counts(f, e) /\ Place(f, e) BY <1>2, <3>2, GoesTwice DEF Counts, Place
    <3> QED BY <1>1, <2>1, <3>3, Sizes DEF Place
  <2>2. CASE f.count < SectorBytes /\ f.count = SectorBytes - 1
    <3>1. e = taken BY <2>2
    <3> HIDE DEF e
    <3> QED BY <1>1, <1>2, <2>2, <3>1, Sizes DEF Place
  <2>3. CASE ~(f.count < SectorBytes) /\ f.count < SectorBytes + 2
    <3>1. e = f BY <2>3
    <3> HIDE DEF e
    <3> QED BY <1>1, <2>3, <3>1, GoesItself
  <2>4. CASE ~(f.count < SectorBytes) /\ ~(f.count < SectorBytes + 2)
    <3>1. e = SetState(f, "check_multi") BY <2>4
    <3>2. "check_multi" \in States BY DEF States
    <3> HIDE DEF e
    <3> QED BY <1>1, <3>1, <3>2, SetStateGoes
  <2> QED BY <2>1, <2>2, <2>3, <2>4
<1> HIDE DEF e
<1>5. e \in Fdcs BY <1>4 DEF Goes, Kept
<1>6. Goes(e, g) /\ Counts(e, g) /\ g.state = e.state /\ g.timer = e.timer /\ g.count = e.count + 1
  BY <1>0, <1>5, Counted
<1>7. Goes(f, g) /\ Counts(f, g) /\ g.timer = "none" BY <1>1, <1>4, <1>6, GoesTwice DEF Counts
<1>8. After(f.indexCount, edge) <= DelayEnd + LeadIn + f.count + 1 /\ After(f.indexCount, edge) \in Nat
  BY <1>1, Sizes DEF After
<1>9. g.state \in {"write_sector_body", "check_multi"} BY <1>1, <1>4, <1>6
<1>10. FitsAt(g.state, g.count, After(f.indexCount, edge), f.crcSecond)
  <2>1. CASE f.count < SectorBytes + 2 /\ e.state = f.state /\ e.count = f.count
    <3>1. g.count = f.count + 1 /\ g.state = "write_sector_body" BY <1>1, <1>6, <2>1
    <3> QED BY <1>1, <1>8, <2>1, <3>1, Sizes DEF FitsAt, ReadStates
  <2>2. CASE e.state = "check_multi" /\ e.count = 0
    <3>1. g.count = 1 /\ g.state = "check_multi" BY <1>6, <2>2
    <3> QED BY <1>1, <1>8, <3>1, Sizes DEF FitsAt, ReadStates
  <2> QED BY <1>4, <2>1, <2>2
<1> QED BY <1>7, <1>9, <1>10 DEF Leads, Counts

\* The next sector begins a new search, or the command is done.
LEMMA CheckMultiLeads ==
  ASSUME NEW f, NEW edge, At(f, "check_multi", edge), NEW pulse, NEW g \in CheckMulti(f, pulse, edge)
  PROVE  Leads(f, g, edge)
<1> DEFINE sector == (f.sector + 1) % RegMod
           e == [f EXCEPT !.sector = sector, !.indexCount = 0]
<1>1. /\ f \in Fdcs /\ f.timer = "none" /\ f.state = "check_multi" /\ f.count \in Nat /\ f.indexCount \in Nat
      /\ f.count <= 1 /\ edge \in BOOLEAN /\ f.indexCount <= SpinUpPulses + DelayEnd + LeadIn + SectorBytes + 3
  BY DEF At, FitsAt, Fdcs
<1>2. CASE f.multi
  <2>1. g = SetState(e, "search_id") BY <1>2 DEF CheckMulti
  <2>2. sector \in Registers BY <1>1, RegistersWrap DEF Fdcs
  <2> HIDE DEF sector
  <2>3. e \in Fdcs BY <1>1, <2>2 DEF Fdcs
  <2>4. Goes(f, e) /\ e.timer = f.timer /\ e.indexCount = 0
    BY <1>1, <2>3 DEF Fdcs, Goes, Kept, Still, SameDrives, Honest, Visible, Transfers, Waiting, BusyIn, MotorIn, LostIn
  <2> HIDE DEF e
  <2>5. FitsAt("search_id", 0, After(e.indexCount, edge), e.crcSecond)
    BY <1>1, <2>4, Sizes DEF FitsAt, After, ReadStates
  <2>6. "search_id" \in States BY DEF States
  <2>7. Leads(e, SetState(e, "search_id"), edge) BY <1>1, <2>3, <2>4, <2>5, <2>6, Enters
  <2> QED BY <2>1, <2>4, <2>7, LeadsTwice
<1>3. CASE ~f.multi
  <2>1. g = CommandDone(f, TRUE) BY <1>3 DEF CheckMulti
  <2>2. f.count <= MaxCount /\ f.indexCount < IndexBound + MaxCount BY <1>1, Sizes
  <2> QED BY <1>1, <2>1, <2>2, Ends
<1> QED BY <1>2, <1>3

\* Writing a track waits three bytes for the first one.
LEMMA WriteTrackSetupLeads ==
  ASSUME NEW f, NEW edge, At(f, "write_track_setup", edge), NEW pulse, NEW g \in WriteTrackSetup(f, pulse, edge)
  PROVE  Leads(f, g, edge)
<1> DEFINE z == [f EXCEPT !.indexCount = 0]
           c == WithBit(f, LostByte, TRUE)
           e == IF f.count = 0 THEN SetDrq(z, TRUE) ELSE IF f.count = 3 THEN CommandDone(c, TRUE) ELSE f
<1>0. g = IF f.count = 3 /\ Drq \notin f.status THEN SetState(f, "in_write_track") ELSE [e EXCEPT !.count = @ + 1]
  BY DEF WriteTrackSetup
<1>1. /\ f \in Fdcs /\ f.timer = "none" /\ f.state = "write_track_setup" /\ f.count \in Nat /\ f.indexCount \in Nat
      /\ f.count <= 3 /\ edge \in BOOLEAN /\ f.indexCount <= f.count
  BY DEF At, FitsAt, Fdcs
<1>2. /\ Goes(f, e) /\ e.count = f.count /\ e.indexCount \in Nat /\ e.indexCount <= f.indexCount
      /\ \/ e.timer = "none" /\ e.state = f.state /\ f.count # 3
         \/ e.timer = "done" /\ e.state = "timer_wait" /\ f.count = 3
  <2>1. CASE f.count = 0
    <3>1. z \in Fdcs BY <1>1 DEF Fdcs
    <3>2. Goes(f, z) /\ Place(f, z) /\ z.indexCount = 0
      BY <1>1, <3>1 DEF Fdcs, Goes, Kept, Still, Place, SameDrives, Honest, Visible, Transfers, Waiting, BusyIn, MotorIn, LostIn
    <3>3. e = SetDrq(z, TRUE) BY <2>1
    <3> HIDE DEF z, e
    <3>4. Goes(z, e) /\ Counts(z, e) /\ Place(z, e) BY <3>1, <3>3, SetDrqGoes
    <3>5. Goes(f, e) BY <3>2, <3>4, GoesTwice DEF Place
    <3> QED BY <1>1, <2>1, <3>2, <3>4, <3>5 DEF Place, Counts
  <2>2. CASE f.count = 3
    <3>1. e = CommandDone(c, TRUE) BY <2>2
    <3>2. Goes(f, c) /\ Counts(f, c) /\ Place(f, c) BY <1>1, WithBitGoes
    <3> HIDE DEF c, e
    <3>3. c \in Fdcs /\ c.timer = "none" BY <1>1, <3>2 DEF Goes, Kept, Place
    <3>4. Goes(c, e) /\ Counts(c, e) /\ e.state = "timer_wait" /\ e.timer = "done" /\ e.count = c.count
      BY <3>1, <3>3, CommandDoneGoes
    <3>5. Goes(f, e) BY <1>1, <3>2, <3>3, <3>4, GoesTwice
    <3> QED BY <1>1, <2>2, <3>2, <3>4, <3>5 DEF Counts, Place
  <2>3. CASE f.count \notin {0, 3}
    <3>1. e = f BY <2>3
    <3> HIDE DEF e
    <3> QED BY <1>1, <2>3, <3>1, GoesItself
  <2> QED BY <2>1, <2>2, <2>3
<1> HIDE DEF e
<1>3. After(e.indexCount, edge) <= f.count + 1 /\ After(e.indexCount, edge) \in Nat BY <1>1, <1>2 DEF After
<1>4. CASE f.count = 3 /\ Drq \notin f.status
  <2>1. g = SetState(f, "in_write_track") BY <1>0, <1>4
  <2>2. After(f.indexCount, edge) <= 4 /\ After(f.indexCount, edge) \in Nat BY <1>1, <1>4 DEF After
  <2>3. FitsAt("in_write_track", 0, After(f.indexCount, edge), f.crcSecond)
    BY <2>2, Sizes DEF FitsAt, ReadStates
  <2>4. "in_write_track" \in States BY DEF States
  <2> QED BY <1>1, <2>1, <2>3, <2>4, Enters
<1>5. CASE ~(f.count = 3 /\ Drq \notin f.status)
  <2>1. g = [e EXCEPT !.count = @ + 1] BY <1>0, <1>5
  <2>2. e \in Fdcs BY <1>2 DEF Goes, Kept
  <2>3. Goes(e, g) /\ Counts(e, g) /\ g.state = e.state /\ g.timer = e.timer /\ g.count = e.count + 1
    BY <2>1, <2>2, Counted
  <2>4. Kept(f, g) /\ Still(f, g) BY <1>2, <2>3, KeptTwice DEF Goes, Still
  <2>5. FitsAt(g.state, g.count, After(e.indexCount, edge), g.crcSecond)
    <3>1. g.count = f.count + 1 /\ (g.state = "timer_wait" \/ (g.state = "write_track_setup" /\ f.count # 3))
      BY <1>1, <1>2, <2>3
    <3>2. g.count <= MaxCount /\ After(e.indexCount, edge) <= IndexBound + MaxCount
      BY <1>1, <1>3, <3>1, Sizes
    <3>3. g.state = "write_track_setup" => g.count <= 3 /\ After(e.indexCount, edge) <= g.count
      BY <1>1, <1>3, <3>1
    <3> QED BY <3>1, <3>2, <3>3 DEF FitsAt, ReadStates
  <2> QED BY <1>1, <1>2, <2>3, <2>4, <2>5 DEF Leads, Goes, Counts
<1> QED BY <1>4, <1>5

\* Writing a track begins at an index pulse and ends at the next.
LEMMA InWriteTrackLeads ==
  ASSUME NEW f, NEW edge, At(f, "in_write_track", edge), NEW pulse, NEW g \in InWriteTrack(f, pulse, edge)
  PROVE  Leads(f, g, edge)
<1> DEFINE taken == IF Drq \in f.status THEN WithBit(f, LostByte, TRUE) ELSE f
           z == [f EXCEPT !.crcSecond = FALSE]
           d == SetDrq(taken, TRUE)
<1>0. \/ f.count = 0 /\ ~edge /\ g = f
      \/ ~(f.count = 0 /\ ~edge) /\ f.count > 0 /\ edge /\ g = CommandDone(f, TRUE)
      \/ /\ ~(f.count = 0 /\ ~edge) /\ ~(f.count > 0 /\ edge)
         /\ \/ f.crcSecond /\ g = SetDrq(z, TRUE)
            \/ ~f.crcSecond /\ (g = [d EXCEPT !.count = 1] \/ g = [taken EXCEPT !.count = 1, !.crcSecond = TRUE])
  BY DEF InWriteTrack
<1>1. /\ f \in Fdcs /\ f.timer = "none" /\ f.state = "in_write_track" /\ f.count \in Nat /\ f.indexCount \in Nat
      /\ f.count <= 1 /\ edge \in BOOLEAN /\ f.crcSecond \in BOOLEAN
      /\ f.indexCount <= (IF f.count = 1 THEN 6 ELSE IF f.crcSecond THEN 4 ELSE 5)
      /\ f.count <= MaxCount /\ f.indexCount <= 6
  BY Sizes DEF At, FitsAt, Fdcs
<1>2. Goes(f, taken) /\ Counts(f, taken) /\ Place(f, taken)
  BY <1>1, GoesItself, WithBitGoes DEF Place
<1>3. taken \in Fdcs /\ taken.timer = "none" /\ taken.state = "in_write_track" BY <1>1, <1>2 DEF Goes, Kept, Place
<1> HIDE DEF taken
<1>4. CASE f.count = 0 /\ ~edge /\ g = f
  <2>1. FitsAt("in_write_track", f.count, After(f.indexCount, edge), f.crcSecond)
    BY <1>1, <1>4, Sizes DEF FitsAt, After, ReadStates
  <2> QED BY <1>1, <1>4, <2>1, GoesItself, Stays
<1>5. CASE f.count > 0 /\ edge /\ g = CommandDone(f, TRUE)
  <2>1. f.indexCount < IndexBound + MaxCount BY <1>1, Sizes
  <2> QED BY <1>1, <1>5, <2>1, Ends
<1>6. CASE ~(f.count = 0 /\ ~edge) /\ ~(f.count > 0 /\ edge) /\ f.crcSecond /\ g = SetDrq(z, TRUE)
  <2>1. z \in Fdcs BY <1>1 DEF Fdcs
  <2>2. Goes(f, z) /\ Place(f, z) /\ z.indexCount = f.indexCount /\ z.crcSecond = FALSE
    BY <1>1, <2>1 DEF Fdcs, Goes, Kept, Still, Place, SameDrives, Honest, Visible, Transfers, Waiting, BusyIn, MotorIn, LostIn
  <2> HIDE DEF z
  <2>3. Goes(z, g) /\ Counts(z, g) /\ Place(z, g) BY <1>6, <2>1, SetDrqGoes
  <2>4. FitsAt("in_write_track", f.count, After(f.indexCount, edge), FALSE)
    BY <1>1, <1>6, Sizes DEF FitsAt, After, ReadStates
  <2>5. Leads(z, g, edge) BY <1>1, <2>1, <2>2, <2>3, <2>4, Stays DEF Place
  <2> QED BY <1>1, <2>2, <2>5, LeadsTwice DEF Place
<1>7. CASE ~(f.count = 0 /\ ~edge) /\ ~(f.count > 0 /\ edge) /\ ~f.crcSecond /\ g = [d EXCEPT !.count = 1]
  <2>1. Goes(taken, d) /\ Counts(taken, d) /\ Place(taken, d) BY <1>3, SetDrqGoes
  <2>2. d \in Fdcs BY <2>1 DEF Goes, Kept
  <2> HIDE DEF d
  <2>3. Goes(d, g) /\ Counts(d, g) /\ g.state = d.state /\ g.timer = d.timer /\ g.count = 1
    BY <1>7, <2>2, CountedGoes
  <2>4. Goes(f, d) BY <1>1, <1>2, <1>3, <2>1, GoesTwice
  <2>5. Goes(f, g) /\ Counts(f, g) /\ g.state = f.state /\ g.timer = f.timer
    BY <1>1, <1>2, <1>3, <2>1, <2>3, <2>4, GoesTwice DEF Counts, Place
  <2>6. FitsAt("in_write_track", 1, After(f.indexCount, edge), f.crcSecond)
    BY <1>1, <1>7, Sizes DEF FitsAt, After, ReadStates
  <2> QED BY <1>1, <2>3, <2>5, <2>6, Stays
<1>8. CASE ~(f.count = 0 /\ ~edge) /\ ~(f.count > 0 /\ edge) /\ ~f.crcSecond
           /\ g = [taken EXCEPT !.count = 1, !.crcSecond = TRUE]
  <2>1. g \in Fdcs BY <1>3, <1>8 DEF Fdcs
  <2>2. /\ Goes(taken, g) /\ g.state = taken.state /\ g.timer = taken.timer /\ g.count = 1 /\ g.crcSecond = TRUE
        /\ g.indexCount = taken.indexCount
    BY <1>3, <1>8, <2>1 DEF Fdcs, Goes, Kept, Still, SameDrives, Honest, Visible, Transfers, Waiting, BusyIn, MotorIn, LostIn
  <2>3. Goes(f, g) BY <1>1, <1>2, <1>3, <2>2, GoesTwice
  <2>4. FitsAt("in_write_track", 1, After(f.indexCount, edge), TRUE)
    BY <1>1, <1>8, Sizes DEF FitsAt, After, ReadStates
  <2> QED BY <1>2, <1>3, <2>2, <2>3, <2>4 DEF Leads, Counts
<1> QED BY <1>0, <1>4, <1>5, <1>6, <1>7, <1>8

\* Done is done.
LEMMA DoneLeads ==
  ASSUME NEW f, NEW edge, At(f, "done", edge), NEW pulse, NEW g \in Done(f, pulse, edge)
  PROVE  Leads(f, g, edge)
<1>1. /\ f \in Fdcs /\ f.timer = "none" /\ f.count <= MaxCount /\ f.indexCount \in Nat /\ f.indexCount <= SpinUpPulses
      /\ edge \in BOOLEAN
  BY DEF At, FitsAt, Fdcs
<1>2. f.indexCount < IndexBound + MaxCount BY <1>1, Sizes
<1> QED BY <1>1, <1>2, Ends DEF Done

-----------------------------------------------------------------------------
(* The inductive invariant.                                                  *)

Driven(f) ==
  /\ \A d \in Drives : f.spinning[d] <=> d = f.current /\ MotorIn(f)
  /\ f.failed \notin Twice

Moving(f) ==
  /\ BusyIn(f) <=> f.state # "idle"
  /\ f.timer # "none" <=> f.state = "timer_wait"
  /\ BusyIn(f) => MotorIn(f) /\ f.current \in Drives

\* What a command that runs was issued as, and which the program issues.
Commanded(f, p) == f.state # "idle" => Issued(f) /\ f.command \in p.commands

\* The counts, and the pulse that ends a spin-up is still there at the next byte.
Fits(f) ==
  /\ FitsAt(f.state, f.count, f.indexCount, f.crcSecond)
  /\ f.state = "idle" /\ MotorIn(f) => f.indexCount <= SpinDownPulses
  /\ f.state = "spin_up_wait" /\ f.indexCount = SpinUpPulses => f.pulse

Sound(f, p) ==
  /\ p \in Programs /\ f \in Fdcs
  /\ Driven(f) /\ Moving(f) /\ Visible(f) /\ Commanded(f, p) /\ Fits(f)

\* What changes neither the drives nor the lines leaves them sound.
LEMMA KeptStaysSound ==
  ASSUME NEW f, NEW g, Kept(f, g), Driven(f), Visible(f), f.type = g.type
  PROVE  Driven(g) /\ Visible(g)
BY DEF Kept, SameDrives, Honest, Driven, Visible, Transfers

\* The struct a byte is looked at with, with the level of the index sensor.
Edge(pulse) == pulse /\ ~fdc.pulse
Sensed(pulse) == [fdc EXCEPT !.pulse = pulse, !.intrq = @ \/ (fdc.onIndex /\ Edge(pulse))]
Begins(pulse) == UpdateTypeIBits(Sensed(pulse), pulse)
Passed(g, edge) == [g EXCEPT !.indexCount = After(g.indexCount, edge)]

\* The index sensor changes its level and the interrupt line only.
LEMMA SensedKeeps ==
  ASSUME fdc \in Fdcs, NEW pulse \in BOOLEAN
  PROVE  LET s == Sensed(pulse)
         IN  /\ s \in Fdcs /\ Still(fdc, s) /\ Counts(fdc, s) /\ Place(fdc, s)
             /\ s.data = fdc.data /\ s.status = fdc.status /\ s.drq = fdc.drq
             /\ s.current = fdc.current /\ s.spinning = fdc.spinning /\ s.media = fdc.media /\ s.reset = fdc.reset
             /\ s.type = fdc.type /\ s.command = fdc.command /\ s.write = fdc.write /\ s.pulse = pulse
             /\ s.failed = fdc.failed /\ s.doRaise = fdc.doRaise
<1> DEFINE on == fdc.intrq \/ (fdc.onIndex /\ Edge(pulse))
<1>1. on \in BOOLEAN /\ Sensed(pulse) = [fdc EXCEPT !.pulse = pulse, !.intrq = on] BY DEF Sensed, Edge, Fdcs
<1> HIDE DEF on
<1> QED BY <1>1 DEF Fdcs, Still, Counts, Place

\* Its type I bits are brought up to date, and that is all.
LEMMA BeginsKeeps ==
  ASSUME Sound(fdc, program), NEW pulse \in BOOLEAN
  PROVE  LET u == Begins(pulse)
         IN  /\ Still(fdc, u) /\ Counts(fdc, u) /\ Place(fdc, u)
             /\ u \in Fdcs /\ u.data = fdc.data /\ Honest(fdc, u)
             /\ Driven(u) /\ Visible(u) /\ Issued(u) = Issued(fdc)
             /\ u.current = fdc.current /\ u.type = fdc.type /\ u.command = fdc.command
             /\ (BusyIn(u) <=> BusyIn(fdc)) /\ (MotorIn(u) <=> MotorIn(fdc))
             /\ u.pulse = pulse /\ u.doRaise = fdc.doRaise
<1> DEFINE s == Sensed(pulse)
           u == UpdateTypeIBits(s, pulse)
<1>0. fdc \in Fdcs BY DEF Sound
<1>1. /\ s \in Fdcs /\ Still(fdc, s) /\ Counts(fdc, s) /\ Place(fdc, s)
      /\ s.data = fdc.data /\ s.status = fdc.status /\ s.drq = fdc.drq
      /\ s.current = fdc.current /\ s.spinning = fdc.spinning /\ s.media = fdc.media /\ s.reset = fdc.reset
      /\ s.type = fdc.type /\ s.command = fdc.command /\ s.write = fdc.write /\ s.pulse = pulse
      /\ s.failed = fdc.failed /\ s.doRaise = fdc.doRaise
  BY <1>0, SensedKeeps
<1>2. Begins(pulse) = u /\ u.doRaise = s.doRaise
  <2> HIDE DEF s
  <2>1. s.type # 1 => u = s BY DEF UpdateTypeIBits
  <2>2. \E b \in {FALSE, TRUE} : s.type = 1 => u = WithBit(WithBit(s, Track0, b), Index, pulse)
    BY DEF UpdateTypeIBits
  <2>3. \A b : WithBit(WithBit(s, Track0, b), Index, pulse).doRaise = s.doRaise BY <1>1 DEF WithBit, Fdcs
  <2> QED BY <2>1, <2>2, <2>3 DEF Begins, s
<1> HIDE DEF s
<1>3. Driven(s) /\ Visible(s) /\ Issued(s) = Issued(fdc)
  BY <1>1 DEF Sound, Driven, Visible, Issued, MotorIn, Transfers
<1>4. Kept(s, u) /\ Still(s, u) /\ Counts(s, u) /\ Place(s, u) /\ u.data = s.data
  BY <1>1, UpdateTypeIBitsKeeps
<1> HIDE DEF u
<1>5. Honest(fdc, u) BY <1>1, <1>4 DEF Kept, Honest, Visible, Transfers, LostIn, Waiting
<1>6. u.type = s.type /\ u.command = s.command /\ u.write = s.write /\ u.current = s.current /\ u.pulse = s.pulse
      /\ (BusyIn(u) <=> BusyIn(s)) /\ (MotorIn(u) <=> MotorIn(s)) /\ u \in Fdcs
  BY <1>4 DEF Kept, SameDrives
<1>7. Driven(u) /\ Visible(u) BY <1>3, <1>4, <1>6, KeptStaysSound
<1>8. Issued(u) = Issued(fdc) BY <1>1, <1>6 DEF Issued
<1>9. Still(fdc, u) /\ Counts(fdc, u) /\ Place(fdc, u) BY <1>1, <1>4 DEF Still, Counts, Place
<1>10. (BusyIn(u) <=> BusyIn(fdc)) /\ (MotorIn(u) <=> MotorIn(fdc)) BY <1>1, <1>6 DEF BusyIn, MotorIn
<1> QED BY <1>1, <1>2, <1>4, <1>5, <1>6, <1>7, <1>8, <1>9, <1>10


\* What a byte does: the chip stays sound, a loss is reported, and a restore
\* goes home.
Onward(r) ==
  /\ Sound(r, program) /\ Honest(fdc, r)
  /\ Homing(fdc) => Homing(r)
  /\ fdc.timer = "done" => r.timer = "done"

\* An index pulse is counted, and that is all.
LEMMA PassedKeeps ==
  ASSUME NEW g \in Fdcs, NEW edge \in BOOLEAN
  PROVE  LET r == Passed(g, edge)
         IN  /\ Kept(g, r) /\ Still(g, r) /\ Place(g, r)
             /\ r.indexCount = After(g.indexCount, edge) /\ r.crcSecond = g.crcSecond
             /\ r.data = g.data /\ r.doRaise = g.doRaise
<1> DEFINE n == After(g.indexCount, edge)
           r == [g EXCEPT !.indexCount = n]
<1>1. n \in Nat BY DEF After, Fdcs
<1>2. Passed(g, edge) = r BY DEF Passed
<1> HIDE DEF n
<1>3. r \in Fdcs BY <1>1 DEF Fdcs
<1> QED
  BY <1>2, <1>3 DEF n, Fdcs, Kept, Still, Place, SameDrives, Honest, Visible, Transfers, Waiting, BusyIn, MotorIn, LostIn

\* What is reported by one function and by another after it is reported by both.
LEMMA HonestTwice ==
  ASSUME NEW f, NEW g, NEW h, Honest(f, g), Honest(g, h), g.type = f.type
  PROVE  Honest(f, h)
BY DEF Honest, Transfers

\* What a state makes of a byte leaves the chip sound once its index pulse is counted.
LEMMA LeadsOnward ==
  ASSUME Sound(fdc, program), NEW pulse \in BOOLEAN, fdc.state \notin {"idle", "timer_wait", "spin_up_wait"},
         NEW g, Leads(Begins(pulse), g, Edge(pulse))
  PROVE  Onward(Passed(g, Edge(pulse)))
<1> DEFINE u == Begins(pulse)
           edge == Edge(pulse)
           r == Passed(g, edge)
<1>1. /\ Still(fdc, u) /\ Counts(fdc, u) /\ Place(fdc, u)
      /\ u \in Fdcs /\ u.data = fdc.data /\ Honest(fdc, u)
      /\ Driven(u) /\ Visible(u) /\ Issued(u) = Issued(fdc)
      /\ u.current = fdc.current /\ u.type = fdc.type /\ u.command = fdc.command
      /\ (BusyIn(u) <=> BusyIn(fdc)) /\ (MotorIn(u) <=> MotorIn(fdc))
      /\ u.pulse = pulse
  BY BeginsKeeps
<1>2. edge \in BOOLEAN BY DEF Edge, Sound, Fdcs
<1>3. Leads(u, g, edge) OBVIOUS
<1> HIDE DEF u, edge
<1>4. g \in Fdcs /\ Kept(u, g) BY <1>3 DEF Leads, Goes, Kept
<1>5. /\ Kept(g, r) /\ Still(g, r) /\ Place(g, r)
      /\ r.indexCount = After(g.indexCount, edge) /\ r.crcSecond = g.crcSecond
      /\ r.data = g.data /\ r.doRaise = g.doRaise
  BY <1>2, <1>4, PassedKeeps
<1> HIDE DEF r
<1>6. Kept(u, r) BY <1>4, <1>5, KeptTwice
<1>7. r.type = u.type /\ r.command = u.command /\ r.write = u.write /\ r.current = u.current /\ r \in Fdcs
      /\ (BusyIn(r) <=> BusyIn(u)) /\ (MotorIn(r) <=> MotorIn(u))
  BY <1>6 DEF Kept, SameDrives
<1>8. Driven(r) /\ Visible(r) BY <1>1, <1>6, <1>7, KeptStaysSound
<1>9. Moving(fdc) /\ Commanded(fdc, program) /\ program \in Programs BY DEF Sound
<1>10. fdc.timer = "none" /\ BusyIn(fdc) BY <1>9 DEF Moving
<1>11. r.state # "idle" /\ (r.timer # "none" <=> r.state = "timer_wait") BY <1>3, <1>5 DEF Leads, Place
<1>12. Moving(r) BY <1>1, <1>7, <1>9, <1>10, <1>11 DEF Moving
<1>13. Commanded(r, program)
  <2>1. Issued(r) = Issued(u) BY <1>7 DEF Issued
  <2> QED BY <1>1, <1>7, <1>9, <1>11, <2>1 DEF Commanded
<1>14. Fits(r) BY <1>3, <1>5, <1>11 DEF Leads, Fits, Place
<1>15. Honest(fdc, r)
  <2>1. Honest(u, r) BY <1>6 DEF Kept
  <2> QED BY <1>1, <2>1, HonestTwice
<1>16. Homing(fdc) => Homing(r)
  <2>1. r.head = fdc.head /\ r.track = fdc.track BY <1>1, <1>3, <1>5 DEF Leads, Goes, Still
  <2>2. r.timer \in {"none", "done"} BY <1>1, <1>3, <1>5, <1>10 DEF Leads, Goes, Place
  <2> QED BY <1>1, <1>7, <1>10, <2>1, <2>2 DEF Homing
<1> QED BY <1>7, <1>8, <1>9, <1>10, <1>12, <1>13, <1>14, <1>15, <1>16 DEF Onward, Sound, r, edge


-----------------------------------------------------------------------------
(* The bytes, one action each.                                               *)

\* In a state that only the disc moves on, the byte finds the command there.
LEMMA ByteFinds ==
  ASSUME Sound(fdc, program), NEW pulse \in BOOLEAN, fdc.state \notin {"idle", "timer_wait"}
  PROVE  At(Begins(pulse), fdc.state, Edge(pulse))
<1>1. Begins(pulse) \in Fdcs /\ Counts(fdc, Begins(pulse)) /\ Place(fdc, Begins(pulse)) BY BeginsKeeps
<1>2. fdc.timer = "none" /\ FitsAt(fdc.state, fdc.count, fdc.indexCount, fdc.crcSecond)
  BY DEF Sound, Moving, Fits
<1>3. Edge(pulse) \in BOOLEAN BY DEF Edge, Sound, Fdcs
<1> QED BY <1>1, <1>2, <1>3 DEF At, Counts, Place

\* The level of the index sensor is TRUE or FALSE.
LEMMA LevelsAreBoolean == IndexLevels(fdc) \subseteq BOOLEAN
BY DEF IndexLevels

\* The action of a byte, by what its state makes of it.  This one waits for the index pulse.
LEMMA WaitIndexByteIsOnward ==
  ASSUME Sound(fdc, program), WaitIndexByte
  PROVE  Onward(fdc')
<1>1. PICK pulse \in BOOLEAN : \E g \in WaitIndex(Begins(pulse), pulse, Edge(pulse)) : fdc' = Passed(g, Edge(pulse))
  BY LevelsAreBoolean DEF WaitIndexByte, OnByte, Begins, Sensed, Edge, Passed, After
<1>2. PICK g \in WaitIndex(Begins(pulse), pulse, Edge(pulse)) : fdc' = Passed(g, Edge(pulse)) BY <1>1
<1>3. fdc.state = "wait_index" BY DEF WaitIndexByte, OnByte
<1>4. Leads(Begins(pulse), g, Edge(pulse)) BY <1>3, ByteFinds, WaitIndexLeads DEF Sound
<1> QED BY <1>2, <1>3, <1>4, LeadsOnward


\* A byte of the write delay.
LEMMA WriteDelayByteIsOnward ==
  ASSUME Sound(fdc, program), WriteDelayByte
  PROVE  Onward(fdc')
<1>1. PICK pulse \in BOOLEAN : \E g \in WriteSectorDelay(Begins(pulse), pulse, Edge(pulse)) : fdc' = Passed(g, Edge(pulse))
  BY LevelsAreBoolean DEF WriteDelayByte, OnByte, Begins, Sensed, Edge, Passed, After
<1>2. PICK g \in WriteSectorDelay(Begins(pulse), pulse, Edge(pulse)) : fdc' = Passed(g, Edge(pulse)) BY <1>1
<1>3. fdc.state = "write_sector_delay" BY DEF WriteDelayByte, OnByte
<1>4. Leads(Begins(pulse), g, Edge(pulse)) BY <1>3, ByteFinds, WriteSectorDelayLeads
<1> QED BY <1>2, <1>3, <1>4, LeadsOnward

\* A byte of the lead-in.
LEMMA LeadInByteIsOnward ==
  ASSUME Sound(fdc, program), LeadInByte
  PROVE  Onward(fdc')
<1>1. PICK pulse \in BOOLEAN : \E g \in WriteSectorLeadIn(Begins(pulse), pulse, Edge(pulse)) : fdc' = Passed(g, Edge(pulse))
  BY LevelsAreBoolean DEF LeadInByte, OnByte, Begins, Sensed, Edge, Passed, After
<1>2. PICK g \in WriteSectorLeadIn(Begins(pulse), pulse, Edge(pulse)) : fdc' = Passed(g, Edge(pulse)) BY <1>1
<1>3. fdc.state = "write_sector_lead_in" BY DEF LeadInByte, OnByte
<1>4. Leads(Begins(pulse), g, Edge(pulse)) BY <1>3, ByteFinds, WriteSectorLeadInLeads
<1> QED BY <1>2, <1>3, <1>4, LeadsOnward

\* A byte of the data that is written.
LEMMA BodyByteIsOnward ==
  ASSUME Sound(fdc, program), BodyByte
  PROVE  Onward(fdc')
<1>1. PICK pulse \in BOOLEAN : \E g \in WriteSectorBody(Begins(pulse), pulse, Edge(pulse)) : fdc' = Passed(g, Edge(pulse))
  BY LevelsAreBoolean DEF BodyByte, OnByte, Begins, Sensed, Edge, Passed, After
<1>2. PICK g \in WriteSectorBody(Begins(pulse), pulse, Edge(pulse)) : fdc' = Passed(g, Edge(pulse)) BY <1>1
<1>3. fdc.state = "write_sector_body" BY DEF BodyByte, OnByte
<1>4. Leads(Begins(pulse), g, Edge(pulse)) BY <1>3, ByteFinds, WriteSectorBodyLeads
<1> QED BY <1>2, <1>3, <1>4, LeadsOnward

\* The byte after a sector.
LEMMA CheckMultiByteIsOnward ==
  ASSUME Sound(fdc, program), CheckMultiByte
  PROVE  Onward(fdc')
<1>1. PICK pulse \in BOOLEAN : \E g \in CheckMulti(Begins(pulse), pulse, Edge(pulse)) : fdc' = Passed(g, Edge(pulse))
  BY LevelsAreBoolean DEF CheckMultiByte, OnByte, Begins, Sensed, Edge, Passed, After
<1>2. PICK g \in CheckMulti(Begins(pulse), pulse, Edge(pulse)) : fdc' = Passed(g, Edge(pulse)) BY <1>1
<1>3. fdc.state = "check_multi" BY DEF CheckMultiByte, OnByte
<1>4. Leads(Begins(pulse), g, Edge(pulse)) BY <1>3, ByteFinds, CheckMultiLeads
<1> QED BY <1>2, <1>3, <1>4, LeadsOnward

\* A byte before a track is written.
LEMMA WriteTrackSetupByteIsOnward ==
  ASSUME Sound(fdc, program), WriteTrackSetupByte
  PROVE  Onward(fdc')
<1>1. PICK pulse \in BOOLEAN : \E g \in WriteTrackSetup(Begins(pulse), pulse, Edge(pulse)) : fdc' = Passed(g, Edge(pulse))
  BY LevelsAreBoolean DEF WriteTrackSetupByte, OnByte, Begins, Sensed, Edge, Passed, After
<1>2. PICK g \in WriteTrackSetup(Begins(pulse), pulse, Edge(pulse)) : fdc' = Passed(g, Edge(pulse)) BY <1>1
<1>3. fdc.state = "write_track_setup" BY DEF WriteTrackSetupByte, OnByte
<1>4. Leads(Begins(pulse), g, Edge(pulse)) BY <1>3, ByteFinds, WriteTrackSetupLeads
<1> QED BY <1>2, <1>3, <1>4, LeadsOnward

\* A byte of a track that is written.
LEMMA WriteTrackByteIsOnward ==
  ASSUME Sound(fdc, program), WriteTrackByte
  PROVE  Onward(fdc')
<1>1. PICK pulse \in BOOLEAN : \E g \in InWriteTrack(Begins(pulse), pulse, Edge(pulse)) : fdc' = Passed(g, Edge(pulse))
  BY LevelsAreBoolean DEF WriteTrackByte, OnByte, Begins, Sensed, Edge, Passed, After
<1>2. PICK g \in InWriteTrack(Begins(pulse), pulse, Edge(pulse)) : fdc' = Passed(g, Edge(pulse)) BY <1>1
<1>3. fdc.state = "in_write_track" BY DEF WriteTrackByte, OnByte
<1>4. Leads(Begins(pulse), g, Edge(pulse)) BY <1>3, ByteFinds, InWriteTrackLeads
<1> QED BY <1>2, <1>3, <1>4, LeadsOnward

\* The byte after a command.
LEMMA DoneByteIsOnward ==
  ASSUME Sound(fdc, program), DoneByte
  PROVE  Onward(fdc')
<1>1. PICK pulse \in BOOLEAN : \E g \in Done(Begins(pulse), pulse, Edge(pulse)) : fdc' = Passed(g, Edge(pulse))
  BY LevelsAreBoolean DEF DoneByte, OnByte, Begins, Sensed, Edge, Passed, After
<1>2. PICK g \in Done(Begins(pulse), pulse, Edge(pulse)) : fdc' = Passed(g, Edge(pulse)) BY <1>1
<1>3. fdc.state = "done" BY DEF DoneByte, OnByte
<1>4. Leads(Begins(pulse), g, Edge(pulse)) BY <1>3, ByteFinds, DoneLeads
<1> QED BY <1>2, <1>3, <1>4, LeadsOnward

\* A byte that is read.
LEMMA ReadByteIsOnward ==
  ASSUME Sound(fdc, program), ReadByte
  PROVE  Onward(fdc')
<1>1. PICK pulse \in BOOLEAN : \E g \in Reading(Begins(pulse), pulse, Edge(pulse)) : fdc' = Passed(g, Edge(pulse))
  BY LevelsAreBoolean DEF ReadByte, OnByte, Begins, Sensed, Edge, Passed, After
<1>2. PICK g \in Reading(Begins(pulse), pulse, Edge(pulse)) : fdc' = Passed(g, Edge(pulse)) BY <1>1
<1>3. fdc.state \in ReadStates BY DEF ReadByte, OnByte
<1>4. At(Begins(pulse), fdc.state, Edge(pulse)) BY <1>3, ByteFinds DEF ReadStates
<1>5. Begins(pulse).state = fdc.state BY <1>4 DEF At
<1>6. Leads(Begins(pulse), g, Edge(pulse)) BY <1>3, <1>4, <1>5, ReadingLeads DEF Sound
<1> QED BY <1>2, <1>3, <1>6, LeadsOnward DEF ReadStates

\* While the timer runs the bytes pass by.
LEMMA WaitingByteIsOnward ==
  ASSUME Sound(fdc, program), WaitingByte
  PROVE  Onward(fdc')
<1>1. PICK pulse \in BOOLEAN : fdc' = Passed(Begins(pulse), Edge(pulse))
  BY LevelsAreBoolean DEF WaitingByte, OnByte, TimerWait, Begins, Sensed, Edge, Passed, After
<1> DEFINE u == Begins(pulse)
           edge == Edge(pulse)
           r == Passed(u, edge)
<1>2. fdc.state = "timer_wait" /\ fdc.indexCount < IndexBound BY DEF WaitingByte, OnByte
<1>3. /\ Still(fdc, u) /\ Counts(fdc, u) /\ Place(fdc, u)
      /\ u \in Fdcs /\ u.data = fdc.data /\ Honest(fdc, u)
      /\ Driven(u) /\ Visible(u) /\ Issued(u) = Issued(fdc)
      /\ u.current = fdc.current /\ u.type = fdc.type /\ u.command = fdc.command
      /\ (BusyIn(u) <=> BusyIn(fdc)) /\ (MotorIn(u) <=> MotorIn(fdc))
      /\ u.doRaise = fdc.doRaise
  BY BeginsKeeps
<1>4. edge \in BOOLEAN BY DEF Edge, Sound, Fdcs
<1>5. fdc' = r BY <1>1
<1> HIDE DEF u, edge
<1>6. /\ Kept(u, r) /\ Still(u, r) /\ Place(u, r)
      /\ r.indexCount = After(u.indexCount, edge) /\ r.crcSecond = u.crcSecond
      /\ r.data = u.data /\ r.doRaise = u.doRaise
  BY <1>3, <1>4, PassedKeeps
<1> HIDE DEF r

<1>7. /\ r.type = u.type /\ r.command = u.command /\ r.write = u.write /\ r.current = u.current /\ r \in Fdcs
      /\ (BusyIn(r) <=> BusyIn(u)) /\ (MotorIn(r) <=> MotorIn(u))
  BY <1>6 DEF Kept, SameDrives
<1>8. Driven(r) /\ Visible(r) BY <1>3, <1>6, <1>7, KeptStaysSound
<1>9. Moving(r) BY <1>2, <1>3, <1>6, <1>7 DEF Sound, Moving, Place
<1>10. Commanded(r, program) /\ program \in Programs
  BY <1>3, <1>6, <1>7 DEF Sound, Commanded, Issued, Place
<1>11. Fits(r)
  <2>1. r.indexCount <= IndexBound + MaxCount
    <3>1. u.indexCount \in Nat /\ u.indexCount < IndexBound BY <1>2, <1>3 DEF Counts, Fdcs
    <3> QED BY <1>6, <3>1, Sizes DEF After
  <2>2. r.state = "timer_wait" /\ r.count = fdc.count BY <1>2, <1>3, <1>6 DEF Place
  <2>3. fdc.count <= MaxCount BY DEF Sound, Fits, FitsAt
  <2> QED BY <2>1, <2>2, <2>3 DEF Fits, FitsAt, ReadStates
<1>12. Honest(fdc, r)
  <2>1. Honest(u, r) BY <1>6 DEF Kept
  <2> QED BY <1>3, <2>1, HonestTwice
<1>13. Homing(fdc) => Homing(r)
  <2>1. r.head = fdc.head /\ r.track = fdc.track /\ r.data = fdc.data BY <1>3, <1>6 DEF Still
  <2>2. r.timer = fdc.timer /\ r.state = fdc.state BY <1>3, <1>6 DEF Place
  <2>3. r.doRaise = fdc.doRaise BY <1>3, <1>6
  <2> QED BY <1>3, <1>7, <2>1, <2>2, <2>3 DEF Homing, Approaches
<1> QED BY <1>3, <1>5, <1>6, <1>7, <1>8, <1>9, <1>10, <1>11, <1>12, <1>13 DEF Onward, Sound, Place


\* A command runs, wherever it has got to.
Running(f) ==
  /\ program \in Programs /\ f \in Fdcs /\ Driven(f) /\ Visible(f)
  /\ BusyIn(f) /\ MotorIn(f) /\ f.current \in Drives
  /\ Issued(f) /\ f.command \in program.commands

\* What keeps the drives and the parameters lets a command run on.
LEMMA KeptRuns ==
  ASSUME NEW f, NEW g, Running(f), Kept(f, g)
  PROVE  Running(g)
<1>1. /\ g.type = f.type /\ g.command = f.command /\ g.write = f.write /\ g.current = f.current /\ g \in Fdcs
      /\ (BusyIn(g) <=> BusyIn(f)) /\ (MotorIn(g) <=> MotorIn(f))
  BY DEF Kept, SameDrives
<1>2. Driven(g) /\ Visible(g) BY <1>1, KeptStaysSound DEF Running
<1> QED BY <1>1, <1>2 DEF Running, Issued

\* A sound chip that is not idle runs a command, before and after it has looked at its sensors.
LEMMA SoundRuns ==
  ASSUME Sound(fdc, program), fdc.state # "idle"
  PROVE  Running(fdc) /\ \A pulse \in BOOLEAN : Running(Begins(pulse))
<1>1. Running(fdc) BY DEF Sound, Running, Moving, Commanded
<1>2. ASSUME NEW pulse \in BOOLEAN PROVE Running(Begins(pulse))
  <2> DEFINE u == Begins(pulse)
  <2>1. /\ u \in Fdcs /\ Driven(u) /\ Visible(u) /\ Issued(u) = Issued(fdc)
        /\ u.current = fdc.current /\ u.command = fdc.command
        /\ (BusyIn(u) <=> BusyIn(fdc)) /\ (MotorIn(u) <=> MotorIn(fdc))
    BY BeginsKeeps
  <2> HIDE DEF u
  <2>2. Running(u) BY <1>1, <2>1 DEF Running
  <2> QED BY <2>2 DEF u
<1> QED BY <1>1, <1>2

\* A command that runs in a state it fits leaves the chip sound.
LEMMA RunningIsSound ==
  ASSUME NEW f, Running(f), f.state # "idle", f.timer # "none" <=> f.state = "timer_wait", Fits(f)
  PROVE  Sound(f, program)
BY DEF Running, Sound, Moving, Commanded

\* Where a command begins it fits.
LEMMA BegunIsSound ==
  ASSUME NEW f, NEW g, Running(f), Begun(f, g), f.count <= MaxCount, f.indexCount <= IndexBound + MaxCount
  PROVE  Sound(g, program)
<1>1. Running(g) BY KeptRuns DEF Begun
<1>2. g.state # "idle" /\ (g.timer # "none" <=> g.state = "timer_wait") BY DEF Begun
<1>3. Fits(g)
  <2>1. CASE g.state = "timer_wait" BY <2>1 DEF Begun, Fits, FitsAt, ReadStates
  <2>2. CASE g.state # "timer_wait"
    <3>1. g.state \in {"search_id", "wait_index", "write_track_setup"} /\ g.count = 0 /\ g.indexCount = 0
      BY <2>2 DEF Begun
    <3> QED BY <3>1, Sizes DEF Fits, FitsAt, ReadStates
  <2> QED BY <2>1, <2>2
<1> QED BY <1>1, <1>2, <1>3, RunningIsSound

\* The pulse that completes a spin-up is not counted again at the next byte.
LEMMA SpinUpByteIsOnward ==
  ASSUME Sound(fdc, program), SpinUpByte
  PROVE  Onward(fdc')
<1>1. PICK pulse \in BOOLEAN : \E g \in SpinUpWait(Begins(pulse), pulse, Edge(pulse)) : fdc' = Passed(g, Edge(pulse))
  BY LevelsAreBoolean DEF SpinUpByte, OnByte, Begins, Sensed, Edge, Passed, After
<1> DEFINE u == Begins(pulse)
           edge == Edge(pulse)
           b == WithBit(u, SpinUpDone, TRUE)
           t == IF u.type = 1 THEN b ELSE u
           x == IF u.indexCount # SpinUpPulses THEN u
                ELSE IF u.settle THEN StartTimer(t, "settle") ELSE Dispatch(t, pulse)
           r == Passed(x, edge)
<1>2. fdc' = r BY <1>1 DEF SpinUpWait
<1>3. fdc.state = "spin_up_wait" BY DEF SpinUpByte, OnByte
<1>4. /\ Still(fdc, u) /\ Counts(fdc, u) /\ Place(fdc, u) /\ u \in Fdcs /\ Honest(fdc, u) /\ u.type = fdc.type
      /\ u.pulse = pulse
  BY BeginsKeeps
<1>5. Running(u) BY <1>3, SoundRuns
<1>6. edge \in BOOLEAN /\ (fdc.pulse => ~edge) /\ (edge => pulse) BY DEF Edge, Sound, Fdcs
<1>7. /\ fdc.timer = "none" /\ u.indexCount \in Nat /\ u.indexCount <= SpinUpPulses /\ u.count <= MaxCount
      /\ (u.indexCount = SpinUpPulses => fdc.pulse)
  BY <1>3, <1>4 DEF Sound, Moving, Fits, FitsAt, Place, Counts, Fdcs
<1> HIDE DEF u, edge
<1>8. CASE u.indexCount # SpinUpPulses
  <2>1. x = u BY <1>8
  <2> HIDE DEF x
  <2>2. /\ Kept(u, r) /\ Still(u, r) /\ Place(u, r) /\ r.indexCount = After(u.indexCount, edge)
    BY <1>4, <1>6, <2>1, PassedKeeps
  <2> HIDE DEF r
  <2>3. Running(r) BY <1>5, <2>2, KeptRuns
  <2>4. r.pulse = pulse BY <1>4, <2>2 DEF Kept, SameDrives
  <2>5. r.indexCount <= SpinUpPulses /\ (r.indexCount = SpinUpPulses => edge) /\ r.indexCount \in Nat
    BY <1>6, <1>7, <1>8, <2>2, Sizes DEF After
  <2>6. r.state = "spin_up_wait" /\ r.timer = "none" /\ r.count <= MaxCount BY <1>3, <1>4, <1>7, <2>2 DEF Place
  <2>7. Fits(r)
    <3>1. r.indexCount <= IndexBound + MaxCount BY <2>5, Sizes
    <3> QED BY <1>6, <2>4, <2>5, <2>6, <3>1 DEF Fits, FitsAt, ReadStates
  <2>8. Sound(r, program) BY <2>3, <2>6, <2>7, RunningIsSound
  <2>9. Honest(fdc, r) BY <1>4, <2>2, HonestTwice DEF Kept
  <2> QED BY <1>2, <1>7, <2>6, <2>8, <2>9 DEF Onward, Homing
<1>9. CASE u.indexCount = SpinUpPulses
  <2>1. edge = FALSE BY <1>6, <1>7, <1>9
  <2>2. Kept(u, t) /\ Counts(u, t) /\ Place(u, t)
    <3>1. u.type = 1 => Goes(u, b) /\ Counts(u, b) /\ Place(u, b) BY <1>4, WithBitGoes
    <3>2. Goes(u, u) /\ Counts(u, u) /\ Place(u, u) BY <1>4, GoesItself DEF Place
    <3> QED BY <3>1, <3>2 DEF Goes
  <2>3. x = IF u.settle THEN StartTimer(t, "settle") ELSE Dispatch(t, pulse) BY <1>9
  <2> HIDE DEF t, x
  <2>4. Running(t) BY <1>5, <2>2, KeptRuns
  <2>5. t \in Fdcs /\ t.timer = "none" /\ t.count <= MaxCount /\ t.indexCount \in Nat
        /\ t.indexCount <= IndexBound + MaxCount
    BY <1>4, <1>7, <2>2, Sizes DEF Kept, Place, Counts
  <2>6. Kept(t, x) /\ Sound(x, program) /\ Homing(x)
    <3>1. CASE u.settle
      <4>1. x = StartTimer(t, "settle") BY <2>3, <3>1
      <4>2. "settle" \in Timers \ {"none"} BY DEF Timers
      <4>3. Kept(t, x) /\ Counts(t, x) /\ x.count = t.count /\ x.timer = "settle" /\ x.state = "timer_wait"
        BY <2>5, <4>1, <4>2, StartTimerKeeps
      <4>4. Running(x) BY <2>4, <4>3, KeptRuns
      <4>5. Fits(x) BY <2>5, <4>3 DEF Counts, Fits, FitsAt, ReadStates
      <4> QED BY <4>3, <4>4, <4>5, RunningIsSound DEF Homing
    <3>2. CASE ~u.settle
      <4>1. x = Dispatch(t, pulse) BY <2>3, <3>2
      <4>2. Begun(t, x) /\ Homing(x) BY <2>4, <2>5, <4>1, DispatchBegins DEF Running
      <4> QED BY <2>4, <2>5, <4>2, BegunIsSound DEF Begun
    <3> QED BY <3>1, <3>2
  <2>7. x \in Fdcs BY <2>6 DEF Kept
  <2>8. r = x BY <2>1, <2>7 DEF Passed, After, Fdcs
  <2>9. Honest(fdc, x)
    <3>1. Honest(fdc, t) BY <1>4, <2>2, HonestTwice DEF Kept
    <3>2. t.type = fdc.type BY <1>4, <2>2 DEF Kept, SameDrives
    <3> QED BY <2>6, <3>1, <3>2, HonestTwice DEF Kept
  <2> HIDE DEF r
  <2> QED BY <1>2, <1>7, <2>6, <2>8, <2>9 DEF Onward
<1> QED BY <1>8, <1>9

\* An idle motor stops; nothing else happens while the chip is idle.
LEMMA IdleByteIsOnward ==
  ASSUME Sound(fdc, program), IdleByte
  PROVE  Onward(fdc')
<1>1. PICK pulse \in BOOLEAN : \E g \in Idle(Begins(pulse), pulse, Edge(pulse)) : fdc' = Passed(g, Edge(pulse))
  BY LevelsAreBoolean DEF IdleByte, OnByte, Begins, Sensed, Edge, Passed, After
<1> DEFINE u == Begins(pulse)
           edge == Edge(pulse)
           gone == {MotorOn} \cup IF u.type = 1 THEN {Track0, Index} ELSE {}
           h == [u EXCEPT !.spinning[u.current] = FALSE, !.status = @ \ gone]
           x == IF u.indexCount # SpinDownPulses THEN u ELSE h
           r == Passed(x, edge)
<1>2. /\ Still(fdc, u) /\ Counts(fdc, u) /\ Place(fdc, u) /\ u \in Fdcs /\ Honest(fdc, u) /\ u.type = fdc.type
      /\ Driven(u) /\ Visible(u)
      /\ u.current = fdc.current /\ (BusyIn(u) <=> BusyIn(fdc)) /\ (MotorIn(u) <=> MotorIn(fdc))
  BY BeginsKeeps
<1>3. fdc.state = "idle" /\ \E d \in Drives : fdc.spinning[d] BY DEF IdleByte, OnByte
<1>4. fdc.current \in Drives /\ MotorIn(fdc) BY <1>3 DEF Sound, Driven
<1>5. u.spinning[u.current] BY <1>2, <1>4 DEF Driven
<1>6. /\ fdc.timer = "none" /\ ~BusyIn(fdc) /\ u.indexCount \in Nat /\ u.indexCount <= SpinDownPulses
      /\ u.count <= MaxCount
  BY <1>2, <1>3, <1>4 DEF Sound, Moving, Fits, FitsAt, Counts, Place, Fdcs
<1>7. edge \in BOOLEAN BY DEF Edge, Sound, Fdcs
<1>8. fdc' = r BY <1>1, <1>5 DEF Idle, StopSpinning
<1> HIDE DEF u, edge
<1>9. /\ x \in Fdcs /\ Driven(x) /\ Visible(x) /\ ~BusyIn(x) /\ Place(u, x) /\ Counts(u, x) /\ Honest(u, x)
      /\ (u.indexCount = SpinDownPulses => ~MotorIn(x)) /\ x.type = u.type
  <2>1. CASE u.indexCount # SpinDownPulses
    <3>1. x = u BY <2>1
    <3> HIDE DEF x
    <3> QED BY <1>2, <1>6, <2>1, <3>1 DEF Place, Counts, Honest
  <2>2. CASE u.indexCount = SpinDownPulses
    <3>1. x = h BY <2>2
    <3>2. MotorOn \in gone /\ gone \subseteq {MotorOn, Track0, Index} OBVIOUS
    <3>3. Transfers(u) => gone = {MotorOn} BY DEF Transfers
    <3>4. MotorOn # Drq /\ MotorOn # LostByte BY DEF MotorOn, Drq, LostByte
    <3> HIDE DEF gone, x
    <3>5. h \in Fdcs BY <1>2 DEF Fdcs
    <3>6. /\ h.status = u.status \ gone /\ h.current = u.current /\ h.type = u.type /\ h.drq = u.drq /\ h.data = u.data
          /\ h.spinning = [u.spinning EXCEPT ![u.current] = FALSE] /\ h.failed = u.failed
          /\ Place(u, h) /\ Counts(u, h)
      BY <1>2 DEF Fdcs, Place, Counts
    <3> HIDE DEF h
    <3>7. Driven(h)
      <4>1. ~MotorIn(h) BY <3>2, <3>6 DEF MotorIn
      <4>2. \A d \in Drives : ~h.spinning[d] BY <1>2, <3>6 DEF Driven, Fdcs
      <4> QED BY <1>2, <3>6, <4>1, <4>2 DEF Driven
    <3>8. ~BusyIn(h) /\ ~MotorIn(h) BY <1>2, <1>6, <3>2, <3>6 DEF BusyIn, MotorIn
    <3>9. Visible(h) /\ Honest(u, h)
      BY <1>2, <3>3, <3>4, <3>6 DEF Visible, Honest, Transfers, LostIn, Waiting
    <3> QED BY <3>1, <3>5, <3>6, <3>7, <3>8, <3>9
  <2> QED BY <2>1, <2>2
<1> HIDE DEF x, h
<1>10. Kept(x, r) /\ Place(x, r) /\ r.indexCount = After(x.indexCount, edge) BY <1>7, <1>9, PassedKeeps
<1> HIDE DEF r
<1>11. r \in Fdcs /\ ~BusyIn(r) /\ (MotorIn(r) <=> MotorIn(x)) /\ r.type = x.type
  BY <1>9, <1>10 DEF Kept, SameDrives
<1>12. Driven(r) /\ Visible(r) BY <1>9, <1>10, <1>11, KeptStaysSound
<1>13. r.state = "idle" /\ r.timer = "none" /\ r.count <= MaxCount BY <1>2, <1>3, <1>6, <1>9, <1>10 DEF Place
<1>14. r.indexCount \in Nat /\ r.indexCount <= SpinDownPulses + 1 /\ (MotorIn(r) => r.indexCount <= SpinDownPulses)
  <2>1. x.indexCount = u.indexCount BY <1>9 DEF Counts
  <2>2. SpinDownPulses \in Nat BY Sizes
  <2> QED BY <1>6, <1>7, <1>9, <1>10, <1>11, <2>1, <2>2 DEF After
<1>15. Fits(r)
  <2>1. r.indexCount <= IndexBound + MaxCount BY <1>14, Sizes
  <2> QED BY <1>13, <1>14, <2>1 DEF Fits, FitsAt, ReadStates
<1>16. Honest(fdc, r)
  <2>1. Honest(fdc, x) BY <1>2, <1>9, HonestTwice
  <2> QED BY <1>2, <1>9, <1>10, <2>1, HonestTwice DEF Kept
<1>17. Sound(r, program) BY <1>11, <1>12, <1>13, <1>15 DEF Sound, Moving, Commanded
<1> QED BY <1>6, <1>8, <1>13, <1>16, <1>17 DEF Onward, Homing


-----------------------------------------------------------------------------
(* The 6502, the user and the timer, one action each.                        *)

\* What every step does: the chip stays sound, the report of a loss stays as long
\* as the command, a restore that is left alone goes home, and what a finished
\* command did is not undone as it is reported.
Acts ==
  /\ Sound(fdc', program)
  /\ BusyIn(fdc) /\ BusyIn(fdc') /\ Transfers(fdc) /\ LostIn(fdc) => LostIn(fdc')
  /\ ~program.rewrites /\ Homing(fdc) => Homing(fdc')
  /\ fdc.timer = "done" /\ fdc'.timer # "done" /\ ~fdc'.reset => Still(fdc, fdc')

\* A byte is a step like the others.
LEMMA OnwardActs ==
  ASSUME Onward(fdc')
  PROVE  Acts
BY DEF Onward, Acts, Honest

\* The drives after the one that spins has been stopped.
AllStopped == [d \in Drives |-> FALSE]

\* Stopping the selected drive, if it spins, stops all; none is stopped twice.
LEMMA StopsAll ==
  ASSUME Sound(fdc, program)
  PROVE  LET stopped == IF Current # None /\ fdc.spinning[Current] THEN StopSpinning(fdc, Current) ELSE fdc
         IN  stopped \in Fdcs /\ stopped = [fdc EXCEPT !.spinning = AllStopped]
<1>1. fdc \in Fdcs /\ None \notin Drives /\ fdc.current \in Drives \cup {None} /\ fdc.spinning \in [Drives -> BOOLEAN]
  BY WdAssumption DEF Sound, Fdcs, WdAssumption
<1>2. \A d \in Drives : fdc.spinning[d] => d = fdc.current BY DEF Sound, Driven
<1>3. AllStopped \in [Drives -> BOOLEAN] BY DEF AllStopped
<1>4. CASE fdc.current # None /\ fdc.spinning[fdc.current]
  <2>1. [fdc.spinning EXCEPT ![fdc.current] = FALSE] = AllStopped BY <1>1, <1>2, <1>4 DEF AllStopped
  <2> QED BY <1>1, <1>3, <1>4, <2>1 DEF Fdcs, Current, StopSpinning
<1>5. CASE ~(fdc.current # None /\ fdc.spinning[fdc.current])
  <2>1. fdc.spinning = AllStopped BY <1>1, <1>2, <1>5 DEF AllStopped
  <2> QED BY <1>1, <1>5, <2>1 DEF Fdcs, Current
<1> QED BY <1>4, <1>5

\* A chip at rest: no command, no timer, no motor.
AtRest(f) ==
  /\ f \in Fdcs /\ f.state = "idle" /\ f.timer = "none" /\ f.count = 0 /\ f.indexCount = 0
  /\ f.status = {} /\ ~f.drq /\ f.spinning = AllStopped /\ f.failed \notin Twice

\* A chip at rest is sound.
LEMMA AtRestIsSound ==
  ASSUME NEW f, AtRest(f), program \in Programs
  PROVE  Sound(f, program) /\ Homing(f) /\ ~BusyIn(f)
<1>1. ~MotorIn(f) /\ ~BusyIn(f) /\ Drq \notin f.status BY DEF AtRest, MotorIn, BusyIn
<1>2. Driven(f) BY <1>1 DEF AtRest, Driven, AllStopped
<1>3. Moving(f) /\ Visible(f) /\ Commanded(f, program) BY <1>1 DEF AtRest, Moving, Visible, Commanded
<1>4. Fits(f) BY <1>1, Sizes DEF AtRest, Fits, FitsAt, ReadStates
<1> QED BY <1>1, <1>2, <1>3, <1>4 DEF Sound, Homing, AtRest

\* The control register moves the motor from drive to drive, or resets the chip (wd_fdc_write_control).
LEMMA ControlActs ==
  ASSUME Sound(fdc, program), Control
  PROVE  Acts
<1>1. PICK drive \in Drives \cup {None}, reset \in BOOLEAN : WriteControl(drive, reset)
  BY WdAssumption DEF Control, WdAssumption, Sound
<1> DEFINE stopped == IF Current # None /\ fdc.spinning[Current] THEN StopSpinning(fdc, Current) ELSE fdc
           chosen == [stopped EXCEPT !.current = drive, !.reset = reset]
           started == IF drive # None /\ IsMotorOn THEN StartSpinning(chosen, drive) ELSE chosen
           cleared == ClearState(started)
           halted == IF drive # None /\ IsMotorOn THEN StopSpinning(cleared, drive) ELSE cleared
           rested == [halted EXCEPT !.status = {}, !.sector = 1, !.intrq = FALSE, !.drq = FALSE, !.pulse = FALSE]
           spins == IF drive # None /\ IsMotorOn THEN [AllStopped EXCEPT ![drive] = TRUE] ELSE AllStopped
<1>2. /\ IsBusy => reset
      /\ fdc' = IF reset THEN rested ELSE started
  BY <1>1 DEF WriteControl
<1>3. stopped \in Fdcs /\ stopped = [fdc EXCEPT !.spinning = AllStopped] BY StopsAll
<1> HIDE DEF stopped
<1>4. /\ fdc \in Fdcs /\ None \notin Drives /\ fdc.failed \notin Twice
      /\ AllStopped \in [Drives -> BOOLEAN] /\ \A d \in Drives : ~AllStopped[d]
      /\ program \in Programs
  BY WdAssumption DEF Sound, Driven, WdAssumption, AllStopped
<1>5. spins \in [Drives -> BOOLEAN] /\ \A d \in Drives : spins[d] <=> d = drive /\ IsMotorOn
  BY <1>4
<1>6. started = [fdc EXCEPT !.current = drive, !.reset = reset, !.spinning = spins]
  <2>1. chosen = [fdc EXCEPT !.spinning = AllStopped, !.current = drive, !.reset = reset]
    BY <1>3, <1>4 DEF Fdcs
  <2> HIDE DEF chosen
  <2>2. chosen.spinning = AllStopped BY <1>4, <2>1 DEF Fdcs
  <2>3. drive # None => ~chosen.spinning[drive] BY <1>4, <2>2
  <2> QED BY <1>4, <2>1, <2>2, <2>3 DEF StartSpinning, Fdcs
<1> HIDE DEF spins, started, chosen
<1>7. started \in Fdcs BY <1>4, <1>5, <1>6 DEF Fdcs
<1>8. CASE reset
  <2>1. fdc' = rested BY <1>2, <1>8
  <2>2. "restore" \in AllCommands /\ "idle" \in States /\ "none" \in Timers /\ 0 \in Nat
    BY DEF AllCommands, States, Timers
  <2>3. /\ cleared \in Fdcs /\ cleared.spinning = spins /\ cleared.state = "idle" /\ cleared.count = 0
        /\ cleared.timer = "none" /\ cleared.indexCount = 0 /\ cleared.failed = fdc.failed /\ cleared.reset = reset
    <3>1. cleared \in Fdcs BY <1>7, <2>2 DEF ClearState, Forget, Fdcs
    <3>2. started.spinning = spins /\ started.failed = fdc.failed /\ started.reset = reset
      BY <1>4, <1>6 DEF Fdcs
    <3> QED BY <1>7, <3>1, <3>2 DEF ClearState, Forget, Fdcs
  <2> HIDE DEF cleared
  <2>4. /\ halted \in Fdcs /\ halted.spinning = AllStopped /\ halted.state = "idle" /\ halted.count = 0
        /\ halted.timer = "none" /\ halted.indexCount = 0 /\ halted.failed = fdc.failed /\ halted.reset = reset
    <3>1. CASE drive # None /\ IsMotorOn
      <4>1. cleared.spinning[drive] BY <1>1, <1>4, <1>5, <2>3, <3>1
      <4>2. halted = [cleared EXCEPT !.spinning[drive] = FALSE] BY <3>1, <4>1 DEF StopSpinning
      <4>3. [spins EXCEPT ![drive] = FALSE] = AllStopped BY <1>1, <1>4, <1>5, <3>1 DEF AllStopped
      <4> QED BY <1>1, <1>4, <2>3, <3>1, <4>2, <4>3 DEF Fdcs
    <3>2. CASE ~(drive # None /\ IsMotorOn)
      <4>1. halted = cleared /\ spins = AllStopped BY <3>2 DEF spins
      <4> QED BY <2>3, <4>1
    <3> QED BY <3>1, <3>2
  <2> HIDE DEF halted
  <2>5. 1 \in Registers /\ {} \subseteq Bits BY WdAssumption DEF WdAssumption, Registers
  <2>6. rested \in Fdcs BY <2>4, <2>5 DEF Fdcs
  <2>7. AtRest(rested) /\ rested.reset = reset BY <1>4, <2>4, <2>6 DEF AtRest, Fdcs
  <2> HIDE DEF rested
  <2> QED BY <1>4, <1>8, <2>1, <2>7, AtRestIsSound DEF Acts
<1>9. CASE ~reset
  <2>1. fdc' = started /\ ~IsBusy BY <1>2, <1>9
  <2>2. /\ fdc.state = "idle" /\ fdc.timer = "none" /\ ~BusyIn(fdc)
    BY <2>1 DEF Sound, Moving, IsBusy, BusyIn
  <2>3. /\ fdc'.state = fdc.state /\ fdc'.timer = fdc.timer /\ fdc'.status = fdc.status /\ fdc'.drq = fdc.drq
        /\ fdc'.type = fdc.type /\ fdc'.current = drive /\ fdc'.spinning = spins /\ fdc'.failed = fdc.failed
        /\ fdc'.count = fdc.count /\ fdc'.indexCount = fdc.indexCount /\ fdc'.crcSecond = fdc.crcSecond
        /\ fdc' \in Fdcs
    BY <1>4, <1>6, <1>7, <2>1 DEF Fdcs
  <2>4. Driven(fdc') BY <1>4, <1>5, <2>3 DEF Driven, MotorIn, IsMotorOn
  <2>5. Moving(fdc') /\ Visible(fdc') /\ Commanded(fdc', program) /\ Fits(fdc') /\ ~BusyIn(fdc')
    BY <2>2, <2>3 DEF Sound, Moving, Visible, Transfers, Commanded, Fits, BusyIn, MotorIn
  <2> QED BY <1>4, <2>2, <2>3, <2>4, <2>5 DEF Acts, Sound, Homing
<1> QED BY <1>8, <1>9

\* The power-on reset leaves the chip at rest.
LEMMA PowerOnResetActs ==
  ASSUME Sound(fdc, program), PowerOnReset
  PROVE  Acts
<1> DEFINE stopped == IF Current # None /\ fdc.spinning[Current] THEN StopSpinning(fdc, Current) ELSE fdc
           c == ClearState(stopped)
           heads == [d \in Drives |-> 0]
<1>1. fdc' = [c EXCEPT !.current = None, !.reset = TRUE, !.status = {}, !.sector = 1,
                !.intrq = FALSE, !.drq = FALSE, !.pulse = FALSE, !.track = 0, !.data = 0, !.head = heads]
  BY DEF PowerOnReset
<1>2. stopped \in Fdcs /\ stopped = [fdc EXCEPT !.spinning = AllStopped] BY StopsAll
<1> HIDE DEF stopped
<1>3. fdc \in Fdcs /\ fdc.failed \notin Twice /\ program \in Programs BY DEF Sound, Driven
<1>4. stopped.spinning = AllStopped /\ stopped.failed = fdc.failed BY <1>2, <1>3 DEF Fdcs, AllStopped
<1>5. "restore" \in AllCommands /\ "idle" \in States /\ "none" \in Timers /\ 0 \in Nat
  BY DEF AllCommands, States, Timers
<1>6. c \in Fdcs BY <1>2, <1>5 DEF ClearState, Forget, Fdcs
<1>7. /\ c.spinning = AllStopped /\ c.state = "idle" /\ c.count = 0
      /\ c.timer = "none" /\ c.indexCount = 0 /\ c.failed = fdc.failed
  BY <1>2, <1>4, <1>6 DEF ClearState, Forget, Fdcs
<1> HIDE DEF c
<1>8. {0, 1} \subseteq Registers /\ {} \subseteq Bits /\ heads \in [Drives -> 0..MaxTrack]
  BY WdAssumption DEF WdAssumption, Registers
<1> HIDE DEF heads
<1>9. fdc' \in Fdcs BY <1>1, <1>6, <1>8 DEF Fdcs
<1>10. AtRest(fdc') /\ fdc'.reset BY <1>1, <1>3, <1>6, <1>7, <1>9 DEF AtRest, Fdcs
<1> QED BY <1>3, <1>10, AtRestIsSound DEF Acts


\* The registers: only the data register's request for a byte is answered.
LEMMA ReadStatusActs ==
  ASSUME Sound(fdc, program), ReadStatus
  PROVE  Acts
<1>1. fdc \in Fdcs BY DEF Sound
<1>2. fdc' \in Fdcs BY <1>1 DEF ReadStatus, Fdcs
<1> QED
  BY <1>1, <1>2 DEF ReadStatus, Fdcs, Acts, Sound, Driven, Moving, Visible, Transfers, Commanded, Issued, Fits,
       BusyIn, MotorIn, LostIn, Homing, Approaches, Still

\* The data register answers a request for a byte, in the line and in the status.
LEMMA AccessDataActs ==
  ASSUME Sound(fdc, program), NEW byte \in Registers, AccessData(byte),
         BusyIn(fdc) /\ fdc.type = 1 /\ ~program.rewrites => byte = fdc.data
  PROVE  Acts
<1> DEFINE status == IF fdc.type \in {2, 3} THEN fdc.status \ {Drq} ELSE fdc.status
           drq == IF fdc.type \in {2, 3} THEN FALSE ELSE fdc.drq
<1>1. fdc \in Fdcs BY DEF Sound
<1>2. fdc' = [fdc EXCEPT !.status = status, !.drq = drq, !.data = byte]
  <2>1. CASE fdc.type \in {2, 3} BY <2>1, <1>1 DEF AccessData, SetDrq, Fdcs
  <2>2. CASE fdc.type \notin {2, 3} BY <2>2, <1>1 DEF AccessData, Fdcs
  <2> QED BY <2>1, <2>2
<1>3. status \in SUBSET Bits /\ drq \in BOOLEAN BY <1>1 DEF Fdcs
<1>4. /\ MotorOn \in status <=> MotorOn \in fdc.status
      /\ Busy \in status <=> Busy \in fdc.status
      /\ LostByte \in status <=> LostByte \in fdc.status
  BY DEF MotorOn, Busy, LostByte, Drq
<1>5. fdc.type \in {2, 3} => (drq <=> Drq \in status) OBVIOUS
<1> HIDE DEF status, drq
<1>6. fdc' \in Fdcs BY <1>1, <1>2, <1>3 DEF Fdcs
<1>7. /\ fdc'.status = status /\ fdc'.drq = drq /\ fdc'.data = byte
      /\ fdc'.type = fdc.type /\ fdc'.command = fdc.command /\ fdc'.write = fdc.write /\ fdc'.current = fdc.current
      /\ fdc'.spinning = fdc.spinning /\ fdc'.failed = fdc.failed /\ fdc'.pulse = fdc.pulse
      /\ fdc'.doRaise = fdc.doRaise
      /\ Still(fdc, fdc') /\ Counts(fdc, fdc') /\ Place(fdc, fdc')
  BY <1>1, <1>2 DEF Fdcs, Still, Counts, Place
<1>8. Sound(fdc', program)
  BY <1>4, <1>5, <1>6, <1>7
  DEF Sound, Driven, Moving, Visible, Transfers, Commanded, Issued, Fits, BusyIn, MotorIn, Counts, Place
<1>9. LostIn(fdc) => LostIn(fdc') BY <1>4, <1>7 DEF LostIn
<1>10. ~program.rewrites /\ Homing(fdc) => Homing(fdc')
  <2>1. SUFFICES ASSUME ~program.rewrites, Homing(fdc) PROVE Homing(fdc') OBVIOUS
  <2>2. ASSUME fdc.timer = "seek", fdc.command = "restore" PROVE byte = fdc.data
    <3>1. fdc.state # "idle" BY <2>2 DEF Sound, Moving
    <3>2. BusyIn(fdc) /\ fdc.type = 1 BY <2>2, <3>1 DEF Sound, Moving, Commanded, Issued, CommandType, TypeI
    <3> QED BY <2>1, <3>2
  <2> QED BY <1>7, <2>1, <2>2 DEF Homing, Approaches, Still, Place
<1> QED BY <1>7, <1>8, <1>9, <1>10 DEF Acts, Place

\* The data register is read,
LEMMA ReadDataActs ==
  ASSUME Sound(fdc, program), ReadData
  PROVE  Acts
<1>1. fdc.data \in Registers BY DEF Sound, Fdcs
<1> QED BY <1>1, AccessDataActs DEF ReadData

\* or written.
LEMMA WriteDataActs ==
  ASSUME Sound(fdc, program), WriteData
  PROVE  Acts
<1>1. PICK byte \in program.bytes : AccessData(byte) BY DEF WriteData
<1>2. byte \in Registers BY BytesAreRegisters DEF Sound
<1>3. ~(BusyIn(fdc) /\ fdc.type = 1 /\ ~program.rewrites) BY DEF WriteData, IsBusy, BusyIn
<1> QED BY <1>1, <1>2, <1>3, AccessDataActs

\* The track and sector registers are written.
LEMMA RegistersAreWritten ==
  ASSUME Sound(fdc, program), WriteTrack \/ WriteSector
  PROVE  Acts
<1>1. PICK byte \in program.registers : fdc' = [fdc EXCEPT !.track = byte] \/ fdc' = [fdc EXCEPT !.sector = byte]
  BY DEF WriteTrack, WriteSector
<1>2. byte \in Registers /\ fdc \in Fdcs BY WdAssumption DEF WdAssumption, Sound, Registers
<1>3. BusyIn(fdc) => program.rewrites BY DEF WriteTrack, WriteSector, IsBusy, BusyIn
<1>4. fdc' \in Fdcs BY <1>1, <1>2 DEF Fdcs
<1>5. /\ fdc'.status = fdc.status /\ fdc'.drq = fdc.drq
      /\ fdc'.type = fdc.type /\ fdc'.command = fdc.command /\ fdc'.write = fdc.write /\ fdc'.current = fdc.current
      /\ fdc'.spinning = fdc.spinning /\ fdc'.failed = fdc.failed /\ fdc'.pulse = fdc.pulse
      /\ Counts(fdc, fdc') /\ Place(fdc, fdc')
  BY <1>1, <1>2 DEF Fdcs, Counts, Place
<1>6. Sound(fdc', program)
  BY <1>4, <1>5
  DEF Sound, Driven, Moving, Visible, Transfers, Commanded, Issued, Fits, BusyIn, MotorIn, Counts, Place
<1>7. ~BusyIn(fdc) => fdc'.timer = "none" /\ fdc'.state = "idle" BY <1>5 DEF Sound, Moving, Place
<1> QED BY <1>3, <1>5, <1>6, <1>7 DEF Acts, LostIn, Place, Homing

\* A disc is changed under the head.
LEMMA ChangeDiscActs ==
  ASSUME Sound(fdc, program), ChangeDisc
  PROVE  Acts
<1>1. PICK d \in program.drives, m \in program.media : fdc' = [fdc EXCEPT !.media[d] = m] BY DEF ChangeDisc
<1>2. d \in Drives /\ m \in Media /\ fdc \in Fdcs BY WdAssumption DEF WdAssumption, Sound
<1>3. fdc' \in Fdcs BY <1>1, <1>2 DEF Fdcs
<1>4. /\ fdc'.status = fdc.status /\ fdc'.drq = fdc.drq /\ fdc'.data = fdc.data
      /\ fdc'.type = fdc.type /\ fdc'.command = fdc.command /\ fdc'.write = fdc.write /\ fdc'.current = fdc.current
      /\ fdc'.spinning = fdc.spinning /\ fdc'.failed = fdc.failed /\ fdc'.pulse = fdc.pulse
      /\ fdc'.doRaise = fdc.doRaise
      /\ Still(fdc, fdc') /\ Counts(fdc, fdc') /\ Place(fdc, fdc')
  BY <1>1, <1>2 DEF Fdcs, Still, Counts, Place
<1>5. Sound(fdc', program)
  BY <1>3, <1>4
  DEF Sound, Driven, Moving, Visible, Transfers, Commanded, Issued, Fits, BusyIn, MotorIn, Counts, Place
<1> QED BY <1>4, <1>5 DEF Acts, LostIn, Place, Still, Homing, Approaches


\* Force interrupt ends a command without its interrupt, and restarts the count
\* of an idle motor, or the motor.
LEMMA InterruptActs ==
  ASSUME Sound(fdc, program), Interrupt
  PROVE  Acts
<1>1. PICK onIndex \in BOOLEAN : ForceInterrupt(onIndex) BY WdAssumption DEF Interrupt, WdAssumption, Sound
<1> DEFINE status == fdc.status \cap {MotorOn}
           idle == [fdc EXCEPT !.indexCount = 0, !.type = 1, !.status = status]
           lit == [fdc EXCEPT !.indexCount = 0, !.type = 1, !.status = status \cup {MotorOn},
                              !.spinning[fdc.current] = TRUE]
           done == CommandDone(fdc, FALSE)
           aborted == IF IsBusy THEN done
                      ELSE IF IsMotorOn THEN idle
                      ELSE StartSpinning(WithBit(idle, MotorOn, TRUE), Current)
<1>2. fdc' = [aborted EXCEPT !.onIndex = onIndex] /\ Current # None BY <1>1 DEF ForceInterrupt
<1>3. fdc \in Fdcs /\ program \in Programs /\ fdc.current \in Drives /\ fdc.failed \notin Twice
  BY <1>2 DEF Sound, Driven, Fdcs, Current
<1>4. CASE IsBusy
  <2>1. aborted = done BY <1>4
  <2>2. done.doRaise = FALSE BY <1>3 DEF CommandDone, StartTimer, Fail, Fdcs
  <2>3. /\ Kept(fdc, done) /\ Still(fdc, done) /\ Counts(fdc, done)
        /\ done.count = fdc.count /\ done.data = fdc.data
        /\ fdc.timer = "none" => done.timer = "done" /\ done.state = "timer_wait"
        /\ fdc.timer # "none" => done.timer = fdc.timer /\ done.state = fdc.state
    BY <1>3, CommandDoneKeeps
  <2> HIDE DEF done, aborted
  <2>4. done \in Fdcs BY <2>3 DEF Kept
  <2>5. fdc' \in Fdcs BY <1>2, <2>1, <2>4 DEF Fdcs
  <2>6. Kept(done, fdc') /\ Still(done, fdc') /\ Counts(done, fdc') /\ Place(done, fdc') /\ fdc'.data = done.data
        /\ fdc'.doRaise = done.doRaise
    BY <1>2, <2>1, <2>4, <2>5
    DEF Fdcs, Kept, Still, Counts, Place, SameDrives, Honest, Visible, Transfers, Waiting, BusyIn, MotorIn, LostIn
  <2>7. Kept(fdc, fdc') BY <2>3, <2>6, KeptTwice
  <2>8. fdc.state # "idle" /\ (fdc.timer # "none" <=> fdc.state = "timer_wait")
    BY <1>4 DEF Sound, Moving, IsBusy, BusyIn
  <2>9. Running(fdc') BY <2>7, <2>8, SoundRuns, KeptRuns
  <2>10. fdc'.state = "timer_wait" /\ fdc'.timer # "none" BY <2>3, <2>6, <2>8 DEF Place
  <2>11. Fits(fdc')
    BY <2>3, <2>6, <2>10 DEF Sound, Fits, FitsAt, Counts, Place, ReadStates
  <2>12. Sound(fdc', program) BY <2>9, <2>10, <2>11, RunningIsSound
  <2>13. Transfers(fdc) /\ LostIn(fdc) => LostIn(fdc') BY <2>7 DEF Kept, Honest
  <2>14. Homing(fdc) => Homing(fdc')
    <3>1. fdc'.timer = "seek" => fdc.timer = "seek" BY <2>3, <2>6 DEF Place
    <3>2. fdc'.command = fdc.command /\ fdc'.current = fdc.current BY <2>7 DEF Kept, SameDrives
    <3>3. fdc'.data = fdc.data /\ fdc'.head = fdc.head /\ fdc'.track = fdc.track BY <2>3, <2>6 DEF Still
    <3>4. fdc'.timer \in {"seek", "settle", "done"} BY <2>5, <2>10 DEF Fdcs, Timers
    <3> QED BY <2>2, <2>6, <3>1, <3>2, <3>3, <3>4 DEF Homing, Approaches
  <2>15. Still(fdc, fdc') BY <2>3, <2>6 DEF Still
  <2> QED BY <2>12, <2>13, <2>14, <2>15 DEF Acts
<1>5. CASE ~IsBusy
  <2>1. fdc.state = "idle" /\ fdc.timer = "none" /\ ~BusyIn(fdc) /\ fdc.count <= MaxCount
    BY <1>5 DEF Sound, Moving, IsBusy, BusyIn, Fits, FitsAt
  <2>2. status \in SUBSET Bits /\ status \cup {MotorOn} \in SUBSET Bits
    BY <1>3, BitsDiffer DEF Fdcs
  <2>3. Busy # MotorOn /\ 0 \in Nat /\ 1 \in 0..3 BY BitsDiffer
  <2>4. CASE IsMotorOn
    <3>1. aborted = idle /\ status = {MotorOn} BY <1>5, <2>4 DEF IsMotorOn
    <3> HIDE DEF status, aborted
    <3>2. fdc' \in Fdcs
      <4>1. idle \in Fdcs BY <1>3, <2>2, <2>3 DEF Fdcs
      <4>2. fdc' = [idle EXCEPT !.onIndex = onIndex] BY <1>2, <3>1
      <4> HIDE DEF idle
      <4> QED BY <4>1, <4>2 DEF Fdcs
    <3>3. /\ fdc'.status = status /\ fdc'.type = 1 /\ fdc'.current = fdc.current /\ fdc'.spinning = fdc.spinning
          /\ fdc'.failed = fdc.failed /\ Place(fdc, fdc') /\ fdc'.indexCount = 0 /\ fdc'.crcSecond = fdc.crcSecond
      BY <1>2, <1>3, <3>1 DEF Fdcs, Place
    <3>4. MotorIn(fdc') /\ MotorIn(fdc) /\ ~BusyIn(fdc') BY <2>3, <2>4, <3>1, <3>3 DEF MotorIn, IsMotorOn, BusyIn
    <3>5. Driven(fdc') BY <3>3, <3>4 DEF Sound, Driven
    <3>6. Moving(fdc') /\ Visible(fdc') /\ Commanded(fdc', program) /\ fdc'.state = "idle" /\ fdc'.timer = "none"
      BY <2>1, <3>3, <3>4 DEF Moving, Visible, Transfers, Commanded, Place
    <3>7. Fits(fdc') BY <2>1, <3>3, <3>6, Sizes DEF Fits, FitsAt, ReadStates, Place
    <3> QED BY <1>3, <2>1, <3>2, <3>4, <3>5, <3>6, <3>7 DEF Acts, Sound, Homing
  <2>5. CASE ~IsMotorOn
    <3>1. aborted = lit
      <4> DEFINE w == WithBit(idle, MotorOn, TRUE)
      <4>1. w = [fdc EXCEPT !.indexCount = 0, !.type = 1, !.status = status \cup {MotorOn}]
        BY <1>3 DEF WithBit, Fdcs
      <4> HIDE DEF w, status
      <4>2. ~w.spinning[fdc.current] BY <1>3, <2>5, <4>1 DEF Sound, Driven, MotorIn, IsMotorOn, Fdcs
      <4>3. StartSpinning(w, Current) = [w EXCEPT !.spinning[fdc.current] = TRUE] BY <4>2 DEF StartSpinning, Current
      <4>4. aborted = StartSpinning(w, Current) BY <1>5, <2>5 DEF w, status
      <4> QED BY <1>3, <4>1, <4>3, <4>4 DEF Fdcs, status
    <3>2. status \cup {MotorOn} = {MotorOn} OBVIOUS
    <3> HIDE DEF status, aborted
    <3>3. fdc' \in Fdcs
      <4>1. lit \in Fdcs BY <1>3, <2>2, <2>3 DEF Fdcs
      <4>2. fdc' = [lit EXCEPT !.onIndex = onIndex] BY <1>2, <3>1
      <4> HIDE DEF lit
      <4> QED BY <4>1, <4>2 DEF Fdcs
    <3>4. /\ fdc'.status = {MotorOn} /\ fdc'.type = 1 /\ fdc'.current = fdc.current
          /\ fdc'.spinning = [fdc.spinning EXCEPT ![fdc.current] = TRUE]
          /\ fdc'.failed = fdc.failed /\ Place(fdc, fdc') /\ fdc'.indexCount = 0 /\ fdc'.crcSecond = fdc.crcSecond
      BY <1>2, <1>3, <3>1, <3>2 DEF Fdcs, Place
    <3>5. MotorIn(fdc') /\ ~BusyIn(fdc') BY <2>3, <3>4 DEF MotorIn, BusyIn
    <3>6. \A d \in Drives : ~fdc.spinning[d] BY <2>5 DEF Sound, Driven, MotorIn, IsMotorOn
    <3>7. \A d \in Drives : fdc'.spinning[d] <=> d = fdc.current BY <1>3, <3>4, <3>6 DEF Fdcs
    <3>8. Driven(fdc') BY <1>3, <3>4, <3>5, <3>7 DEF Driven
    <3>9. Moving(fdc') /\ Visible(fdc') /\ Commanded(fdc', program) /\ fdc'.state = "idle" /\ fdc'.timer = "none"
      BY <2>1, <3>4, <3>5 DEF Moving, Visible, Transfers, Commanded, Place
    <3>10. Fits(fdc') BY <2>1, <3>4, <3>9, Sizes DEF Fits, FitsAt, ReadStates, Place
    <3> QED BY <1>3, <2>1, <3>3, <3>5, <3>8, <3>9, <3>10 DEF Acts, Sound, Homing
  <2> QED BY <2>4, <2>5
<1> QED BY <1>4, <1>5


\* A command is issued to an idle chip: its motor turns already, or is started.
LEMMA IssueCommandActs ==
  ASSUME Sound(fdc, program), IssueCommand
  PROVE  Acts
<1>1. PICK c \in program.commands, flags \in SUBSET program.flags, pulse \in BOOLEAN : Command(c, flags, pulse)
  BY LevelsAreBoolean DEF IssueCommand
<1> DEFINE type == CommandType(c)
           asked == [fdc EXCEPT
                       !.command = c,
                       !.type = type,
                       !.verify = type = 1 /\ "verify" \in flags,
                       !.multi = type = 2 /\ "multi" \in flags,
                       !.settle = type # 1 /\ "settle" \in flags,
                       !.write = c \in Writes,
                       !.onIndex = FALSE,
                       !.crcSecond = FALSE,
                       !.intrq = FALSE]
           issued == SetDrq(asked, FALSE)
           begun == [issued EXCEPT !.status = (@ \cap {MotorOn}) \cup {Busy, MotorOn}, !.indexCount = 0]
           spun == StartSpinning(begun, Current)
           due == [spun EXCEPT !.indexCount = SpinUpPulses]
<1>2. /\ Current # None /\ ~IsBusy
      /\ fdc' = IF IsMotorOn THEN Dispatch(begun, pulse)
                ELSE IF "no_spin_up" \in flags THEN Dispatch(due, pulse)
                ELSE SetState(spun, "spin_up_wait")
  BY <1>1 DEF Command
<1>3. /\ fdc \in Fdcs /\ program \in Programs /\ fdc.current \in Drives /\ fdc.failed \notin Twice
      /\ fdc.state = "idle" /\ fdc.timer = "none" /\ ~BusyIn(fdc) /\ fdc.count <= MaxCount
  BY <1>2 DEF Sound, Driven, Moving, Fdcs, Current, IsBusy, BusyIn, Fits, FitsAt
<1>4. c \in AllCommands /\ type \in 0..3 BY <1>3 , WdAssumption DEF WdAssumption, CommandType
<1>5. asked \in Fdcs /\ asked.type = type /\ asked.write = (c \in Writes) /\ asked.command = c
      /\ asked.current = fdc.current /\ asked.spinning = fdc.spinning /\ asked.failed = fdc.failed
      /\ Place(fdc, asked) /\ asked.status = fdc.status
  <2> DEFINE verify == type = 1 /\ "verify" \in flags
             multi == type = 2 /\ "multi" \in flags
             settle == type # 1 /\ "settle" \in flags
             write == c \in Writes
  <2>1. verify \in BOOLEAN /\ multi \in BOOLEAN /\ settle \in BOOLEAN /\ write \in BOOLEAN OBVIOUS
  <2>2. asked = [fdc EXCEPT !.command = c, !.type = type, !.verify = verify, !.multi = multi, !.settle = settle,
                   !.write = write, !.onIndex = FALSE, !.crcSecond = FALSE, !.intrq = FALSE]
    OBVIOUS
  <2>3. write = (c \in Writes) OBVIOUS
  <2> HIDE DEF asked, verify, multi, settle, write, type
  <2>4. asked \in Fdcs
    <3> DEFINE half == [fdc EXCEPT !.command = c, !.type = type, !.verify = verify, !.multi = multi]
    <3>1. half \in Fdcs BY <1>3, <1>4, <2>1 DEF Fdcs
    <3> DEFINE most == [half EXCEPT !.settle = settle, !.write = write, !.onIndex = FALSE]
    <3>2. asked = [most EXCEPT !.crcSecond = FALSE, !.intrq = FALSE] BY <2>2
    <3> HIDE DEF half
    <3>3. most \in Fdcs BY <2>1, <3>1 DEF Fdcs
    <3> HIDE DEF most
    <3> QED BY <3>2, <3>3 DEF Fdcs
  <2> QED BY <1>3, <2>2, <2>3, <2>4 DEF Fdcs, Place
<1> HIDE DEF asked
<1>6. /\ begun \in Fdcs /\ begun.status = {Busy, MotorOn} /\ begun.drq = FALSE /\ begun.indexCount = 0
      /\ begun.type = type /\ begun.write = (c \in Writes) /\ begun.command = c
      /\ begun.current = fdc.current /\ begun.spinning = fdc.spinning /\ begun.failed = fdc.failed
      /\ Place(fdc, begun)
  <2>1. issued = [asked EXCEPT !.drq = FALSE, !.status = asked.status \ {Drq}] BY <1>5 DEF SetDrq, Fdcs
  <2>2. issued \in Fdcs
    <3>1. asked.status \ {Drq} \in SUBSET Bits BY <1>5 DEF Fdcs
    <3> QED BY <1>5, <2>1, <3>1 DEF Fdcs
  <2>3. /\ issued.drq = FALSE /\ issued.type = asked.type /\ issued.write = asked.write /\ issued.command = asked.command
        /\ issued.current = asked.current /\ issued.spinning = asked.spinning /\ issued.failed = asked.failed
        /\ Place(asked, issued)
    BY <1>5, <2>1 DEF Fdcs, Place
  <2> HIDE DEF issued
  <2>4. (issued.status \cap {MotorOn}) \cup {Busy, MotorOn} = {Busy, MotorOn} OBVIOUS
  <2>5. begun = [issued EXCEPT !.status = {Busy, MotorOn}, !.indexCount = 0] BY <2>2, <2>4 DEF Fdcs
  <2>6. {Busy, MotorOn} \in SUBSET Bits /\ 0 \in Nat BY BitsDiffer
  <2> HIDE DEF begun
  <2>7. begun \in Fdcs BY <2>2, <2>5, <2>6 DEF Fdcs
  <2>8. /\ begun.status = {Busy, MotorOn} /\ begun.indexCount = 0 /\ begun.drq = issued.drq
        /\ begun.type = issued.type /\ begun.write = issued.write /\ begun.command = issued.command
        /\ begun.current = issued.current /\ begun.spinning = issued.spinning /\ begun.failed = issued.failed
        /\ Place(issued, begun)
    BY <2>2, <2>5 DEF Fdcs, Place
  <2> QED BY <1>5, <2>3, <2>7, <2>8 DEF Place
<1> HIDE DEF issued, begun
<1>7. /\ BusyIn(begun) /\ MotorIn(begun) /\ Visible(begun) /\ Issued(begun)
      /\ begun.command \in program.commands /\ begun.current \in Drives /\ begun.failed \notin Twice
  <2>1. Drq \notin begun.status BY <1>6 DEF Drq, Busy, MotorOn
  <2> QED BY <1>1, <1>3, <1>6, <2>1 DEF BusyIn, MotorIn, Visible, Issued
<1>8. begun.timer = "none" /\ begun.count <= MaxCount /\ begun.indexCount <= IndexBound + MaxCount
  BY <1>3, <1>6, Sizes DEF Place
<1> HIDE DEF type
<1>9. CASE IsMotorOn
  <2>1. fdc' = Dispatch(begun, pulse) BY <1>2, <1>9
  <2>2. Driven(begun) BY <1>6, <1>7, <1>9 DEF Sound, Driven, MotorIn, IsMotorOn
  <2>3. Running(begun) BY <1>3, <1>6, <1>7, <2>2 DEF Running
  <2>4. Begun(begun, fdc') /\ Homing(fdc') BY <1>6, <1>7, <1>8, <2>1, DispatchBegins
  <2>5. Sound(fdc', program) BY <1>8, <2>3, <2>4, BegunIsSound
  <2> QED BY <1>3, <2>4, <2>5 DEF Acts
<1>10. CASE ~IsMotorOn
  <2>1. \A d \in Drives : ~fdc.spinning[d] BY <1>10 DEF Sound, Driven, MotorIn, IsMotorOn
  <2>2. spun = [begun EXCEPT !.spinning[fdc.current] = TRUE]
    BY <1>3, <1>6, <2>1 DEF StartSpinning, Current
  <2> HIDE DEF spun
  <2>3. /\ spun \in Fdcs /\ spun.status = begun.status /\ spun.drq = begun.drq /\ spun.indexCount = 0
        /\ spun.type = begun.type /\ spun.write = begun.write /\ spun.command = begun.command
        /\ spun.current = begun.current /\ spun.failed = begun.failed /\ Place(begun, spun)
        /\ spun.spinning = [begun.spinning EXCEPT ![fdc.current] = TRUE]
    <3>1. spun \in Fdcs BY <1>6, <2>2 DEF Fdcs
    <3> QED BY <1>6, <2>2, <3>1 DEF Fdcs, Place
  <2>4. \A d \in Drives : spun.spinning[d] <=> d = fdc.current BY <1>3, <1>6, <2>1, <2>3 DEF Fdcs
  <2>5. Running(spun)
    <3>1. BusyIn(spun) /\ MotorIn(spun) /\ Visible(spun) /\ Issued(spun)
      BY <1>7, <2>3 DEF BusyIn, MotorIn, Visible, Transfers, Issued
    <3>2. Driven(spun) BY <1>6, <1>7, <2>3, <2>4, <3>1 DEF Driven
    <3> QED BY <1>3, <1>7, <2>3, <3>1, <3>2 DEF Running
  <2>6. CASE "no_spin_up" \in flags
    <3>1. fdc' = Dispatch(due, pulse) BY <1>2, <1>10, <2>6
    <3>2. SpinUpPulses \in Nat /\ SpinUpPulses <= IndexBound + MaxCount BY Sizes
    <3>3. due \in Fdcs BY <2>3, <3>2 DEF Fdcs
    <3>4. Kept(spun, due) /\ Place(spun, due) /\ due.indexCount = SpinUpPulses
      BY <2>3, <3>3 DEF Fdcs, Kept, Place, SameDrives, Honest, Visible, Transfers, Waiting, BusyIn, MotorIn, LostIn
    <3> HIDE DEF due
    <3>5. Running(due) BY <2>5, <3>4, KeptRuns
    <3>6. due.timer = "none" /\ due.count <= MaxCount /\ due.indexCount <= IndexBound + MaxCount
      BY <1>8, <2>3, <3>2, <3>4 DEF Place
    <3>7. Begun(due, fdc') /\ Homing(fdc') BY <3>1, <3>5, <3>6, DispatchBegins DEF Running
    <3>8. Sound(fdc', program) BY <3>5, <3>6, <3>7, BegunIsSound
    <3> QED BY <1>3, <3>7, <3>8 DEF Acts
  <2>7. CASE "no_spin_up" \notin flags
    <3>1. fdc' = SetState(spun, "spin_up_wait") BY <1>2, <1>10, <2>7
    <3>2. "spin_up_wait" \in States BY DEF States
    <3>3. /\ Kept(spun, fdc') /\ Counts(spun, fdc') /\ fdc'.state = "spin_up_wait" /\ fdc'.count = 0
          /\ fdc'.timer = spun.timer
      BY <2>3, <3>1, <3>2, SetStateKeeps
    <3>4. Running(fdc') BY <2>5, <3>3, KeptRuns
    <3>5. fdc'.timer = "none" /\ fdc'.indexCount = 0 BY <1>8, <2>3, <3>3 DEF Place, Counts
    <3>6. Fits(fdc') BY <3>3, <3>5, Sizes DEF Fits, FitsAt, ReadStates
    <3>7. Sound(fdc', program) BY <3>3, <3>4, <3>5, <3>6, RunningIsSound
    <3> QED BY <1>3, <3>3, <3>5, <3>7 DEF Acts, Homing
  <2> QED BY <2>6, <2>7
<1> QED BY <1>9, <1>10


\* A settled head lets the command begin, a step leads to the next or to the end
\* of the seek, and a command that is done leaves the chip idle.
LEMMA TimerFiredActs ==
  ASSUME Sound(fdc, program), TimerFired
  PROVE  Acts
<1> DEFINE f == [fdc EXCEPT !.timer = "none"]
<1>0. fdc.timer # "none" BY DEF TimerFired
<1>1. PICK pulse \in BOOLEAN :
        \/ /\ fdc.timer = "settle"
           /\ fdc' = IF Dispatch(f, pulse).state = "timer_wait"
                     THEN Fail(Dispatch(f, pulse), "settled command waits") ELSE Dispatch(f, pulse)
        \/ /\ fdc.timer = "seek"
           /\ fdc' = IF f.command \in {"restore", "seek"} THEN DoSeekStepOrVerify(f, pulse) ELSE CheckVerify(f)
        \/ fdc.timer = "done" /\ fdc' = CommandDoneTimer(f, pulse)
  <2>1. fdc.timer \in {"settle", "seek", "done"} BY <1>0 DEF Sound, Fdcs, Timers
  <2> QED BY <2>1, LevelsAreBoolean DEF TimerFired
<1>2. fdc \in Fdcs /\ program \in Programs /\ fdc.state = "timer_wait" /\ BusyIn(fdc)
  BY <1>0 DEF Sound, Moving
<1>3. /\ f \in Fdcs /\ f.timer = "none" /\ f.status = fdc.status /\ f.drq = fdc.drq /\ f.data = fdc.data
      /\ f.type = fdc.type /\ f.command = fdc.command /\ f.write = fdc.write /\ f.current = fdc.current
      /\ f.spinning = fdc.spinning /\ f.failed = fdc.failed /\ f.state = fdc.state /\ f.count = fdc.count
      /\ Still(fdc, f) /\ Counts(fdc, f)
  <2>1. "none" \in Timers BY DEF Timers
  <2>2. f \in Fdcs BY <1>2, <2>1 DEF Fdcs
  <2> QED BY <1>2, <2>2 DEF Fdcs, Still, Counts
<1> HIDE DEF f
<1>4. Running(fdc) BY <1>2, SoundRuns
<1>5. Running(f)
  <2>1. (BusyIn(f) <=> BusyIn(fdc)) /\ (MotorIn(f) <=> MotorIn(fdc)) /\ Visible(f) /\ Issued(f)
    BY <1>3, <1>4 DEF Running, BusyIn, MotorIn, Visible, Transfers, Issued
  <2>2. Driven(f) BY <1>3, <1>4, <2>1 DEF Running, Driven
  <2> QED BY <1>3, <1>4, <2>1, <2>2 DEF Running
<1>6. f.count <= MaxCount /\ f.indexCount <= IndexBound + MaxCount
  BY <1>3 DEF Sound, Fits, FitsAt, Counts
<1>7. ASSUME NEW g, Begun(f, g), ~program.rewrites /\ Homing(fdc) => Homing(g), fdc' = g, fdc.timer # "done"
      PROVE  Acts
  <2>1. Sound(g, program) BY <1>5, <1>6, <1>7, BegunIsSound
  <2>2. Transfers(fdc) /\ LostIn(fdc) => LostIn(g)
    BY <1>3, <1>7 DEF Begun, Kept, Honest, Transfers, LostIn
  <2> QED BY <1>7, <2>1, <2>2 DEF Acts
<1>8. CASE fdc.timer = "settle"
  <2> DEFINE d == Dispatch(f, pulse)
             x == [d EXCEPT !.failed = IF @ = "no" THEN "settled command waits" ELSE @]
  <2>1. Begun(f, d) /\ Homing(d) BY <1>3, <1>5, DispatchBegins DEF Running
  <2>2. fdc' = IF d.state = "timer_wait" THEN x ELSE d BY <1>1, <1>8 DEF Fail
  <2> HIDE DEF d
  <2>3. d \in Fdcs BY <2>1 DEF Begun, Kept
  <2>4. Kept(d, x) /\ Still(d, x) /\ Counts(d, x) /\ Place(d, x) /\ x.data = d.data /\ x.doRaise = d.doRaise
    <3> DEFINE failed == IF d.failed = "no" THEN "settled command waits" ELSE d.failed
    <3>1. failed \in Failures /\ (failed \in Twice => failed = d.failed) BY <2>3 DEF Fdcs, Failures, Twice
    <3>2. x = [d EXCEPT !.failed = failed] BY <2>3 DEF Fdcs
    <3> HIDE DEF failed, x
    <3>3. x \in Fdcs BY <2>3, <3>1, <3>2 DEF Fdcs
    <3> QED
      BY <2>3, <3>1, <3>2, <3>3
      DEF Fdcs, Kept, Still, Counts, Place, SameDrives, Honest, Visible, Transfers, Waiting, BusyIn, MotorIn, LostIn
  <2> HIDE DEF x
  <2>5. Begun(f, x) BY <2>1, <2>4, KeptTwice DEF Begun, Counts, Place
  <2>6. Homing(x)
    <3>1. x.command = d.command /\ x.current = d.current BY <2>4 DEF Kept, SameDrives
    <3> QED BY <2>1, <2>4, <3>1 DEF Homing, Approaches, Still, Place
  <2>7. CASE d.state = "timer_wait" BY <1>7, <1>8, <2>2, <2>5, <2>6, <2>7
  <2>8. CASE d.state # "timer_wait" BY <1>7, <1>8, <2>1, <2>2, <2>8
  <2> QED BY <2>7, <2>8
<1>9. CASE fdc.timer = "seek"
  <2>1. CASE f.command \in {"restore", "seek"}
    <3> DEFINE g == DoSeekStepOrVerify(f, pulse)
    <3>1. f.type = 1 BY <1>5, <2>1 DEF Running, Issued, CommandType, TypeI
    <3>2. Begun(f, g) /\ (Approaches(f) => Homing(g)) BY <1>3, <1>5, <3>1, DoSeekStepOrVerifyBegins DEF Running
    <3>3. fdc' = g BY <1>1, <1>9, <2>1
    <3> HIDE DEF g
    <3>4. Homing(fdc) => Approaches(f) BY <1>3, <1>9 DEF Homing, Approaches, Still
    <3> QED BY <1>7, <1>9, <3>2, <3>3, <3>4
  <2>2. CASE f.command \notin {"restore", "seek"}
    <3> DEFINE g == CheckVerify(f)
    <3>1. Begun(f, g) /\ g.timer # "seek" BY <1>3, CheckVerifyBegins
    <3>2. fdc' = g BY <1>1, <1>9, <2>2
    <3> HIDE DEF g
    <3>3. Homing(g) BY <2>2, <3>1 DEF Homing, Begun, Kept, SameDrives
    <3> QED BY <1>7, <1>9, <3>1, <3>2, <3>3
  <2> QED BY <2>1, <2>2
<1>10. CASE fdc.timer = "done"
  <2> DEFINE w == WithBit(f, Busy, FALSE)
             c == ClearState(w)
             u == UpdateTypeIBits(c, pulse)
             on == u.intrq \/ f.doRaise
  <2>1. fdc' = [u EXCEPT !.intrq = on]
    <3>1. fdc' = CommandDoneTimer(f, pulse) BY <1>1, <1>10
    <3> QED BY <3>1 DEF CommandDoneTimer
  <2>2. Busy \notin {MotorOn, Drq} BY DEF Busy, MotorOn, Drq
  <2>3. w \in Fdcs /\ w = [f EXCEPT !.status = f.status \ {Busy}]
    <3>1. f.status \ {Busy} \in SUBSET Bits BY <1>3 DEF Fdcs
    <3>2. w = [f EXCEPT !.status = f.status \ {Busy}] BY <1>3 DEF WithBit, Fdcs
    <3> QED BY <1>3, <3>1, <3>2 DEF Fdcs
  <2>4. /\ w.status = f.status \ {Busy} /\ w.drq = f.drq /\ w.type = f.type /\ w.current = f.current
        /\ w.spinning = f.spinning /\ w.failed = f.failed /\ Still(f, w)
    BY <1>3, <2>3 DEF Fdcs, Still
  <2> HIDE DEF w
  <2>5. c \in Fdcs
    <3>1. "restore" \in AllCommands /\ "idle" \in States /\ "none" \in Timers /\ 0 \in Nat
      BY DEF AllCommands, States, Timers
    <3> QED BY <2>3, <3>1 DEF ClearState, Forget, Fdcs
  <2>6. /\ c.status = w.status /\ c.drq = w.drq /\ c.type = w.type /\ c.current = w.current
        /\ c.spinning = w.spinning /\ c.failed = w.failed /\ Still(w, c)
        /\ c.state = "idle" /\ c.timer = "none" /\ c.count = 0 /\ c.indexCount = 0
    <3>1. /\ c.status = w.status /\ c.drq = w.drq /\ c.type = w.type /\ c.current = w.current
          /\ c.spinning = w.spinning /\ c.failed = w.failed /\ c.head = w.head /\ c.track = w.track
      BY <2>3 DEF ClearState, Forget, Fdcs
    <3>2. c.state = "idle" /\ c.timer = "none" /\ c.count = 0 /\ c.indexCount = 0
      BY <2>3 DEF ClearState, Forget, Fdcs
    <3> QED BY <3>1, <3>2 DEF Still
  <2> HIDE DEF c
  <2>7. /\ ~BusyIn(c) /\ (MotorIn(c) <=> MotorIn(f)) /\ (Drq \in c.status <=> Drq \in f.status)
    BY <2>2, <2>4, <2>6 DEF BusyIn, MotorIn
  <2>8. Driven(c) BY <1>5, <2>4, <2>6, <2>7 DEF Running, Driven
  <2>9. Visible(c) BY <1>5, <2>4, <2>6, <2>7 DEF Running, Visible, Transfers
  <2>10. Kept(c, u) /\ Still(c, u) /\ Counts(c, u) /\ Place(c, u) BY <2>5, UpdateTypeIBitsKeeps
  <2>11. u \in Fdcs BY <2>10 DEF Kept
  <2> HIDE DEF u
  <2>12. on \in BOOLEAN BY <1>3, <2>11 DEF Fdcs
  <2> HIDE DEF on
  <2>13. fdc' \in Fdcs BY <2>1, <2>11, <2>12 DEF Fdcs
  <2>14. Kept(u, fdc') /\ Still(u, fdc') /\ Counts(u, fdc') /\ Place(u, fdc')
    BY <2>1, <2>11, <2>13
    DEF Fdcs, Kept, Still, Counts, Place, SameDrives, Honest, Visible, Transfers, Waiting, BusyIn, MotorIn, LostIn
  <2>15. Kept(c, fdc') BY <2>10, <2>14, KeptTwice
  <2>16. Driven(fdc') /\ Visible(fdc') /\ ~BusyIn(fdc')
    BY <2>7, <2>8, <2>9, <2>15, KeptStaysSound DEF Kept, SameDrives
  <2>17. fdc'.state = "idle" /\ fdc'.timer = "none" /\ fdc'.count = 0 /\ fdc'.indexCount = 0
    BY <2>6, <2>10, <2>14 DEF Place, Counts
  <2>18. Fits(fdc') BY <2>17, Sizes DEF Fits, FitsAt, ReadStates
  <2>19. Sound(fdc', program) BY <1>2, <2>13, <2>16, <2>17, <2>18 DEF Sound, Moving, Commanded
  <2>20. Still(fdc, fdc') BY <1>3, <2>4, <2>6, <2>10, <2>14 DEF Still
  <2> QED BY <2>16, <2>17, <2>19, <2>20 DEF Acts, Homing
<1> QED BY <1>1, <1>8, <1>9, <1>10


-----------------------------------------------------------------------------
(* The theorems.                                                             *)

\* Every byte of the disc leads on from a sound chip to a sound one.
LEMMA PulsesAreOnward ==
  ASSUME Sound(fdc, program), PulsesCallback
  PROVE  Onward(fdc')
BY IdleByteIsOnward, WaitingByteIsOnward, SpinUpByteIsOnward, WaitIndexByteIsOnward, ReadByteIsOnward,
   WriteDelayByteIsOnward, LeadInByteIsOnward, BodyByteIsOnward, CheckMultiByteIsOnward,
   WriteTrackSetupByteIsOnward, WriteTrackByteIsOnward, DoneByteIsOnward
DEF PulsesCallback

\* So does every step, whoever takes it.
LEMMA NextActs ==
  ASSUME Sound(fdc, program), [Next]_vars
  PROVE  Acts /\ program' = program
<1>0. program' = program BY DEF Next, vars
<1>1. CASE Control BY <1>0, <1>1, ControlActs
<1>2. CASE PowerOnReset BY <1>0, <1>2, PowerOnResetActs
<1>3. CASE IssueCommand BY <1>0, <1>3, IssueCommandActs
<1>4. CASE Interrupt BY <1>0, <1>4, InterruptActs
<1>5. CASE ReadStatus BY <1>0, <1>5, ReadStatusActs
<1>6. CASE ReadData BY <1>0, <1>6, ReadDataActs
<1>7. CASE WriteData BY <1>0, <1>7, WriteDataActs
<1>8. CASE WriteTrack \/ WriteSector BY <1>0, <1>8, RegistersAreWritten
<1>9. CASE ChangeDisc BY <1>0, <1>9, ChangeDiscActs
<1>10. CASE TimerFired BY <1>0, <1>10, TimerFiredActs
<1>11. CASE PulsesCallback BY <1>0, <1>11, PulsesAreOnward, OnwardActs
<1>12. CASE UNCHANGED fdc BY <1>0, <1>12 DEF Acts, Sound, Driven, Moving, Visible, Transfers, Commanded, Issued, Fits,
     BusyIn, MotorIn, LostIn, Homing, Approaches, Still
<1> QED
  BY <1>1, <1>2, <1>3, <1>4, <1>5, <1>6, <1>7, <1>8, <1>9, <1>10, <1>11, <1>12
  DEF Next, Aborted, vars

\* The chip begins at rest.
LEMMA InitIsSound ==
  ASSUME Init
  PROVE  Sound(fdc, program) /\ Homing(fdc)
<1>1. PICK media \in [Drives -> Media] :
       fdc = [status |-> {}, track |-> 0, sector |-> 1, data |-> 0,
           intrq |-> FALSE, drq |-> FALSE, doRaise |-> FALSE, reset |-> TRUE,
           current |-> None, pulse |-> FALSE, onIndex |-> FALSE,
           command |-> "restore", type |-> 0, settle |-> FALSE,
           write |-> FALSE, verify |-> FALSE, multi |-> FALSE,
           state |-> "idle", count |-> 0, indexCount |-> 0,
           timer |-> "none", crcSecond |-> FALSE,
           spinning |-> [d \in Drives |-> FALSE],
           head |-> [d \in Drives |-> 0],
           media |-> media, failed |-> "no"]
  BY DEF Init, Inserted
<1> DEFINE heads == [d \in Drives |-> 0]
<1>2. /\ {} \subseteq Bits /\ 0 \in Registers /\ 1 \in Registers /\ 0 \in 0..3 /\ 0 \in Nat
      /\ heads \in [Drives -> 0..MaxTrack] /\ AllStopped \in [Drives -> BOOLEAN]
  BY WdAssumption DEF WdAssumption, Registers, AllStopped
<1>3. "restore" \in AllCommands /\ "idle" \in States /\ "none" \in Timers /\ "no" \in Failures
  BY DEF AllCommands, States, Timers, Failures
<1> HIDE DEF heads
<1>4. fdc \in Fdcs BY <1>1, <1>2, <1>3 DEF Fdcs, heads, AllStopped
<1>5. AtRest(fdc) BY <1>1, <1>4 DEF AtRest, AllStopped, Twice
<1> QED BY <1>5, AtRestIsSound DEF Init

\* The chip, its drives and its counts stay sound.
THEOREM ChipStaysSound == Spec => []Sound(fdc, program)
<1>1. Init => Sound(fdc, program) BY InitIsSound
<1>2. Sound(fdc, program) /\ [Next]_vars => Sound(fdc, program)' BY NextActs DEF Acts
<1> QED BY <1>1, <1>2, PTL DEF Spec

\* A sound chip is coherent in the sense of the runs: the ranges of TypeOK, a busy
\* bit that agrees with the state, the timer and the drive that spins
\* (wd_fdc.c:1289-1291 and 1312), index pulses below the count at which each wait ends, and
\* a status bit that agrees with the DRQ line.
LEMMA SoundIsCoherent ==
  ASSUME Sound(fdc, program)
  PROVE  Coherent
<1>1. /\ fdc \in Fdcs /\ fdc.count \in Nat /\ fdc.indexCount \in Nat
      /\ fdc.count <= MaxCount /\ fdc.indexCount <= IndexBound + MaxCount
  BY DEF Sound, Fits, FitsAt, Fdcs
<1>2. TypeOK
  <2>1. fdc.status \subseteq {MotorOn, WriteProtected, SpinUpDone, RecordNotFound, CrcError, Track0, Index, Busy}
    BY <1>1 DEF Fdcs, Bits
  <2>2. fdc.count \in 0..MaxCount /\ fdc.indexCount \in 0..(IndexBound + MaxCount) BY <1>1, Sizes
  <2> QED BY <1>1, <2>1, <2>2 DEF TypeOK, Fdcs, Timers
<1>3. BusyMakesProgress
  BY <1>1, WdAssumption DEF WdAssumption, Sound, Moving, Driven, BusyMakesProgress, IsBusy, BusyIn, MotorIn, Current
<1>4. SpinsOnlyCurrent BY DEF Sound, Driven, SpinsOnlyCurrent, Current, IsMotorOn, MotorIn, Twice
<1>5. IndexCountsBounded BY DEF Sound, Fits, FitsAt, IndexCountsBounded, IsMotorOn, MotorIn
<1>6. DrqIsVisible BY DEF Sound, Visible, Transfers, DrqIsVisible
<1> QED BY <1>2, <1>3, <1>4, <1>5, <1>6 DEF Coherent

\* wd_fdc.c's assertions about the drives and the index pulses hold, and its busy
\* bit, state, timer, drives and lines agree, for any program of the 6502 and of
\* the user.
THEOREM ChipIsCoherent == Spec => []Coherent
BY ChipStaysSound, SoundIsCoherent, PTL

\* A byte lost is reported and stays so: wd_fdc_set_drq (wd_fdc.c:548-559) and what
\* every state of the pulses callback does with the bit.
THEOREM LossesAreReported == Spec => LossIsReported
<1>1. Sound(fdc, program) /\ [Next]_vars =>
        [/\ IsBusy /\ Busy \in fdc'.status
         /\ fdc.type \in {2, 3}
         => /\ LostByte \in fdc.status => LostByte \in fdc'.status
            /\ PulsesCallback /\ fdc.drq /\ fdc'.data # fdc.data
                 => LostByte \in fdc'.status]_vars
  <2>1. SUFFICES ASSUME Sound(fdc, program), [Next]_vars, IsBusy, Busy \in fdc'.status, fdc.type \in {2, 3}
                 PROVE  /\ LostByte \in fdc.status => LostByte \in fdc'.status
                        /\ PulsesCallback /\ fdc.drq /\ fdc'.data # fdc.data => LostByte \in fdc'.status
    OBVIOUS
  <2>2. LostByte \in fdc.status => LostByte \in fdc'.status
    BY <2>1, NextActs DEF Acts, IsBusy, BusyIn, LostIn, Transfers
  <2>3. ASSUME PulsesCallback, fdc.drq, fdc'.data # fdc.data PROVE LostByte \in fdc'.status
    <3>1. Honest(fdc, fdc') BY <2>1, <2>3, PulsesAreOnward DEF Onward
    <3>2. Waiting(fdc) /\ Transfers(fdc) BY <2>1, <2>3 DEF Sound, Visible, Transfers, Waiting
    <3> QED BY <2>3, <3>1, <3>2 DEF Honest, LostIn
  <2> QED BY <2>2, <2>3
<1> QED BY <1>1, ChipStaysSound, PTL DEF Spec, LossIsReported

\* While the registers are left alone a restore stays on its way.
LEMMA RestoresAreHoming == Spec => [](~program.rewrites => Homing(fdc))
<1>1. Init => Homing(fdc) BY InitIsSound
<1>2. Sound(fdc, program) /\ [Next]_vars /\ (~program.rewrites => Homing(fdc)) => (~program.rewrites => Homing(fdc))'
  BY NextActs DEF Acts
<1> QED BY <1>1, <1>2, ChipStaysSound, PTL DEF Spec

\* A restore ends with the head and the track register at zero
\* (wd_fdc_do_seek_step_or_verify, wd_fdc.c:280-304), if the 6502 leaves the
\* registers alone while one runs: of the programs that write them at any time
\* none issues a restore.
THEOREM RestoresGoHome ==
  ASSUME \A p \in Programs : p.rewrites => "restore" \notin p.commands
  PROVE  Spec => RestoreReachesTrackZero
<1>1. /\ Sound(fdc, program) /\ (~program.rewrites => Homing(fdc)) /\ [Next]_vars
      => [/\ fdc.timer = "done" /\ fdc.doRaise /\ fdc'.timer = "none"
          /\ IsBusy /\ fdc.command = "restore" /\ ~fdc'.reset
          => fdc'.head[Current] = 0 /\ fdc'.track = 0]_vars
  <2>1. SUFFICES ASSUME Sound(fdc, program), ~program.rewrites => Homing(fdc), [Next]_vars,
                        fdc.timer = "done", fdc.doRaise, fdc'.timer = "none",
                        IsBusy, fdc.command = "restore", ~fdc'.reset
                 PROVE  fdc'.head[Current] = 0 /\ fdc'.track = 0
    OBVIOUS
  <2>2. fdc.state = "timer_wait" /\ fdc.command \in program.commands /\ program \in Programs
    BY <2>1 DEF Sound, Moving, Commanded
  <2>3. Homing(fdc) BY <2>1, <2>2
  <2>4. fdc.head[fdc.current] = 0 /\ fdc.track = 0 BY <2>1, <2>2, <2>3 DEF Homing
  <2>5. Still(fdc, fdc') BY <2>1, NextActs DEF Acts
  <2> QED BY <2>4, <2>5 DEF Still, Current
<1> QED BY <1>1, ChipStaysSound, RestoresAreHoming, PTL DEF Spec, RestoreReachesTrackZero

\* What the 6502 is told of a command is true: both of the above.
THEOREM CommandsAreTruthful ==
  ASSUME \A p \in Programs : p.rewrites => "restore" \notin p.commands
  PROVE  Spec => CommandsTellTheTruth
BY LossesAreReported, RestoresGoHome DEF CommandsTellTheTruth

=============================================================================
