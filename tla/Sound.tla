-------------------------------- MODULE Sound --------------------------------
(***************************************************************************)
(* src/sound.c: the SN76489, worked out only when it is written to or when   *)
(* the host wants sound, and its way to the host's driver: sampled at every  *)
(* tick of the chip, averaged down to the driver's rate and handed over in   *)
(* whole periods. Either the 6502's thread does all this, or (synchronous =  *)
(* FALSE) a thread of its own copies the registers and plays a period.       *)
(***************************************************************************)
EXTENDS Integers, Sequences, SequencesExt

CONSTANTS
  Divider,         \* ticks of the system to one of the chip; 8
  LowMod, HighMod, \* a period is written in two parts; 16 and 64
  NoisePeriods,    \* of the three fixed noises; <<16, 32, 64>>
  RngTop,          \* the noise register starts with its top bit; 2^14
  PerFrame,        \* <<p, q>>: p / q chip samples go into a driver's frame
  BufferSize,      \* frames of the driver's buffer
  PeriodSize,      \* and of one of its periods
  Commands,        \* what the 6502 writes: [latch, channel, volume, data]
  ResetsEarly,     \* whether a hard reset may come before the first sound is asked for
  MaxTime, MaxWrites  \* bounds

Noise == 3
Channels == 0 .. Noise
None == -1           \* steps of the thread: none, the next channel to copy,
Filling == Noise + 2
Capacity == (BufferSize * PerFrame[1]) \div PerFrame[2]  \* samples of the chip

VARIABLE sound
\* now       timing's ticks since the last reset
\* chip      its registers, counters and flip flops
\* enabled   IC32 bit 0 is low
\* prev      the time up to which the chip has been worked out
\* samples   its samples not yet averaged
\* value, count  what has been gathered for the next frame, in q-ths
\* frames    the driver's buffer
\* played    the frames handed over
\* thread    where the thread of the sound is, and its copy of the registers
\* failed    how the program ends
\* real, want    the chip run tick by tick, and its samples
\* exact     nothing has been late or reset
-----------------------------------------------------------------------------
(* The chip. Volume 15 is silence; how loud the others are does not matter.  *)
PowerOnChip ==
  [counter |-> [c \in Channels |-> 0], output |-> [c \in Channels |-> 0], rng |-> 0,
   volume |-> [c \in Channels |-> 0], period |-> [c \in Channels |-> IF c = Noise THEN NoisePeriods[3] ELSE 0],
   frequency |-> 2, white |-> FALSE, latched |-> [channel |-> 0, volume |-> FALSE]]

Loudness(volume) == 15 - volume
Shifted(rng, white) ==
  IF white THEN (rng \div 2) + (IF rng % 2 = (rng \div 2) % 2 THEN 0 ELSE RngTop)
  ELSE IF rng \div 2 = 0 THEN RngTop ELSE rng \div 2
\* sound_fill_sn76489_buffer, one sample.
TickChip(chip) ==
  LET counter(c) == (chip.counter[c] - 1) % (LowMod * HighMod)
      output == [c \in Channels |-> IF counter(c) = 0 THEN 1 - chip.output[c] ELSE chip.output[c]]
  IN  [chip EXCEPT !.counter = [c \in Channels |-> IF counter(c) = 0 THEN chip.period[c] ELSE counter(c)],
                   !.output = output,
                   !.rng = IF counter(Noise) = 0 /\ output[Noise] = 1 THEN Shifted(@, chip.white) ELSE @]
Sample(chip) ==
  LET high(c) == IF c = Noise THEN chip.rng % 2 = 1 ELSE chip.output[c] = 1
  IN  FoldSet(LAMBDA c, sum : sum + (IF high(c) THEN Loudness(chip.volume[c]) ELSE 0), 0, Channels)

SetPeriod(chip, channel, period) ==
  [chip EXCEPT !.period = [c \in Channels |->
     IF c = channel \/ (channel = 2 /\ c = Noise /\ chip.frequency = 3) THEN period ELSE @[c]]]
\* A byte on the bus: with the top bit set it names the register as well.
Command(chip, w) ==
  LET to  == IF w.latch THEN [channel |-> w.channel, volume |-> w.volume] ELSE chip.latched
      c   == [chip EXCEPT !.latched = to]
      old == chip.period[to.channel]
      f   == w.data % 4
      noise == [c EXCEPT !.frequency = f, !.white = (w.data \div 4) % 2 = 1, !.rng = RngTop]
  IN  CASE to.volume -> [c EXCEPT !.volume[to.channel] = w.data % 16]
        [] ~to.volume /\ to.channel = Noise ->
             SetPeriod(noise, Noise, IF f = 3 THEN c.period[2] ELSE NoisePeriods[f + 1])
        [] ~to.volume /\ to.channel # Noise /\ w.latch ->
             SetPeriod(c, to.channel, (w.data % LowMod) + old - (old % LowMod))
        [] OTHER -> SetPeriod(c, to.channel, ((w.data % HighMod) * LowMod) + (old % LowMod))

-----------------------------------------------------------------------------
(* From samples to frames: a sample at the border counts for both.           *)
Gather(s, sample) ==
  LET p == PerFrame[1]
      q == PerFrame[2]
      left == s.count + q - p
  IN  IF left < 0 THEN [s EXCEPT !.count = @ + q, !.value = @ + (q * sample)]
      ELSE [s EXCEPT !.count = left, !.value = left * sample,
                     !.frames = IF Len(@) < BufferSize THEN Append(@, s.value + ((q - left) * sample)) ELSE @]
Resample(s) == [FoldLeft(Gather, s, s.samples) EXCEPT !.samples = <<>>]

RECURSIVE Fill(_, _)
Fill(s, n) ==
  IF n = 0 THEN s
  ELSE LET chip == TickChip(s.chip)
       IN  Fill([s EXCEPT !.chip = chip, !.samples = Append(@, Sample(chip))], n - 1)
\* A mutant: the chip goes on from the last time it was asked, room or not.
AdvanceUncapped(s) ==
  LET delta == (s.now \div Divider) - (s.prev \div Divider)
  IN  IF delta < 0 THEN [s EXCEPT !.failed = "overrun"]
      ELSE [(IF Len(s.samples) + delta > Capacity THEN [s EXCEPT !.failed = "bail"] ELSE Fill(s, delta)) EXCEPT !.prev = s.now]
\* sound_advance_sn_timing. The difference is unsigned: time that has gone back
\* counts as a huge step, unless the sum with what is there wraps around.
Advance(s) ==
  LET delta == (s.now \div Divider) - (s.prev \div Divider)
      huge  == delta < 0 /\ Len(s.samples) + delta < 0
      room  == Capacity - Len(s.samples)
  IN  IF delta < 0 /\ ~huge THEN [s EXCEPT !.failed = "overrun"]
      ELSE [Fill(s, IF huge \/ delta > room THEN room ELSE delta) EXCEPT !.prev = s.now]

-----------------------------------------------------------------------------
Synchronous == sound.thread.step = None
Running == sound.failed = "no"

(* The host asks in time if what it has left in the buffer and what the chip *)
(* has made since fit.                                                       *)
InTime(time) == ((time \div Divider) - sound.asked) * PerFrame[2] <= (BufferSize - PeriodSize + 1) * PerFrame[1]
Time ==
  /\ Running /\ Synchronous /\ sound.now < MaxTime
  /\ sound.exact => InTime(sound.now + 1)
  /\ LET now  == sound.now + 1
         real == IF now % Divider = 0 THEN TickChip(sound.real) ELSE sound.real
     IN  sound' = [sound EXCEPT !.now = now, !.real = real,
                                !.want = IF now % Divider = 0 THEN Append(@, Sample(real)) ELSE @]

\* A mutant: the write comes first.
SetBusValueFirst(s, w) ==
  IF ~s.enabled THEN s
  ELSE LET written == [s EXCEPT !.chip = Command(@, w)]
       IN  IF s.thread.step = None THEN Advance(written) ELSE written
SetBusValue(s, w) ==
  IF ~s.enabled THEN s
  ELSE LET caught == IF s.thread.step = None THEN Advance(s) ELSE s
       IN  [caught EXCEPT !.chip = Command(@, w)]
Write(w) ==
  /\ Running /\ sound.writes < MaxWrites
  /\ sound' = [SetBusValue(sound, w) EXCEPT !.writes = @ + 1, !.real = IF sound.enabled THEN Command(@, w) ELSE @]
IC32Updated == Running /\ sound.writes < MaxWrites /\ sound' = [sound EXCEPT !.enabled = ~@, !.writes = @ + 1]

(* sound_tick. The host blocks while it takes the periods; between periods   *)
(* the machine sleeps.                                                       *)
Tick ==
  /\ Running /\ Synchronous
  /\ sound.prev # sound.now \/ sound.samples # <<>>
  /\ LET s    == Resample(Advance(sound))
         full == Len(s.frames) - (Len(s.frames) % PeriodSize)
     IN  sound' = [s EXCEPT !.played = @ \o SubSeq(s.frames, 1, full),
                            !.frames = SubSeq(@, full + 1, Len(@)),
                            !.asked = sound.now \div Divider]
\* The host is late: nothing more is said about what it plays.
Late == Running /\ Synchronous /\ sound.exact /\ ~InTime(sound.now + 1) /\ sound' = [sound EXCEPT !.exact = FALSE]

(* bbc_power_on_reset: the time goes back first, then the system VIA writes  *)
(* its bus to the chip, and only then the chip is reset.                     *)
BusAtReset == [latch |-> TRUE, channel |-> Noise, volume |-> TRUE, data |-> 15]
Reset ==
  /\ Running /\ sound.resets > 0
  /\ sound.enabled /\ Synchronous /\ sound.prev \div Divider \in 1 .. Len(sound.samples) => ResetsEarly
  /\ LET s == SetBusValue([sound EXCEPT !.now = 0], BusAtReset)
     IN  sound' = [s EXCEPT !.chip = PowerOnChip, !.enabled = TRUE, !.prev = 0, !.exact = FALSE,
                            !.real = PowerOnChip, !.want = <<>>, !.asked = 0, !.resets = @ - 1]

(* The thread of its own: it copies the registers channel by channel, then   *)
(* plays a period from the copy, while the 6502 goes on writing. The noise   *)
(* register is shared: each shift stores the thread's own over a write's.    *)
CopyChannel(c) ==
  /\ Running /\ sound.thread.step = c
  /\ sound' = [sound EXCEPT !.thread.volume[c] = sound.chip.volume[c], !.thread.period[c] = sound.chip.period[c],
                            !.thread.step = c + 1]
StartPeriod ==
  /\ Running /\ sound.thread.step = Noise + 1
  /\ sound' = [sound EXCEPT !.thread.rng = sound.chip.rng, !.thread.white = sound.chip.white, !.thread.step = Filling]
PlayPeriod ==
  /\ Running /\ sound.thread.step = Filling
  /\ LET t    == sound.thread
         copy == [sound.chip EXCEPT !.volume = t.volume, !.period = t.period, !.rng = t.rng, !.white = t.white]
         n    == (PeriodSize * PerFrame[1]) \div PerFrame[2]
         s    == Resample(Fill([sound EXCEPT !.chip = copy, !.samples = <<>>, !.frames = <<>>], n))
         last == IF s.frames = <<>> THEN 0 ELSE Last(s.frames)
         made == IF Len(s.frames) < PeriodSize THEN Append(s.frames, last) ELSE s.frames
     IN  sound' = [s EXCEPT !.chip = [sound.chip EXCEPT !.counter = s.chip.counter, !.output = s.chip.output,
                                                        !.rng = IF s.chip.rng # t.rng THEN s.chip.rng ELSE @],
                            !.frames = <<>>, !.thread.step = 0,
                            !.failed = IF n > Capacity THEN "bail"
                                       ELSE IF Len(made) # PeriodSize THEN "frames" ELSE "no"]

-----------------------------------------------------------------------------
InitSound(synchronous) ==
  sound = [now |-> 0, chip |-> PowerOnChip, enabled |-> TRUE, prev |-> 0, samples |-> <<>>, value |-> 0, count |-> 0,
           frames |-> <<>>, played |-> <<>>, asked |-> 0, resets |-> 1, writes |-> 0,
           thread |-> [step |-> IF synchronous THEN None ELSE 0, rng |-> 0, white |-> FALSE,
                       volume |-> PowerOnChip.volume, period |-> PowerOnChip.period],
           failed |-> "no", real |-> PowerOnChip, want |-> <<>>, exact |-> TRUE]
NextSound ==
  \/ Time \/ (\E w \in Commands : Write(w)) \/ IC32Updated \/ Tick \/ Late \/ Reset
  \/ (\E c \in Channels : CopyChannel(c)) \/ StartPeriod \/ PlayPeriod

-----------------------------------------------------------------------------
(* What the driver should be handed: each frame the average (times p) of the *)
(* stretch of samples it stands for.                                         *)
Overlap(a, b, c, d) ==
  LET from == IF a > c THEN a ELSE c
      to   == IF b < d THEN b ELSE d
  IN  IF to > from THEN to - from ELSE 0
FramesOf(samples) ==
  LET p == PerFrame[1]
      q == PerFrame[2]
  IN  [k \in 1 .. (Len(samples) * q) \div p |->
         FoldSet(LAMBDA i, sum : sum + (samples[i] * Overlap((k - 1) * p, k * p, (i - 1) * q, i * q)), 0, DOMAIN samples)]

(* The driver is handed the average of every stretch of the chip's samples,  *)
(* once and in order, however seldom the chip is worked out and whatever is  *)
(* written to it in between; no buffer runs over, also when the host is late *)
(* or the machine is reset; and the third kind of noise follows tone 2       *)
(* (sound_advance_sn_timing, sound_resample_to_driver_buffer, sound_tick).   *)
SoundIsTheChip ==
  /\ sound.failed = "no"
  /\ Synchronous /\ sound.exact =>
       /\ IsPrefix(sound.played \o sound.frames, FramesOf(sound.want))
       /\ sound.prev = sound.now /\ sound.samples = <<>> => sound.played \o sound.frames = FramesOf(sound.want)
  /\ sound.chip.frequency = 3 => sound.chip.period[Noise] = sound.chip.period[2]
=============================================================================
