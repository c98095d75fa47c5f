------------------------------- MODULE Serial -------------------------------
(***************************************************************************)
(* The serial side of the machine: the ACIA (Acia.tla) with the serial ULA, *)
(* src/serial_ula.c, that connects it to the tape, src/tape.c, or to an     *)
(* RS423 device, a terminal of the host.                                   *)
(*                                                                         *)
(* The 6502 writes and reads registers, the tape's timer brings a bit, the  *)
(* cycles timer serves the RS423 device, the user changes the tape and      *)
(* resets the machine.  Tapes are written by src/tape_uef.c from words of    *)
(* given formats; whether the ACIA gets the words back is the question.     *)
(***************************************************************************)
EXTENDS Acia, SequencesExt

CONSTANTS
  Tapes,        \* the tapes added, each a sequence of symbols; see Cells
  Carrier,      \* bits of carrier until DCD rises (240)
  FastTape,     \* whether the tape runs the machine fast
  Devices,      \* RS423 devices, with their ends: subsets of {"input", "output"}
  Controls,     \* what the 6502 writes to the control register
  SwitchesSending \* whether it selects the tape with a byte still to be sent

ASSUME SerialAssumption ==
  /\ Carrier \in Nat \ {0}
  /\ {FastTape, SwitchesSending} \subseteq BOOLEAN
  /\ Devices \subseteq SUBSET {"input", "output"}

VARIABLES
  serial,   \* ACIA, ULA and tape
  heard,    \* words received since the tape was rewound, as long as
  straight, \* nothing has kept the ACIA from hearing the tape since
  lost,     \* a word was lost that the 6502 has not been told of
  changed   \* the length of a word was changed while its bits were coming in

vars == <<serial, heard, straight, lost, changed>>

-----------------------------------------------------------------------------
(* What src/tape_uef.c and tape_add_byte put on a tape for a symbol: a bit of *)
(* carrier, a bit of silence, or a word in a format and at a speed.          *)

Silence == -1

Scaled(bits, slow) ==
  [i \in 1..(Len(bits) * (IF slow THEN ClockDivide ELSE 1)) |->
     bits[((i - 1) \div (IF slow THEN ClockDivide ELSE 1)) + 1]]

ParityBit(symbol) == (Sum(symbol.word) + (IF symbol.parity = "O" THEN 1 ELSE 0)) % 2

\* The bits up to the first stop bit.
WordCells(symbol) ==
  <<0>> \o symbol.word \o (IF symbol.parity = "N" THEN <<>> ELSE <<ParityBit(symbol)>>)

Cells(symbol) ==
  CASE symbol.kind = "carrier" -> <<1>>
    [] symbol.kind = "silence" -> <<Silence>>
    [] symbol.kind = "word" ->
         Scaled(WordCells(symbol) \o [i \in 1..symbol.stops |-> 1], symbol.slow)

\* The tapes as bits; the last slot is empty.
Buffers ==
  [t \in 1..(Len(Tapes) + 1) |->
     IF t > Len(Tapes) THEN <<>>
     ELSE FlattenSeq([i \in 1..Len(Tapes[t]) |-> Cells(Tapes[t][i])])]

\* A tape is a buffer of bits, or of silence.
ASSUME TapesAssumption ==
  /\ Len(Tapes) \in Nat
  /\ \A t \in 1..(Len(Tapes) + 1) : Buffers[t] \in Seq({0, 1, Silence})

-----------------------------------------------------------------------------
(* The functions of serial_ula.c and tape.c. *)

Fail(s, what) == [s EXCEPT !.failed = IF @ = "no" THEN what ELSE @]

UpdateLines(s) ==
  [s EXCEPT !.acia = SetCTS(SetDCD(@, ~s.rs423 /\ s.tapeDCD), s.rs423 /\ "output" \notin s.device)]

\* Mutant: silence is heard as a bit.
ReceiveTapeBitSilent(s, bit) ==
  LET count == IF bit = 1 THEN s.carrier + 1 ELSE 0
      g == UpdateLines([s EXCEPT !.carrier = IF @ > Carrier /\ bit = 1 THEN @ ELSE count,
                                 !.tapeDCD = count = Carrier])
  IN  IF s.rs423 THEN g
      ELSE [g EXCEPT !.acia = ReceiveBit(@, IF bit = 1 THEN 1 ELSE 0)]

\* A count past Carrier says no more than that.
ReceiveTapeBit(s, bit) ==
  LET count == IF bit = 1 THEN s.carrier + 1 ELSE 0
      g == UpdateLines([s EXCEPT !.carrier = IF @ > Carrier /\ bit = 1 THEN @ ELSE count,
                                 !.tapeDCD = count = Carrier])
  IN  IF s.rs423 \/ bit = Silence THEN g
      ELSE [g EXCEPT !.acia = ReceiveBit(@, bit)]

TapePlay(s) ==
  [(IF s.running THEN Fail(s, "tape is running") ELSE s)
     EXCEPT !.running = TRUE, !.timer = TRUE]

TapeStop(s) ==
  ReceiveTapeBit([(IF s.running THEN s ELSE Fail(s, "tape is not running"))
                    EXCEPT !.running = FALSE, !.timer = FALSE], Silence)

\* Mutant: a tape that has run out does not start again.
TapeRewindStays(s) == [s EXCEPT !.pos = 0]

TapeRewind(s) ==
  [(IF s.running /\ ~s.timer THEN TapePlay([s EXCEPT !.running = FALSE]) ELSE s)
     EXCEPT !.pos = 0]

TapeTimerCallback(s) ==
  LET buffer == Buffers[s.index]
  IN  IF s.pos >= Len(buffer) THEN [TapeStop(s) EXCEPT !.running = TRUE]
      ELSE [ReceiveTapeBit(s, buffer[s.pos + 1]) EXCEPT !.pos = @ + 1]

\* serial_ula_write: the motor acts while the old device is still selected.
UlaWrite(s, rs423, motor) ==
  LET turned == CASE motor /\ ~s.motor -> [TapePlay(s) EXCEPT !.fast = @ \/ FastTape]
                  [] ~motor /\ s.motor -> [TapeStop(s) EXCEPT !.fast = @ /\ ~FastTape]
                  [] motor = s.motor -> s
  IN  UpdateLines([turned EXCEPT !.motor = motor, !.rs423 = rs423])

UlaPowerOn(s) ==
  UpdateLines([(IF s.motor THEN TapeStop(s) ELSE s)
                 EXCEPT !.carrier = 0, !.tapeDCD = FALSE, !.motor = FALSE, !.rs423 = FALSE])

TapePowerOn(s) ==
  TapeRewind(IF s.running \/ s.timer THEN Fail(s, "tape is running at reset") ELSE s)

-----------------------------------------------------------------------------
(* Actions. *)

\* Where each symbol of a tape starts and ends, and whether the head is inside a word.
Starts ==
  [t \in 1..Len(Tapes) |-> [i \in 1..Len(Tapes[t]) |->
     Len(FlattenSeq([j \in 1..(i - 1) |-> Cells(Tapes[t][j])]))]]

Ends ==
  [t \in 1..Len(Tapes) |-> [i \in 1..Len(Tapes[t]) |-> Starts[t][i] + Len(Cells(Tapes[t][i]))]]

InsideWord(s) ==
  /\ s.index <= Len(Tapes)
  /\ \E i \in 1..Len(Tapes[s.index]) :
       /\ Tapes[s.index][i].kind = "word"
       /\ Starts[s.index][i] < s.pos /\ s.pos < Ends[s.index][i]

\* The receiver is set for the word.
Matches(control, symbol) ==
  /\ control.long = (Len(symbol.word) = LongWord)
  /\ HasParity(control) = (symbol.parity # "N")
  /\ HasParity(control) => control.odd = (symbol.parity = "O")
  /\ control.div64 = symbol.slow

\* The bit about to pass will be heard as what it is, or does not matter.
WillHear(s) ==
  \/ s.pos >= Len(Buffers[s.index])
  \/ Buffers[s.index][s.pos + 1] = Silence
  \/ s.acia.state = "need_start" /\ Buffers[s.index][s.pos + 1] = 1 /\ ~InsideWord(s)
  \/ /\ ~s.rs423
     /\ \E i \in 1..Len(Tapes[s.index]) :
          /\ Tapes[s.index][i].kind = "word"
          /\ Starts[s.index][i] <= s.pos /\ s.pos < Ends[s.index][i]
          /\ Matches(s.acia.control, Tapes[s.index][i])

\* The receiver is set in another way: in the middle of a word it will not hear it.
StaysStraight ==
  /\ straight' = (straight /\ ~InsideWord(serial))
  /\ heard' = IF straight' THEN heard ELSE <<>>

\* It matters until the receiver waits for a word again.
StaysChanged == changed' = (changed /\ serial'.acia.state # "need_start")

SetControl ==
  \E control \in Controls :
    /\ serial' = [serial EXCEPT !.acia = WriteControl(@, control)]
    /\ StaysStraight
    /\ changed' = \/ changed
                   \/ /\ serial.acia.state = "need_data"
                      /\ control.long # serial.acia.control.long
    /\ UNCHANGED lost

MasterReset ==
  /\ serial' = [serial EXCEPT !.acia = Reset(@)]
  /\ StaysStraight
  /\ lost' = FALSE /\ changed' = FALSE

\* serial_ula_transmit_ready_callback takes the byte for the tape at once.
SendData ==
  LET written == WriteData(serial.acia)
  IN  /\ serial' = [serial EXCEPT !.acia = UpdateIrq(IF serial.rs423 THEN written
                                                    ELSE Transmit(written))]
      /\ UNCHANGED <<heard, straight, lost, changed>>

GetData ==
  /\ serial' = [serial EXCEPT !.acia = ReadData(@)]
  /\ lost' = (lost /\ ("OVRN" \notin serial.acia.status \/ serial.acia.overflow))
  /\ UNCHANGED <<heard, straight, changed>>

WriteUla(rs423, motor) ==
  /\ ~rs423 /\ serial.rs423 /\ IsTransmitReady(serial.acia) => SwitchesSending
  /\ serial' = UlaWrite(serial, rs423, motor)
  /\ UNCHANGED <<heard, straight, lost, changed>>

SetUla == \E rs423, motor \in BOOLEAN : WriteUla(rs423, motor)

\* Reading the ULA is writing $FE to it.
ReadUla == WriteUla(TRUE, TRUE)

\* A word is complete when its stop bit leaves the receiver cleared.
TapeBit ==
  LET next == TapeTimerCallback(serial)
      complete == serial.acia.state = "need_stop" /\ next.acia.state = "need_start"
  IN  /\ serial.timer
      /\ serial' = next
      /\ straight' = (straight /\ WillHear(serial))
      /\ heard' = IF ~straight' THEN <<>>
                  ELSE IF complete THEN Append(heard, [word |-> serial.acia.sr,
                                      bad |-> serial.acia.parityError
                                              \/ Buffers[serial.index][serial.pos + 1] # 1])
                  ELSE heard
      /\ lost' = (lost \/ (complete /\ "RDRF" \in serial.acia.status))
      /\ StaysChanged

\* Mutant: output waits for the input to be wanted.
TickTwoWay ==
  /\ serial.rs423
  /\ LET wanted == "input" \in serial.device /\ GetRTS(serial.acia)
     IN  serial' = [serial EXCEPT !.acia =
           IF wanted /\ "output" \in serial.device /\ IsTransmitReady(@) THEN Transmit(@) ELSE @]
  /\ UNCHANGED <<heard, straight, lost, changed>>

\* serial_ula_tick, from the cycles timer: at most one byte each way.
Tick ==
  /\ serial.rs423
  /\ LET received == IF "input" \in serial.device /\ GetRTS(serial.acia)
                     THEN {Receive(serial.acia)} ELSE {}
     IN  \E a \in {serial.acia} \cup received :
           serial' = [serial EXCEPT !.acia =
             IF "output" \in serial.device /\ IsTransmitReady(a) THEN Transmit(a) ELSE a]
  /\ UNCHANGED <<heard, straight, lost, changed>>

\* tape_cycle_tape, by Alt-T.
CycleTape ==
  LET s == [serial EXCEPT !.index = IF @ = Len(Tapes) + 1 THEN 1 ELSE @ + 1]
  IN  /\ serial' = TapeRewind(s)
      /\ heard' = <<>>
      /\ straight' = (serial.acia.state = "need_start")
      /\ UNCHANGED <<lost, changed>>

\* bbc_power_on_reset: the ACIA, then the ULA, which stops the tape, then the tape.
PowerOnReset ==
  /\ serial' = TapePowerOn(UlaPowerOn([serial EXCEPT !.acia = PowerOn(@)]))
  /\ heard' = <<>> /\ straight' = TRUE /\ lost' = FALSE /\ changed' = FALSE

Next ==
  \/ SetControl \/ MasterReset \/ SendData \/ GetData \/ SetUla \/ ReadUla
  \/ TapeBit \/ Tick \/ CycleTape \/ PowerOnReset

Init ==
  /\ \E device \in Devices : serial =
       [acia |-> PowerOn(Created), device |-> device, rs423 |-> FALSE, motor |-> FALSE,
        carrier |-> 0, tapeDCD |-> FALSE, index |-> 1, pos |-> 0,
        running |-> FALSE, timer |-> FALSE, fast |-> FALSE, failed |-> "no"]
  /\ heard = <<>> /\ straight = TRUE /\ lost = FALSE /\ changed = FALSE

Spec == Init /\ [][Next]_vars

\* The cycles timer keeps ticking.
FairSpec == Spec /\ WF_vars(Tick)

-----------------------------------------------------------------------------
(* Properties. *)

\* The fields keep their types.
TypeOK ==
  /\ serial.acia.status \subseteq {"TDRE", "RDRF", "DCD", "CTS", "FE", "OVRN", "PE", "IRQ"}
  /\ Len(serial.acia.sr) <= LongWord + 1
  /\ serial.acia.divider \in 0..(ClockDivide - 1)
  /\ serial.acia.state \in {"need_start", "need_data", "need_parity", "need_stop"}
  /\ serial.index \in 1..(Len(Tapes) + 1)
  /\ serial.pos \in 0..Len(Buffers[serial.index])
  /\ serial.carrier \in 0..(Carrier + 1)

\* The interrupt line and the status register the 6502 will read, which the chip
\* keeps ready, are those of its present state, whatever changed it last.
IrqIsCurrent ==
  /\ serial.acia.irq = Fires(serial.acia)
  /\ "IRQ" \in serial.acia.status <=> serial.acia.irq
  /\ serial.acia.forRead = ForRead(serial.acia.status, serial.acia.isDCD)

\* The ACIA sees the lines of the device that is selected, through resets of
\* either chip and tapes that stop or run out.
LinesFollow ==
  /\ serial.acia.isDCD <=> ~serial.rs423 /\ serial.tapeDCD
  /\ "CTS" \in serial.acia.status <=> serial.rs423 /\ "output" \notin serial.device

\* The tape turns exactly while the motor is on, and its timer runs unless the
\* tape has run out: tape.c, the ULA and the scheduler each keep their own part.
TapeTurnsWithMotor ==
  /\ serial.running <=> serial.motor
  /\ serial.timer => serial.running
  /\ serial.running /\ ~serial.timer => serial.pos = Len(Buffers[serial.index])
  /\ serial.failed = "no"

\* The receiver is empty when a word starts, which mc6850_receive_bit asserts, and
\* still short of a word while it awaits more of it: with its count compared for
\* equality, only a new length in the middle of a word can make it shift for ever.
WordEnds ==
  /\ serial.acia.state = "need_start" =>
       /\ serial.acia.sr = <<>> /\ ~changed
       /\ ~serial.acia.parityError /\ ~serial.acia.framingError
  /\ serial.acia.state = "need_data" /\ ~changed =>
       Len(serial.acia.sr) < WordBits(serial.acia.control)
  /\ Len(serial.acia.sr) > LongWord => changed /\ serial.acia.state = "need_data"

\* The ACIA, its receiver and its lines, the tape and the scheduler agree.
Coherent == TypeOK /\ WordEnds /\ IrqIsCurrent /\ LinesFollow /\ TapeTurnsWithMotor

\* A lost word is always on its way to being reported, and nothing else is.
OverrunIsReported ==
  lost <=> serial.acia.overflow \/ "OVRN" \in serial.acia.status

WordsBefore(t, pos, Length(_)) ==
  LET ended == SelectSeq([i \in 1..Len(Tapes[t]) |-> i], LAMBDA i :
                 Tapes[t][i].kind = "word" /\ Starts[t][i] + Length(Tapes[t][i]) <= pos)
  IN  [n \in 1..Len(ended) |-> [word |-> Tapes[t][ended[n]].word, bad |-> FALSE]]

ToStop(symbol) == Len(Scaled(WordCells(symbol), symbol.slow)) + 1
ToEnd(symbol) == Len(Cells(symbol))

\* The ACIA hears the words written on the tape, all of them, in order and
\* without an error, in every format, at both speeds, and through the motor
\* stopping in the middle of a word, as long as it is connected and set for it.
TapeIsHeard ==
  straight /\ serial.index <= Len(Tapes) =>
    /\ IsPrefix(heard, WordsBefore(serial.index, serial.pos, ToStop))
    /\ IsPrefix(WordsBefore(serial.index, serial.pos, ToEnd), heard)

\* What is on the tape is heard, or reported as lost.
WordsAreHeard == TapeIsHeard /\ OverrunIsReported

\* A byte to be sent is taken, unless no device is there to take it: by the
\* tape at once, by the RS423 device at a tick.
TransmitDrains ==
  IsTransmitReady(serial.acia) /\ "output" \in serial.device ~> ~IsTransmitReady(serial.acia)
=============================================================================
