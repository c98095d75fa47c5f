------------------------------ MODULE MCSerial ------------------------------
(* A small instance of Serial: words of two and one bits. And tapes recorded *)
(* as sound, of whole bytes (TapeCsw).                                       *)
EXTENDS Serial, TapeCsw

Tone == [kind |-> "carrier"]
Gap == [kind |-> "silence"]
Word(bits, parity, stops, slow) ==
  [kind |-> "word", word |-> bits, parity |-> parity, stops |-> stops, slow |-> slow]

\* The control register is zero after a reset: the first tape's words are received
\* as it is, the second's when it has been written.
TwoTapes ==
  <<<<Word(<<1>>, "E", 1, FALSE), Gap>>,
    <<Word(<<1, 0>>, "N", 1, TRUE)>>>>

TwoDevices == {{}, {"input", "output"}}

\* Long words as on the second tape, and a return to short ones at any time.
TwoControls ==
  {ControlWord(TRUE, FALSE, FALSE, TRUE, "rts_and_tie", TRUE), ZeroControl}

\* With no device the tape does not turn: what it is for the ACIA is in the other
\* machine, what the lines of no device are in this one.
NextHere == Next /\ (serial.device = {} => ~serial'.motor)
FairSpecHere == Init /\ [][NextHere]_vars /\ WF_vars(Tick)

\* Bytes with one and two stop bits, nine and ten ones in a row among them, and
\* carriers that stop at every half wave.
Byte(bits, stops) == [i \in 1 .. 9 + stops |->
  [kind |-> "bit", bit |-> IF i = 1 THEN 0 ELSE IF i < 10 THEN bits[i - 1] ELSE 1]]
Quiet(samples) == <<[kind |-> "silence", samples |-> samples]>>
Leader(halves) == <<[kind |-> "carrier", halves |-> halves]>>
SomeRecordings ==
  { Quiet(500) \o Leader(40 + n) \o Byte(<<1, 1, 1, 1, 1, 1, 1, 1>>, stops) \o Byte(<<1, 0, 0, 0, 1, 1, 0, 1>>, stops)
      \o Leader(45 - n) \o Quiet(777) \o Leader(9 + n) \o Byte(<<0, 0, 0, 0, 0, 0, 0, 0>>, stops)
    : n \in 0 .. 3, stops \in 1 .. 2 }
SomeShapes == {[speed |-> 94, uneven |-> 0], [speed |-> 100, uneven |-> 2], [speed |-> 106, uneven |-> 1]}

\* What is on a tape is found, and heard or reported as lost.
TapesAreHeard == WordsAreHeard /\ BitsAreFound
=============================================================================
