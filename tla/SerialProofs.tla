---------------------------- MODULE SerialProofs ----------------------------
(***************************************************************************)
(* Proofs about Serial: for every word length, every tape, every device and  *)
(* every order of the 6502's accesses, tape bits, ticks, tape changes and    *)
(* resets, the ACIA, its lines, the tape and the scheduler agree, and a word *)
(* that was lost is on its way to being reported.                            *)
(***************************************************************************)
EXTENDS Serial, TLAPS

-----------------------------------------------------------------------------
(* The ACIA by itself. *)

Flags == {"TDRE", "RDRF", "DCD", "CTS", "FE", "OVRN", "PE", "IRQ"}
States == {"need_start", "need_data", "need_parity", "need_stop"}
Acias ==
  [status : SUBSET Flags, forRead : SUBSET Flags, irq : BOOLEAN,
   control : Controls \cup {ZeroControl}, state : States, sr : Seq({0, 1}),
   divider : 0..(ClockDivide - 1), parityError : BOOLEAN, framingError : BOOLEAN,
   overflow : BOOLEAN, isDCD : BOOLEAN]

\* What the 6502 sees is of the chip's present state.
Current(a) ==
  /\ a.irq = Fires(a)
  /\ "IRQ" \in a.status <=> a.irq
  /\ a.forRead = ForRead(a.status, a.isDCD)

\* The receiver is empty while it waits for a word.
Empty(a) == a.state = "need_start" => a.sr = <<>> /\ ~a.parityError /\ ~a.framingError

\* The bits shifted in are fewer than a word while more are awaited.
Fits(a) ==
  /\ Empty(a)
  /\ a.state = "need_data" => Len(a.sr) < WordBits(a.control)
  /\ Len(a.sr) <= LongWord

\* Once the length of the word has changed they may be too many, while it goes on.
Loose(a) == Empty(a) /\ Len(a.sr) <= LongWord + 1 /\ (Len(a.sr) > LongWord => a.state = "need_data")

KeepsFit(a, b) == (Fits(a) => Fits(b)) /\ (Loose(a) => Loose(b))

Told(a) == a.overflow \/ "OVRN" \in a.status
CTS(a) == "CTS" \in a.status
Full(a) == "RDRF" \in a.status

\* b may differ from a in the interrupt and what is ready to be read.
Refreshed(a, b) ==
  /\ b \in Acias /\ Current(b)
  /\ b.control = a.control /\ b.state = a.state /\ b.sr = a.sr
  /\ b.parityError = a.parityError /\ b.framingError = a.framingError
  /\ b.overflow = a.overflow /\ b.isDCD = a.isDCD
  /\ b.status \ {"IRQ"} = a.status \ {"IRQ"}

\* After UpdateIrq (mc6850_update_irq_and_status_read) the interrupt and the
\* status to be read are those of the rest of the chip, which stays.
LEMMA UpdateIrqOn ==
  ASSUME NEW a \in Acias
  PROVE  Refreshed(a, UpdateIrq(a))
<1> DEFINE status == (a.status \ {"IRQ"}) \cup (IF Fires(a) THEN {"IRQ"} ELSE {})
           b == [a EXCEPT !.status = status, !.irq = Fires(a), !.forRead = ForRead(status, a.isDCD)]
<1>1. status \subseteq Flags /\ status \ {"IRQ"} = a.status \ {"IRQ"} /\ ("IRQ" \in status <=> Fires(a))
  BY DEF Acias, Flags
<1>2. Fires(a) \in BOOLEAN
  BY DEF Fires
<1>3. ForRead(status, a.isDCD) \subseteq Flags
  BY <1>1 DEF ForRead, Flags
<1> HIDE DEF status
<1>4. /\ b.status = status /\ b.irq = Fires(a) /\ b.forRead = ForRead(status, a.isDCD)
      /\ b.control = a.control /\ b.state = a.state /\ b.sr = a.sr
      /\ b.parityError = a.parityError /\ b.framingError = a.framingError
      /\ b.overflow = a.overflow /\ b.isDCD = a.isDCD
  BY DEF Acias
<1>5. b \in Acias
  BY <1>1, <1>2, <1>3 DEF Acias
<1> HIDE DEF b
<1>6. Fires(b) <=> Fires(a)
  BY <1>1, <1>4 DEF Fires
<1>7. Fires(b) = Fires(a)
  BY <1>6, <1>2 DEF Fires
<1>8. Current(b)
  BY <1>1, <1>4, <1>7 DEF Current
<1>9. UpdateIrq(a) = b
  BY DEF UpdateIrq, b, status
<1> QED
  BY <1>1, <1>4, <1>5, <1>8, <1>9 DEF Refreshed

\* From a to b the receiver stays, and no loss is added or reported.
Quiet(a, b) ==
  /\ b \in Acias /\ Current(b)
  /\ b.control = a.control /\ b.state = a.state /\ b.sr = a.sr
  /\ b.parityError = a.parityError /\ b.framingError = a.framingError
  /\ Told(b) <=> Told(a)
SameLines(a, b) == b.isDCD = a.isDCD /\ (CTS(b) <=> CTS(a))

\* UpdateIrq keeps the receiver, the losses and the lines.
LEMMA RefreshedIsQuiet ==
  ASSUME NEW a, NEW b, Refreshed(a, b)
  PROVE  Quiet(a, b) /\ SameLines(a, b)
<1>1. ("OVRN" \in b.status <=> "OVRN" \in a.status) /\ ("CTS" \in b.status <=> "CTS" \in a.status)
  BY DEF Refreshed
<1> QED
  BY <1>1 DEF Refreshed, Quiet, SameLines, Told, CTS

\* mc6850_set_DCD moves its line alone.
LEMMA SetDCDOn ==
  ASSUME NEW a \in Acias, NEW isDCD \in BOOLEAN
  PROVE  /\ Quiet(a, SetDCD(a, isDCD)) /\ SetDCD(a, isDCD).isDCD = isDCD
         /\ CTS(SetDCD(a, isDCD)) <=> CTS(a)
         /\ Full(SetDCD(a, isDCD)) <=> Full(a)
<1> DEFINE status == IF isDCD /\ ~a.isDCD THEN a.status \cup {"DCD"} ELSE a.status
           c == [a EXCEPT !.status = status, !.isDCD = isDCD]
<1>1. status \subseteq Flags /\ \A flag \in {"OVRN", "CTS", "RDRF"} : flag \in status <=> flag \in a.status
  BY DEF Acias, Flags
<1> HIDE DEF status
<1>2. /\ c \in Acias /\ c.status = status /\ c.isDCD = isDCD /\ c.overflow = a.overflow
      /\ c.control = a.control /\ c.state = a.state /\ c.sr = a.sr
      /\ c.parityError = a.parityError /\ c.framingError = a.framingError
  BY <1>1 DEF Acias
<1> HIDE DEF c
<1>3. Refreshed(c, UpdateIrq(c))
  BY <1>2, UpdateIrqOn
<1>4. SetDCD(a, isDCD) = UpdateIrq(c)
  BY DEF SetDCD, c, status
<1>5. Quiet(c, UpdateIrq(c)) /\ SameLines(c, UpdateIrq(c))
  BY <1>3, RefreshedIsQuiet
<1>6. Full(UpdateIrq(c)) <=> Full(a)
  BY <1>1, <1>2, <1>3 DEF Refreshed, Full
<1> QED
  BY <1>1, <1>2, <1>4, <1>5, <1>6 DEF Quiet, SameLines, Told, CTS

\* mc6850_set_CTS moves its line alone.
LEMMA SetCTSOn ==
  ASSUME NEW a \in Acias, NEW isCTS \in BOOLEAN
  PROVE  /\ Quiet(a, SetCTS(a, isCTS)) /\ SetCTS(a, isCTS).isDCD = a.isDCD
         /\ CTS(SetCTS(a, isCTS)) <=> isCTS
         /\ Full(SetCTS(a, isCTS)) <=> Full(a)
<1> DEFINE status == (a.status \ {"CTS"}) \cup (IF isCTS THEN {"CTS"} ELSE {})
           c == [a EXCEPT !.status = status]
<1>1. status \subseteq Flags /\ ("OVRN" \in status <=> "OVRN" \in a.status) /\ ("CTS" \in status <=> isCTS)
      /\ ("RDRF" \in status <=> "RDRF" \in a.status)
  BY DEF Acias, Flags
<1> HIDE DEF status
<1>2. /\ c \in Acias /\ c.status = status /\ c.isDCD = a.isDCD /\ c.overflow = a.overflow
      /\ c.control = a.control /\ c.state = a.state /\ c.sr = a.sr
      /\ c.parityError = a.parityError /\ c.framingError = a.framingError
  BY <1>1 DEF Acias
<1> HIDE DEF c
<1>3. Refreshed(c, UpdateIrq(c))
  BY <1>2, UpdateIrqOn
<1>4. SetCTS(a, isCTS) = UpdateIrq(c)
  BY DEF SetCTS, c, status
<1>5. Quiet(c, UpdateIrq(c)) /\ SameLines(c, UpdateIrq(c))
  BY <1>3, RefreshedIsQuiet
<1>6. Full(UpdateIrq(c)) <=> Full(a)
  BY <1>1, <1>2, <1>3 DEF Refreshed, Full
<1> QED
  BY <1>1, <1>2, <1>4, <1>5, <1>6 DEF Quiet, SameLines, Told, CTS

\* A set of flags put into the status, neither an overrun nor a line.
LEMMA StatusOn ==
  ASSUME NEW a \in Acias, NEW status \in SUBSET Flags,
         "OVRN" \in status <=> "OVRN" \in a.status, "CTS" \in status <=> "CTS" \in a.status
  PROVE  LET b == UpdateIrq([a EXCEPT !.status = status])
         IN  Quiet(a, b) /\ SameLines(a, b) /\ Refreshed([a EXCEPT !.status = status], b)
<1> DEFINE c == [a EXCEPT !.status = status]
<1>2. /\ c \in Acias /\ c.status = status /\ c.isDCD = a.isDCD /\ c.overflow = a.overflow
      /\ c.control = a.control /\ c.state = a.state /\ c.sr = a.sr
      /\ c.parityError = a.parityError /\ c.framingError = a.framingError
  BY DEF Acias
<1> HIDE DEF c
<1>3. Refreshed(c, UpdateIrq(c))
  BY <1>2, UpdateIrqOn
<1>5. Quiet(c, UpdateIrq(c)) /\ SameLines(c, UpdateIrq(c))
  BY <1>3, RefreshedIsQuiet
<1>6. Quiet(a, UpdateIrq(c)) /\ SameLines(a, UpdateIrq(c))
  BY <1>2, <1>5 DEF Quiet, SameLines, Told, CTS
<1> QED
  BY <1>3, <1>6 DEF c

\* A byte received, or sent, moves no line and leaves the receiver.
LEMMA ReceiveOn ==
  ASSUME NEW a \in Acias, Current(a)
  PROVE  Quiet(a, Receive(a)) /\ SameLines(a, Receive(a))
<1> DEFINE status == (a.status \cup {"RDRF"}) \ {"FE", "PE"}
<1>1. status \in SUBSET Flags /\ ("OVRN" \in status <=> "OVRN" \in a.status) /\ ("CTS" \in status <=> "CTS" \in a.status)
  BY DEF Acias, Flags
<1> HIDE DEF status
<1>2. Quiet(a, UpdateIrq([a EXCEPT !.status = status])) /\ SameLines(a, UpdateIrq([a EXCEPT !.status = status]))
  BY <1>1, StatusOn
<1>3. Quiet(a, a) /\ SameLines(a, a)
  BY DEF Quiet, SameLines
<1> QED
  BY <1>2, <1>3 DEF Receive, status

\* Likewise when a byte is sent, at once or by WriteData and a later tick.
LEMMA TransmitOn ==
  ASSUME NEW a \in Acias
  PROVE  Quiet(a, Transmit(a)) /\ SameLines(a, Transmit(a))
<1> DEFINE status == a.status \cup {"TDRE"}
<1>1. status \in SUBSET Flags /\ ("OVRN" \in status <=> "OVRN" \in a.status) /\ ("CTS" \in status <=> "CTS" \in a.status)
  BY DEF Acias, Flags
<1> HIDE DEF status
<1> QED
  BY <1>1, StatusOn DEF Transmit, status

\* mc6850_write of the data register, with what the tape or the ticks do next.
LEMMA SendOn ==
  ASSUME NEW a \in Acias, NEW atOnce \in BOOLEAN
  PROVE  LET b == UpdateIrq(IF atOnce THEN Transmit(WriteData(a)) ELSE WriteData(a))
         IN  Quiet(a, b) /\ SameLines(a, b)
<1> DEFINE status == a.status \ {"TDRE"}
           c == [a EXCEPT !.status = status]
<1>1. status \in SUBSET Flags /\ ("OVRN" \in status <=> "OVRN" \in a.status) /\ ("CTS" \in status <=> "CTS" \in a.status)
  BY DEF Acias, Flags
<1> HIDE DEF status
<1>2. /\ c \in Acias /\ c.status = status /\ c.isDCD = a.isDCD /\ c.overflow = a.overflow
      /\ c.control = a.control /\ c.state = a.state /\ c.sr = a.sr
      /\ c.parityError = a.parityError /\ c.framingError = a.framingError
  BY <1>1 DEF Acias
<1>3. WriteData(a) = c
  BY DEF WriteData, status
<1> HIDE DEF c
<1>4. Quiet(c, Transmit(c)) /\ SameLines(c, Transmit(c)) /\ Transmit(c) \in Acias
  BY <1>2, TransmitOn DEF Quiet
<1> DEFINE d == IF atOnce THEN Transmit(c) ELSE c
<1>5. /\ d \in Acias /\ d.control = a.control /\ d.state = a.state /\ d.sr = a.sr
      /\ d.parityError = a.parityError /\ d.framingError = a.framingError
      /\ (Told(d) <=> Told(a)) /\ SameLines(a, d)
  BY <1>1, <1>2, <1>4 DEF Quiet, SameLines, Told, CTS
<1> HIDE DEF d
<1>6. Quiet(d, UpdateIrq(d)) /\ SameLines(d, UpdateIrq(d))
  BY <1>5, UpdateIrqOn, RefreshedIsQuiet
<1>7. Quiet(a, UpdateIrq(d)) /\ SameLines(a, UpdateIrq(d))
  BY <1>5, <1>6 DEF Quiet, SameLines
<1> QED
  BY <1>3, <1>7 DEF d

\* Reading the data register (mc6850_read) reports a loss that waited, and ends
\* the report of the one before.
LEMMA ReadDataOn ==
  ASSUME NEW a \in Acias
  PROVE  LET b == ReadData(a)
         IN  /\ b \in Acias /\ Current(b) /\ SameLines(a, b)
             /\ b.control = a.control /\ b.state = a.state /\ b.sr = a.sr
             /\ b.parityError = a.parityError /\ b.framingError = a.framingError
             /\ Told(b) <=> a.overflow
<1> DEFINE status == IF a.overflow THEN (a.status \ {"DCD"}) \cup {"OVRN"} ELSE a.status \ {"DCD", "OVRN", "RDRF"}
           c == [a EXCEPT !.overflow = FALSE, !.status = status]
           d == [a EXCEPT !.status = status]
<1>1. status \in SUBSET Flags /\ ("OVRN" \in status <=> a.overflow) /\ ("CTS" \in status <=> "CTS" \in a.status)
  BY DEF Acias, Flags
<1>2. CASE a.overflow
  <2>1. ReadData(a) = UpdateIrq(c)
    BY <1>2 DEF ReadData
  <2> HIDE DEF status
  <2>2. /\ c \in Acias /\ c.status = status /\ c.isDCD = a.isDCD /\ c.overflow = FALSE
        /\ c.control = a.control /\ c.state = a.state /\ c.sr = a.sr
        /\ c.parityError = a.parityError /\ c.framingError = a.framingError
    BY <1>1 DEF Acias
  <2> HIDE DEF c
  <2>3. Quiet(c, UpdateIrq(c)) /\ SameLines(c, UpdateIrq(c))
    BY <2>2, UpdateIrqOn, RefreshedIsQuiet
  <2> QED
    BY <1>1, <2>1, <2>2, <2>3 DEF Quiet, SameLines, Told, CTS
<1>3. CASE ~a.overflow
  <2>1. ReadData(a) = UpdateIrq(d)
    BY <1>3 DEF ReadData
  <2> HIDE DEF status
  <2>2. /\ d \in Acias /\ d.status = status /\ d.isDCD = a.isDCD /\ d.overflow = a.overflow
        /\ d.control = a.control /\ d.state = a.state /\ d.sr = a.sr
        /\ d.parityError = a.parityError /\ d.framingError = a.framingError
    BY <1>1 DEF Acias
  <2> HIDE DEF d
  <2>3. Quiet(d, UpdateIrq(d)) /\ SameLines(d, UpdateIrq(d))
    BY <2>2, UpdateIrqOn, RefreshedIsQuiet
  <2> QED
    BY <1>1, <1>3, <2>1, <2>2, <2>3 DEF Quiet, SameLines, Told, CTS
<1> QED
  BY <1>2, <1>3

\* Writing the control register replaces it and looks at the interrupt.
LEMMA WriteControlOn ==
  ASSUME NEW a \in Acias, NEW control \in Controls
  PROVE  LET b == WriteControl(a, control)
         IN  /\ b \in Acias /\ Current(b) /\ SameLines(a, b) /\ (Told(b) <=> Told(a))
             /\ b.control = control /\ b.state = a.state /\ b.sr = a.sr
             /\ b.parityError = a.parityError /\ b.framingError = a.framingError
<1> DEFINE c == [a EXCEPT !.control = control]
<1>2. /\ c \in Acias /\ c.status = a.status /\ c.isDCD = a.isDCD /\ c.overflow = a.overflow
      /\ c.control = control /\ c.state = a.state /\ c.sr = a.sr
      /\ c.parityError = a.parityError /\ c.framingError = a.framingError
  BY DEF Acias
<1>4. WriteControl(a, control) = UpdateIrq(c)
  BY DEF WriteControl
<1> HIDE DEF c
<1>3. Quiet(c, UpdateIrq(c)) /\ SameLines(c, UpdateIrq(c))
  BY <1>2, UpdateIrqOn, RefreshedIsQuiet
<1> QED
  BY <1>2, <1>3, <1>4 DEF Quiet, SameLines, Told, CTS

\* The receiver emptied by clear_receive_state.
LEMMA ClearReceiveStateOn ==
  ASSUME NEW a \in Acias
  PROVE  LET b == ClearReceiveState(a)
         IN  /\ b \in Acias /\ b.sr = <<>> /\ ~b.parityError /\ ~b.framingError /\ b.status = a.status /\ b.overflow = a.overflow
             /\ b.control = a.control /\ b.state = a.state /\ b.isDCD = a.isDCD
<1>1. <<>> \in Seq({0, 1}) /\ 0 \in 0..(ClockDivide - 1)
  BY AciaAssumption
<1>2. ClearReceiveState(a) \in Acias
  BY <1>1 DEF Acias, ClearReceiveState
<1> QED
  BY <1>2 DEF Acias, ClearReceiveState

\* mc6850_reset: nothing received, nothing lost, the lines as they were.
LEMMA ResetOn ==
  ASSUME NEW a \in Acias
  PROVE  LET b == Reset(a)
         IN  /\ b \in Acias /\ Current(b) /\ SameLines(a, b) /\ ~Told(b)
             /\ b.state = "need_start" /\ b.sr = <<>> /\ ~b.parityError /\ ~b.framingError
<1> DEFINE c == [a EXCEPT !.state = "need_start", !.overflow = FALSE,
                          !.status = {"TDRE"}, !.control = ZeroControl]
           d == ClearReceiveState(c)
           e == SetDCD(d, a.isDCD)
           isCTS == "CTS" \in a.status
<1>1. /\ c \in Acias /\ c.status = {"TDRE"} /\ c.overflow = FALSE /\ c.state = "need_start"
      /\ c.isDCD = a.isDCD
  BY DEF Acias, States, Flags
<1>2. Reset(a) = SetCTS(e, isCTS)
  BY DEF Reset
<1> HIDE DEF c
<1>3. /\ d \in Acias /\ d.sr = <<>> /\ ~d.parityError /\ ~d.framingError /\ d.status = {"TDRE"} /\ d.overflow = FALSE /\ d.state = "need_start"
  BY <1>1, ClearReceiveStateOn
<1> HIDE DEF d
<1>4. a.isDCD \in BOOLEAN /\ isCTS \in BOOLEAN
  BY DEF Acias
<1>5. Quiet(d, e) /\ e.isDCD = a.isDCD
  BY <1>3, <1>4, SetDCDOn
<1> HIDE DEF e, isCTS
<1>6. e \in Acias
  BY <1>5 DEF Quiet
<1>7. Quiet(e, SetCTS(e, isCTS)) /\ SetCTS(e, isCTS).isDCD = e.isDCD /\ (CTS(SetCTS(e, isCTS)) <=> isCTS)
  BY <1>4, <1>6, SetCTSOn
<1>8. ~Told(d)
  BY <1>3 DEF Told
<1>9. CTS(a) <=> isCTS
  BY DEF CTS, isCTS
<1> QED
  BY <1>2, <1>3, <1>5, <1>7, <1>8, <1>9 DEF Quiet, SameLines

\* mc6850_power_on_reset lowers the lines too.
LEMMA PowerOnOn ==
  ASSUME NEW a \in Acias
  PROVE  LET b == PowerOn(a)
         IN  /\ b \in Acias /\ Current(b) /\ ~b.isDCD /\ ~CTS(b) /\ ~Told(b)
             /\ b.state = "need_start" /\ b.sr = <<>> /\ ~b.parityError /\ ~b.framingError
<1> DEFINE c == [a EXCEPT !.isDCD = FALSE, !.status = {}]
<1>1. c \in Acias /\ ~c.isDCD /\ c.status = {}
  BY DEF Acias
<1>2. PowerOn(a) = Reset(c)
  BY DEF PowerOn
<1> HIDE DEF c
<1> QED
  BY <1>1, <1>2, ResetOn DEF SameLines, CTS

\* A word is complete: it is received, or lost if the one before is still there.
LEMMA TransferSrOn ==
  ASSUME NEW a \in Acias, Current(a)
  PROVE  LET b == TransferSr(a)
         IN  /\ b \in Acias /\ Current(b) /\ SameLines(a, b)
             /\ b.control = a.control /\ b.sr = <<>> /\ ~b.parityError /\ ~b.framingError
             /\ Told(b) <=> Told(a) \/ "RDRF" \in a.status
<1> DEFINE flags == (IF a.parityError THEN {"PE"} ELSE {}) \cup (IF a.framingError THEN {"FE"} ELSE {})
           g == Receive(a)
           c == IF "RDRF" \in a.status THEN [a EXCEPT !.overflow = TRUE] ELSE [g EXCEPT !.status = @ \cup flags]
           d == ClearReceiveState(c)
<1>1. TransferSr(a) = UpdateIrq(d)
  BY DEF TransferSr
<1>2. flags \subseteq {"PE", "FE"}
  OBVIOUS
<1> HIDE DEF flags
<1>3. Quiet(a, g) /\ SameLines(a, g)
  BY ReceiveOn
<1> HIDE DEF g
<1>4. /\ c \in Acias /\ c.control = a.control /\ c.isDCD = a.isDCD /\ (CTS(c) <=> CTS(a))
      /\ (Told(c) <=> Told(a) \/ "RDRF" \in a.status)
  <2>1. CASE "RDRF" \in a.status
    <3>1. [a EXCEPT !.overflow = TRUE] \in Acias
      BY DEF Acias
    <3> QED
      BY <2>1, <3>1 DEF Acias, CTS, Told
  <2>2. CASE "RDRF" \notin a.status
    <3> DEFINE h == [g EXCEPT !.status = @ \cup flags]
    <3>1. g \in Acias
      BY <1>3 DEF Quiet
    <3>2. h \in Acias /\ h.status = g.status \cup flags /\ h.control = g.control /\ h.isDCD = g.isDCD
          /\ h.overflow = g.overflow
      BY <1>2, <3>1 DEF Acias, Flags
    <3>3. c = h
      BY <2>2
    <3> HIDE DEF h, c
    <3> QED
      BY <1>2, <1>3, <2>2, <3>2, <3>3 DEF Quiet, SameLines, CTS, Told
  <2> QED
    BY <2>1, <2>2
<1> HIDE DEF c
<1>5. /\ d \in Acias /\ d.sr = <<>> /\ ~d.parityError /\ ~d.framingError /\ d.control = a.control /\ SameLines(a, d)
      /\ (Told(d) <=> Told(a) \/ "RDRF" \in a.status)
  BY <1>4, ClearReceiveStateOn DEF SameLines, CTS, Told
<1> HIDE DEF d
<1>6. Quiet(d, UpdateIrq(d)) /\ SameLines(d, UpdateIrq(d))
  BY <1>5, UpdateIrqOn, RefreshedIsQuiet
<1> QED
  BY <1>1, <1>5, <1>6 DEF Quiet, SameLines

\* From a to b the receiver may advance; it keeps within its word if it was.
Completes(a, b) == a.state = "need_stop" /\ b.state = "need_start"
Advances(a, b) ==
  /\ b \in Acias /\ Current(b) /\ SameLines(a, b) /\ b.control = a.control
  /\ KeepsFit(a, b)
  /\ Told(b) <=> Told(a) \/ (Completes(a, b) /\ "RDRF" \in a.status)

\* A chip that differs in what neither the interrupt nor the lines depend on.
LEMMA CurrentStays ==
  ASSUME NEW a \in Acias, Current(a), NEW b \in Acias,
         b.status = a.status, b.forRead = a.forRead, b.irq = a.irq, b.control = a.control,
         b.isDCD = a.isDCD, b.overflow = a.overflow
  PROVE  Current(b) /\ SameLines(a, b) /\ (Told(b) <=> Told(a))
<1>1. Fires(b) = Fires(a)
  BY DEF Fires
<1> QED
  BY <1>1 DEF Current, SameLines, CTS, Told

\* Words are no longer than LongWord.
LEMMA WordBitsFit ==
  ASSUME NEW control
  PROVE  WordBits(control) \in Nat /\ WordBits(control) <= LongWord
BY AciaAssumption DEF WordBits

\* The shift register takes a bit, up to one more than a long word.
LEMMA ShiftedOn ==
  ASSUME NEW sr \in Seq({0, 1}), NEW bit \in {0, 1}
  PROVE  /\ Shifted(sr, bit) \in Seq({0, 1}) /\ Len(sr) \in Nat
         /\ Len(sr) < LongWord => Len(Shifted(sr, bit)) = Len(sr) + 1
         /\ Len(sr) >= LongWord => Len(Shifted(sr, bit)) = LongWord + 1
<1> DEFINE full == [i \in 1..(LongWord + 1) |-> 0]
<1>1. LongWord + 1 \in Nat /\ LongWord \in Nat /\ Len(sr) \in Nat
  BY AciaAssumption
<1>2. full \in Seq({0, 1}) /\ Len(full) = LongWord + 1
  BY <1>1
<1>3. Append(sr, bit) \in Seq({0, 1}) /\ Len(Append(sr, bit)) = Len(sr) + 1
  OBVIOUS
<1> QED
  BY <1>1, <1>2, <1>3 DEF Shifted

\* A bit shifted in.
LEMMA ShiftInOn ==
  ASSUME NEW a \in Acias, Current(a), a.state = "need_data", NEW bit \in {0, 1}
  PROVE  Advances(a, ShiftIn(a, bit))
<1> DEFINE sr == Shifted(a.sr, bit)
           state == IF Len(sr) # WordBits(a.control) THEN a.state
                    ELSE IF HasParity(a.control) THEN "need_parity" ELSE "need_stop"
           b == [a EXCEPT !.sr = sr, !.state = state]
<1>0. a.sr \in Seq({0, 1})
  BY DEF Acias
<1>1. /\ sr \in Seq({0, 1}) /\ Len(a.sr) \in Nat
      /\ Len(a.sr) < LongWord => Len(sr) = Len(a.sr) + 1
      /\ Len(a.sr) >= LongWord => Len(sr) = LongWord + 1
  BY <1>0, ShiftedOn
<1>2. state \in {"need_data", "need_parity", "need_stop"} /\ (state = "need_data" => Len(sr) # WordBits(a.control))
  OBVIOUS
<1>3. ShiftIn(a, bit) = b
  BY DEF ShiftIn, Acias
<1> HIDE DEF sr, state
<1>4. /\ b \in Acias /\ b.sr = sr /\ b.state = state
      /\ b.status = a.status /\ b.forRead = a.forRead /\ b.irq = a.irq /\ b.control = a.control
      /\ b.isDCD = a.isDCD /\ b.overflow = a.overflow
  BY <1>1, <1>2 DEF Acias, States
<1> HIDE DEF b
<1>5. Current(b) /\ SameLines(a, b) /\ (Told(b) <=> Told(a))
  BY <1>4, CurrentStays
<1>6. WordBits(a.control) \in Nat /\ WordBits(a.control) <= LongWord /\ LongWord \in Nat
  BY WordBitsFit, AciaAssumption
<1>7. ASSUME Fits(a) PROVE Fits(b)
  <2>1. Len(a.sr) < WordBits(a.control)
    BY <1>7 DEF Fits
  <2>2. Len(sr) <= LongWord /\ (Len(sr) # WordBits(a.control) => Len(sr) < WordBits(a.control))
    BY <1>1, <1>6, <2>1
  <2> QED
    BY <1>2, <1>4, <2>2 DEF Fits, Empty
<1>8. Loose(b)
  <2>1. Len(sr) <= LongWord + 1 /\ (Len(sr) > LongWord => Len(sr) # WordBits(a.control))
    BY <1>1, <1>6
  <2>2. Len(sr) # WordBits(a.control) => state = "need_data"
    BY DEF state
  <2> QED
    BY <1>2, <1>4, <2>1, <2>2 DEF Loose, Empty
<1> QED
  BY <1>3, <1>4, <1>5, <1>7, <1>8 DEF Advances, Completes, KeepsFit

\* mc6850_receive_bit, in every state and at either speed.
LEMMA ReceiveBitOn ==
  ASSUME NEW a \in Acias, Current(a), NEW bit \in {0, 1}
  PROVE  Advances(a, ReceiveBit(a, bit))
<1> DEFINE f == [a EXCEPT !.divider = (@ + 1) % ClockDivide]
           isOdd == (Sum(f.sr) + bit) % 2 = 1
           isRead == f.control.div64 => f.divider = 0
           bad == isOdd # f.control.odd
           framed == bit # 1
<1>1. (a.divider + 1) % ClockDivide \in 0..(ClockDivide - 1)
  BY AciaAssumption DEF Acias
<1>2. /\ f \in Acias /\ f.sr = a.sr
      /\ f.parityError = a.parityError /\ f.framingError = a.framingError /\ f.state = a.state
      /\ f.status = a.status /\ f.forRead = a.forRead /\ f.irq = a.irq /\ f.control = a.control
      /\ f.isDCD = a.isDCD /\ f.overflow = a.overflow
  BY <1>1 DEF Acias
<1>3. ReceiveBit(a, bit) =
        CASE ~isRead -> f
          [] isRead /\ f.state = "need_start" -> IF bit = 0 THEN [f EXCEPT !.state = "need_data"] ELSE f
          [] isRead /\ f.state = "need_data" -> ShiftIn(f, bit)
          [] isRead /\ f.state = "need_parity" -> [f EXCEPT !.parityError = bad, !.state = "need_stop"]
          [] isRead /\ f.state = "need_stop" ->
               [TransferSr([f EXCEPT !.framingError = framed]) EXCEPT !.state = "need_start"]
  BY DEF ReceiveBit
<1>4. bad \in BOOLEAN /\ framed \in BOOLEAN
  OBVIOUS
<1>5. f.state \in States
  BY <1>2 DEF Acias
<1> HIDE DEF f, isOdd, isRead, bad, framed
<1>6. Current(f) /\ SameLines(a, f) /\ (Told(f) <=> Told(a))
  BY <1>2, CurrentStays
<1>7. (Fits(f) <=> Fits(a)) /\ (Loose(f) <=> Loose(a))
  BY <1>2 DEF Fits, Loose, Empty
<1>8. Advances(f, ReceiveBit(a, bit))
  <2>1. Advances(f, f)
    BY <1>2, <1>6 DEF Advances, Completes, SameLines, KeepsFit
  <2>2. CASE ~isRead
    BY <1>3, <2>1, <2>2
  <2>3. CASE isRead /\ f.state = "need_start"
    <3> DEFINE b == [f EXCEPT !.state = "need_data"]
    <3>1. /\ b \in Acias /\ b.sr = f.sr
          /\ b.parityError = f.parityError /\ b.framingError = f.framingError /\ b.state = "need_data"
          /\ b.status = f.status /\ b.forRead = f.forRead /\ b.irq = f.irq /\ b.control = f.control
          /\ b.isDCD = f.isDCD /\ b.overflow = f.overflow
      BY <1>2 DEF Acias, States
    <3>2. ReceiveBit(a, bit) \in {b, f}
      BY <1>3, <2>3
    <3> HIDE DEF b
    <3>3. Current(b) /\ SameLines(f, b) /\ (Told(b) <=> Told(f))
      BY <1>2, <1>6, <3>1, CurrentStays
    <3>4. KeepsFit(f, b)
      BY <2>3, <3>1, AciaAssumption DEF Fits, Loose, Empty, WordBits, KeepsFit
    <3>5. Advances(f, b)
      BY <3>1, <3>3, <3>4 DEF Advances, Completes, KeepsFit
    <3> QED
      BY <2>1, <3>2, <3>5
  <2>4. CASE isRead /\ f.state = "need_data"
    <3>1. ReceiveBit(a, bit) = ShiftIn(f, bit)
      BY <1>3, <2>4
    <3> QED
      BY <1>2, <1>6, <2>4, <3>1, ShiftInOn
  <2>5. CASE isRead /\ f.state = "need_parity"
    <3> DEFINE b == [f EXCEPT !.parityError = bad, !.state = "need_stop"]
    <3>1. /\ b \in Acias /\ b.sr = f.sr /\ b.state = "need_stop"
          /\ b.status = f.status /\ b.forRead = f.forRead /\ b.irq = f.irq /\ b.control = f.control
          /\ b.isDCD = f.isDCD /\ b.overflow = f.overflow
      BY <1>2, <1>4 DEF Acias, States
    <3>2. ReceiveBit(a, bit) = b
      BY <1>3, <2>5
    <3> HIDE DEF b
    <3>3. Current(b) /\ SameLines(f, b) /\ (Told(b) <=> Told(f))
      BY <1>2, <1>6, <3>1, CurrentStays
    <3>4. KeepsFit(f, b)
      BY <2>5, <3>1 DEF Fits, Loose, Empty, KeepsFit
    <3> QED
      BY <2>5, <3>1, <3>2, <3>3, <3>4 DEF Advances, Completes, KeepsFit
  <2>6. CASE isRead /\ f.state = "need_stop"
    <3> DEFINE c == [f EXCEPT !.framingError = framed]
               d == TransferSr(c)
               b == [d EXCEPT !.state = "need_start"]
    <3>1. /\ c \in Acias /\ c.sr = f.sr /\ c.state = f.state
          /\ c.status = f.status /\ c.forRead = f.forRead /\ c.irq = f.irq /\ c.control = f.control
          /\ c.isDCD = f.isDCD /\ c.overflow = f.overflow
      BY <1>2, <1>4 DEF Acias, States
    <3>2. ReceiveBit(a, bit) = b
      BY <1>3, <2>6
    <3> HIDE DEF c
    <3>3. Current(c) /\ SameLines(f, c) /\ (Told(c) <=> Told(f))
      BY <1>2, <1>6, <3>1, CurrentStays
    <3>4. /\ d \in Acias /\ Current(d) /\ SameLines(c, d) /\ d.control = c.control /\ d.sr = <<>> /\ ~d.parityError /\ ~d.framingError
          /\ (Told(d) <=> Told(c) \/ "RDRF" \in c.status)
      BY <3>1, <3>3, TransferSrOn
    <3> HIDE DEF d
    <3>5. /\ b \in Acias /\ b.sr = d.sr
          /\ b.parityError = d.parityError /\ b.framingError = d.framingError /\ b.state = "need_start"
          /\ b.status = d.status /\ b.forRead = d.forRead /\ b.irq = d.irq /\ b.control = d.control
          /\ b.isDCD = d.isDCD /\ b.overflow = d.overflow
      BY <3>4 DEF Acias, States
    <3> HIDE DEF b
    <3>6. Current(b) /\ SameLines(d, b) /\ (Told(b) <=> Told(d))
      BY <3>4, <3>5, CurrentStays
    <3>7. Fits(b) /\ Loose(b)
      BY <3>4, <3>5, AciaAssumption DEF Fits, Loose, Empty
    <3> QED
      BY <2>6, <3>1, <3>2, <3>3, <3>4, <3>5, <3>6, <3>7 DEF Advances, Completes, SameLines, KeepsFit
  <2> QED
    BY <1>5, <2>2, <2>3, <2>4, <2>5, <2>6 DEF States
<1> QED
  BY <1>2, <1>6, <1>7, <1>8 DEF Advances, Completes, SameLines, KeepsFit

-----------------------------------------------------------------------------
(* The machine around the ACIA. *)

Failures == {"no", "tape is running", "tape is not running", "tape is running at reset"}
Machines ==
  [acia : Acias, device : Devices, rs423 : BOOLEAN, motor : BOOLEAN,
   carrier : 0..(Carrier + 1), tapeDCD : BOOLEAN, index : 1..(Len(Tapes) + 1), pos : Nat,
   running : BOOLEAN, timer : BOOLEAN, fast : BOOLEAN, failed : Failures]

Lines(s) ==
  /\ s.acia.isDCD <=> ~s.rs423 /\ s.tapeDCD
  /\ CTS(s.acia) <=> s.rs423 /\ "output" \notin s.device
Agrees(s) == s \in Machines /\ Current(s.acia) /\ Lines(s)
Turns(s) ==
  /\ s.running <=> s.motor
  /\ s.timer => s.running
  /\ s.running /\ ~s.timer => s.pos = Len(Buffers[s.index])
  /\ s.failed = "no"
  /\ s.pos <= Len(Buffers[s.index])

\* From a to b a bit may have been received, with a word complete; the lines may
\* have moved.
Heeds(a, b) ==
  /\ b \in Acias /\ Current(b)
  /\ KeepsFit(a, b)
  /\ Told(b) <=> Told(a) \/ (Completes(a, b) /\ Full(a))

\* What the tape, its place and the ULA's other half keep.
SameTape(s, t) ==
  /\ t.device = s.device /\ t.rs423 = s.rs423 /\ t.motor = s.motor
  /\ t.index = s.index /\ t.pos = s.pos
  /\ t.running = s.running /\ t.timer = s.timer /\ t.fast = s.fast /\ t.failed = s.failed

\* A chip that is left alone, but for its lines, heeds.
LEMMA QuietHeeds ==
  ASSUME NEW a, NEW b, Quiet(a, b)
  PROVE  Heeds(a, b)
BY DEF Quiet, Heeds, Fits, Loose, Empty, Completes, KeepsFit

\* A chip replaced, the rest of the machine kept.
LEMMA ChipOn ==
  ASSUME NEW s \in Machines, NEW a \in Acias
  PROVE  LET t == [s EXCEPT !.acia = a]
         IN  /\ t \in Machines /\ t.acia = a /\ SameTape(s, t)
             /\ t.carrier = s.carrier /\ t.tapeDCD = s.tapeDCD
BY DEF Machines, SameTape

\* serial_ula_update_lines gives the ACIA the lines of the selected device.
LEMMA UpdateLinesOn ==
  ASSUME NEW s \in Machines
  PROVE  LET t == UpdateLines(s)
         IN  /\ Agrees(t) /\ SameTape(s, t) /\ t.carrier = s.carrier /\ t.tapeDCD = s.tapeDCD
             /\ Quiet(s.acia, t.acia) /\ (Full(t.acia) <=> Full(s.acia))
<1> DEFINE isDCD == ~s.rs423 /\ s.tapeDCD
           isCTS == s.rs423 /\ "output" \notin s.device
           b == SetDCD(s.acia, isDCD)
           c == SetCTS(b, isCTS)
           t == [s EXCEPT !.acia = c]
<1>1. isDCD \in BOOLEAN /\ isCTS \in BOOLEAN /\ s.acia \in Acias
  BY DEF Machines
<1>2. UpdateLines(s) = t
  BY DEF UpdateLines, Machines
<1>3. (isDCD <=> ~s.rs423 /\ s.tapeDCD) /\ (isCTS <=> s.rs423 /\ "output" \notin s.device)
  OBVIOUS
<1> HIDE DEF isDCD, isCTS
<1>4. Quiet(s.acia, b) /\ b.isDCD = isDCD /\ (Full(b) <=> Full(s.acia))
  BY <1>1, SetDCDOn
<1> HIDE DEF b
<1>5. b \in Acias
  BY <1>4 DEF Quiet
<1>6. Quiet(b, c) /\ c.isDCD = b.isDCD /\ (CTS(c) <=> isCTS) /\ (Full(c) <=> Full(b))
  BY <1>1, <1>5, SetCTSOn
<1> HIDE DEF c
<1>7. c \in Acias
  BY <1>6 DEF Quiet
<1>8. t \in Machines /\ t.acia = c /\ SameTape(s, t) /\ t.carrier = s.carrier /\ t.tapeDCD = s.tapeDCD
  BY <1>7, ChipOn
<1> HIDE DEF t
<1>9. Lines(t)
  BY <1>3, <1>4, <1>6, <1>8 DEF Lines, SameTape
<1>10. Quiet(s.acia, c) /\ Current(c)
  BY <1>4, <1>6 DEF Quiet
<1> QED
  BY <1>2, <1>4, <1>6, <1>8, <1>9, <1>10 DEF Agrees

\* serial_ula_receive_tape_bit, in either state of the ULA.
LEMMA ReceiveTapeBitOn ==
  ASSUME NEW s \in Machines, Current(s.acia), NEW bit \in {0, 1, Silence}
  PROVE  LET t == ReceiveTapeBit(s, bit)
         IN  /\ Agrees(t) /\ SameTape(s, t) /\ Heeds(s.acia, t.acia)
             /\ bit = Silence => t.acia.state = s.acia.state
<1> DEFINE count == IF bit = 1 THEN s.carrier + 1 ELSE 0
           carrier == IF s.carrier > Carrier /\ bit = 1 THEN s.carrier ELSE count
           tapeDCD == count = Carrier
           c == [s EXCEPT !.carrier = carrier, !.tapeDCD = tapeDCD]
           g == UpdateLines(c)
           b == ReceiveBit(g.acia, bit)
           t == [g EXCEPT !.acia = b]
<1>1. carrier \in 0..(Carrier + 1) /\ tapeDCD \in BOOLEAN
  BY SerialAssumption DEF Machines
<1>2. ReceiveTapeBit(s, bit) = IF s.rs423 \/ bit = Silence THEN g ELSE t
  BY DEF ReceiveTapeBit, Machines
<1> HIDE DEF count, carrier, tapeDCD
<1>3. c \in Machines /\ c.acia = s.acia /\ SameTape(s, c)
  BY <1>1 DEF Machines, SameTape
<1> HIDE DEF c
<1>4. Agrees(g) /\ SameTape(c, g) /\ Quiet(c.acia, g.acia) /\ (Full(g.acia) <=> Full(c.acia))
  BY <1>3, UpdateLinesOn
<1> HIDE DEF g
<1>5. SameTape(s, g) /\ Heeds(s.acia, g.acia)
  BY <1>3, <1>4, QuietHeeds DEF SameTape
<1>6. CASE s.rs423 \/ bit = Silence
  BY <1>2, <1>3, <1>4, <1>5, <1>6 DEF Quiet
<1>7. CASE ~(s.rs423 \/ bit = Silence)
  <2>1. g \in Machines /\ g.acia \in Acias /\ Current(g.acia) /\ bit \in {0, 1}
    BY <1>4, <1>7 DEF Agrees, Quiet
  <2>2. Advances(g.acia, b)
    BY <2>1, ReceiveBitOn
  <2> HIDE DEF b
  <2>3. t \in Machines /\ t.acia = b /\ SameTape(g, t) /\ t.carrier = g.carrier /\ t.tapeDCD = g.tapeDCD
    BY <2>1, <2>2, ChipOn DEF Advances, KeepsFit
  <2> HIDE DEF t
  <2>4. Lines(t) /\ Current(t.acia)
    BY <1>4, <2>2, <2>3 DEF Lines, Agrees, SameTape, Advances, SameLines, KeepsFit
  <2>5. Heeds(s.acia, t.acia)
    BY <1>3, <1>4, <2>2, <2>3 DEF Heeds, Advances, Quiet, Completes, Full, Fits, Loose, Empty, KeepsFit
  <2>6. SameTape(s, t)
    BY <1>5, <2>3 DEF SameTape
  <2>7. ReceiveTapeBit(s, bit) = t
    BY <1>2, <1>7
  <2> QED
    BY <1>7, <2>3, <2>4, <2>5, <2>6, <2>7 DEF Agrees
<1> QED
  BY <1>6, <1>7

\* A machine that differs in the tape's place and motion, not in what its chip
\* and its lines depend on.
LEMMA MovedAgrees ==
  ASSUME NEW s, Agrees(s), NEW t \in Machines, t.acia = s.acia, t.rs423 = s.rs423,
         t.tapeDCD = s.tapeDCD, t.device = s.device
  PROVE  Agrees(t) /\ Heeds(s.acia, t.acia)
BY DEF Agrees, Lines, Heeds, Machines, Completes, KeepsFit

\* tape_play starts a tape that does not run, and its timer.
LEMMA TapePlayOn ==
  ASSUME NEW s, Agrees(s), ~s.running
  PROVE  LET t == TapePlay(s)
         IN  /\ Agrees(t) /\ t.acia = s.acia /\ t.running /\ t.timer
             /\ t.device = s.device /\ t.rs423 = s.rs423 /\ t.motor = s.motor
             /\ t.index = s.index /\ t.pos = s.pos /\ t.fast = s.fast /\ t.failed = s.failed
<1> DEFINE t == [s EXCEPT !.running = TRUE, !.timer = TRUE]
<1>1. TapePlay(s) = t
  BY DEF TapePlay
<1>2. /\ t \in Machines /\ t.acia = s.acia /\ t.running /\ t.timer /\ t.tapeDCD = s.tapeDCD
      /\ t.device = s.device /\ t.rs423 = s.rs423 /\ t.motor = s.motor
      /\ t.index = s.index /\ t.pos = s.pos /\ t.fast = s.fast /\ t.failed = s.failed
  BY DEF Agrees, Machines
<1> HIDE DEF t
<1> QED
  BY <1>1, <1>2, MovedAgrees

\* tape_stop stops a tape that runs, and its timer, and silence is heard.
LEMMA TapeStopOn ==
  ASSUME NEW s \in Machines, Current(s.acia), s.running
  PROVE  LET t == TapeStop(s)
         IN  /\ Agrees(t) /\ Heeds(s.acia, t.acia) /\ ~t.running /\ ~t.timer
             /\ t.acia.state = s.acia.state
             /\ t.device = s.device /\ t.rs423 = s.rs423 /\ t.motor = s.motor
             /\ t.index = s.index /\ t.pos = s.pos /\ t.fast = s.fast /\ t.failed = s.failed
<1> DEFINE c == [s EXCEPT !.running = FALSE, !.timer = FALSE]
<1>1. TapeStop(s) = ReceiveTapeBit(c, Silence)
  BY DEF TapeStop
<1>2. /\ c \in Machines /\ c.acia = s.acia /\ ~c.running /\ ~c.timer
      /\ c.device = s.device /\ c.rs423 = s.rs423 /\ c.motor = s.motor
      /\ c.index = s.index /\ c.pos = s.pos /\ c.fast = s.fast /\ c.failed = s.failed
  BY DEF Machines
<1> HIDE DEF c
<1>3. Agrees(ReceiveTapeBit(c, Silence)) /\ SameTape(c, ReceiveTapeBit(c, Silence))
      /\ Heeds(c.acia, ReceiveTapeBit(c, Silence).acia)
      /\ ReceiveTapeBit(c, Silence).acia.state = c.acia.state
  BY <1>2, ReceiveTapeBitOn
<1> QED
  BY <1>1, <1>2, <1>3 DEF SameTape

\* What tape_rewind makes of the tape's place and motion: a tape that had run
\* out runs again.
Rewound(s, t) ==
  /\ Agrees(t) /\ t.acia = s.acia
  /\ t.pos = 0 /\ t.index = s.index /\ t.motor = s.motor /\ t.failed = s.failed
  /\ t.running = s.running /\ (t.timer <=> s.running)

\* tape_rewind, of a tape whose timer is off unless it runs.
LEMMA TapeRewindOn ==
  ASSUME NEW s, Agrees(s), s.timer => s.running
  PROVE  Rewound(s, TapeRewind(s))
<1> DEFINE c == [s EXCEPT !.running = FALSE]
           p == IF s.running /\ ~s.timer THEN TapePlay(c) ELSE s
           t == [p EXCEPT !.pos = 0]
<1>1. TapeRewind(s) = t
  BY DEF TapeRewind
<1>2. /\ c \in Machines /\ c.acia = s.acia /\ ~c.running /\ c.tapeDCD = s.tapeDCD
      /\ c.device = s.device /\ c.rs423 = s.rs423 /\ c.motor = s.motor
      /\ c.index = s.index /\ c.failed = s.failed
  BY DEF Agrees, Machines
<1> HIDE DEF c
<1>3. Agrees(c)
  BY <1>2, MovedAgrees
<1>4. /\ Agrees(p) /\ p.acia = s.acia /\ p.index = s.index /\ p.motor = s.motor /\ p.failed = s.failed
      /\ p.running = s.running /\ (p.timer <=> s.running)
  <2>1. s.running \in BOOLEAN /\ TapePlay(c).running \in BOOLEAN
    BY <1>2, <1>3, TapePlayOn DEF Agrees, Machines
  <2>2. CASE s.running /\ ~s.timer
    BY <1>2, <1>3, <2>1, <2>2, TapePlayOn
  <2>3. CASE ~(s.running /\ ~s.timer)
    BY <2>3
  <2> QED
    BY <2>2, <2>3
<1> HIDE DEF p
<1>5. /\ t \in Machines /\ t.acia = p.acia /\ t.rs423 = p.rs423 /\ t.tapeDCD = p.tapeDCD /\ t.device = p.device
      /\ t.pos = 0 /\ t.index = p.index /\ t.motor = p.motor /\ t.failed = p.failed
      /\ t.running = p.running /\ t.timer = p.timer
  BY <1>4 DEF Agrees, Machines
<1> HIDE DEF t
<1>6. Agrees(t)
  BY <1>4, <1>5, MovedAgrees
<1> QED
  BY <1>1, <1>4, <1>5, <1>6 DEF Rewound

\* The tapes' lengths are numbers.
LEMMA TapesEnd ==
  ASSUME NEW s \in Machines
  PROVE  Len(Buffers[s.index]) \in Nat /\ Buffers[s.index] \in Seq({0, 1, Silence})
BY TapesAssumption DEF Machines

\* A rewound tape turns with its motor.
LEMMA RewoundTurns ==
  ASSUME NEW s, NEW t, Rewound(s, t), s.failed = "no", s.running <=> s.motor
  PROVE  Turns(t)
<1>1. t \in Machines
  BY DEF Rewound, Agrees
<1>2. Len(Buffers[t.index]) \in Nat
  BY <1>1, TapesEnd
<1> QED
  BY <1>2 DEF Rewound, Turns

-----------------------------------------------------------------------------
(* The tape's timer, the ULA's register, and the resets. *)

\* The whole of what holds of the machine before and after a step, and what the
\* step makes of the chip.
Sound(s) == Agrees(s) /\ Turns(s)

\* tape_timer_callback hears a bit, or finds the tape at its end and stops it.
LEMMA TapeTimerOn ==
  ASSUME NEW s, Sound(s), s.timer
  PROVE  Sound(TapeTimerCallback(s)) /\ Heeds(s.acia, TapeTimerCallback(s).acia)
<1> DEFINE buffer == Buffers[s.index]
           p == TapeStop(s)
           t == [p EXCEPT !.running = TRUE]
           r == ReceiveTapeBit(s, buffer[s.pos + 1])
           u == [r EXCEPT !.pos = @ + 1]
<1>1. TapeTimerCallback(s) = IF s.pos >= Len(buffer) THEN t ELSE u
  BY DEF TapeTimerCallback
<1>2. /\ s \in Machines /\ Current(s.acia) /\ s.running /\ s.motor /\ s.failed = "no"
      /\ s.pos \in Nat /\ s.pos <= Len(buffer)
  BY DEF Sound, Agrees, Turns, Machines
<1>3. Len(buffer) \in Nat /\ buffer \in Seq({0, 1, Silence})
  BY <1>2, TapesEnd
<1>4. CASE s.pos >= Len(buffer)
  <2>1. s.pos = Len(buffer)
    BY <1>2, <1>3, <1>4
  <2>2. /\ Agrees(p) /\ Heeds(s.acia, p.acia) /\ ~p.timer /\ p.motor = s.motor
        /\ p.index = s.index /\ p.pos = s.pos /\ p.failed = s.failed
    BY <1>2, TapeStopOn
  <2> HIDE DEF p
  <2>3. /\ t \in Machines /\ t.acia = p.acia /\ t.rs423 = p.rs423 /\ t.tapeDCD = p.tapeDCD /\ t.device = p.device
        /\ t.running /\ ~t.timer /\ t.motor = p.motor /\ t.index = p.index /\ t.pos = p.pos /\ t.failed = p.failed
    BY <2>2 DEF Agrees, Machines
  <2> HIDE DEF t
  <2>4. Agrees(t)
    BY <2>2, <2>3, MovedAgrees
  <2>5. Turns(t)
    BY <1>2, <1>3, <2>1, <2>2, <2>3 DEF Turns
  <2> QED
    BY <1>1, <1>4, <2>2, <2>3, <2>4, <2>5 DEF Sound
<1>5. CASE ~(s.pos >= Len(buffer))
  <2>1. s.pos + 1 \in 1..Len(buffer)
    BY <1>2, <1>3, <1>5
  <2>2. buffer[s.pos + 1] \in {0, 1, Silence}
    BY <1>3, <2>1
  <2>3. Agrees(r) /\ SameTape(s, r) /\ Heeds(s.acia, r.acia)
    BY <1>2, <2>2, ReceiveTapeBitOn
  <2> HIDE DEF r
  <2>4. /\ u \in Machines /\ u.acia = r.acia /\ u.rs423 = r.rs423 /\ u.tapeDCD = r.tapeDCD /\ u.device = r.device
        /\ u.running = r.running /\ u.timer = r.timer /\ u.motor = r.motor /\ u.index = r.index
        /\ u.pos = r.pos + 1 /\ u.failed = r.failed
    BY <2>3 DEF Agrees, Machines
  <2> HIDE DEF u
  <2>5. Agrees(u)
    BY <2>3, <2>4, MovedAgrees
  <2>6. Turns(u)
    BY <1>2, <1>3, <2>1, <2>3, <2>4 DEF Turns, SameTape
  <2> QED
    BY <1>1, <1>5, <2>3, <2>4, <2>5, <2>6 DEF Sound
<1> QED
  BY <1>4, <1>5

\* serial_ula_write: the motor starts or stops the tape while the old device is
\* still selected, then the lines are those of the new one.
LEMMA UlaWriteOn ==
  ASSUME NEW s, Sound(s), NEW rs423 \in BOOLEAN, NEW motor \in BOOLEAN
  PROVE  /\ Sound(UlaWrite(s, rs423, motor)) /\ Heeds(s.acia, UlaWrite(s, rs423, motor).acia)
         /\ UlaWrite(s, rs423, motor).acia.state = s.acia.state
<1> DEFINE p == TapePlay(s)
           played == [p EXCEPT !.fast = @ \/ FastTape]
           q == TapeStop(s)
           stopped == [q EXCEPT !.fast = @ /\ ~FastTape]
           turned == CASE motor /\ ~s.motor -> played
                       [] ~motor /\ s.motor -> stopped
                       [] motor = s.motor -> s
           c == [turned EXCEPT !.motor = motor, !.rs423 = rs423]
           t == UpdateLines(c)
<1>1. UlaWrite(s, rs423, motor) = t
  BY DEF UlaWrite
<1>2. s \in Machines /\ Current(s.acia) /\ s.failed = "no" /\ s.motor \in BOOLEAN /\ s.running = s.motor
  BY DEF Sound, Agrees, Turns, Machines
<1>3. Heeds(s.acia, s.acia)
  BY <1>2 DEF Heeds, Machines, Completes, KeepsFit
<1>4. /\ turned \in Machines /\ Heeds(s.acia, turned.acia) /\ turned.failed = "no"
      /\ turned.acia.state = s.acia.state
      /\ turned.running = motor /\ (turned.timer => motor)
      /\ (turned.running /\ ~turned.timer => turned.pos = Len(Buffers[turned.index]))
      /\ turned.pos <= Len(Buffers[turned.index])
  <2>1. CASE motor /\ ~s.motor
    <3>1. /\ Agrees(p) /\ p.acia = s.acia /\ p.running /\ p.timer
          /\ p.index = s.index /\ p.pos = s.pos /\ p.failed = s.failed
      BY <1>2, <2>1, TapePlayOn DEF Sound
    <3> HIDE DEF p
    <3>2. /\ played \in Machines /\ played.acia = p.acia /\ played.running = p.running /\ played.timer = p.timer
          /\ played.index = p.index /\ played.pos = p.pos /\ played.failed = p.failed
      BY <3>1 DEF Agrees, Machines
    <3>3. turned = played
      BY <2>1
    <3>4. p.running = TRUE
      BY <3>1 DEF Agrees, Machines
    <3> HIDE DEF played, turned
    <3> QED
      BY <1>2, <1>3, <2>1, <3>1, <3>2, <3>3, <3>4 DEF Sound, Turns
  <2>2. CASE ~motor /\ s.motor
    <3>1. /\ Agrees(q) /\ Heeds(s.acia, q.acia) /\ ~q.running /\ ~q.timer
          /\ q.acia.state = s.acia.state
          /\ q.index = s.index /\ q.pos = s.pos /\ q.failed = s.failed
      BY <1>2, <2>2, TapeStopOn DEF Sound
    <3> HIDE DEF q
    <3>2. /\ stopped \in Machines /\ stopped.acia = q.acia /\ stopped.running = q.running /\ stopped.timer = q.timer
          /\ stopped.index = q.index /\ stopped.pos = q.pos /\ stopped.failed = q.failed
      BY <3>1 DEF Agrees, Machines
    <3>3. turned = stopped
      BY <2>2
    <3>4. q.running = FALSE
      BY <3>1 DEF Agrees, Machines
    <3> HIDE DEF stopped, turned
    <3> QED
      BY <1>2, <2>2, <3>1, <3>2, <3>3, <3>4 DEF Sound, Turns
  <2>3. CASE motor = s.motor
    <3>1. turned = s
      BY <2>3
    <3> HIDE DEF turned
    <3> QED
      BY <1>2, <1>3, <2>3, <3>1 DEF Sound, Turns
  <2> QED
    BY <1>2, <2>1, <2>2, <2>3
<1> HIDE DEF turned
<1>5. /\ c \in Machines /\ c.acia = turned.acia /\ c.motor = motor /\ c.failed = turned.failed
      /\ c.running = turned.running /\ c.timer = turned.timer /\ c.pos = turned.pos /\ c.index = turned.index
  BY <1>4 DEF Machines
<1> HIDE DEF c
<1>6. Agrees(t) /\ SameTape(c, t) /\ Quiet(c.acia, t.acia) /\ (Full(t.acia) <=> Full(c.acia))
  BY <1>5, UpdateLinesOn
<1> HIDE DEF t
<1>7. Turns(t)
  BY <1>4, <1>5, <1>6 DEF Turns, SameTape
<1>8. Heeds(s.acia, t.acia) /\ t.acia.state = s.acia.state
  BY <1>4, <1>5, <1>6 DEF Heeds, Quiet, Completes, Fits, Loose, Empty, KeepsFit
<1> QED
  BY <1>1, <1>6, <1>7, <1>8 DEF Sound

\* bbc_power_on_reset of the serial side: nothing was lost any more, the tape is
\* stopped at its start.
LEMMA PowerOnResetOn ==
  ASSUME NEW s, Sound(s)
  PROVE  LET t == TapePowerOn(UlaPowerOn([s EXCEPT !.acia = PowerOn(@)]))
         IN  Sound(t) /\ Fits(t.acia) /\ ~Told(t.acia)
<1> DEFINE a == PowerOn(s.acia)
           c == [s EXCEPT !.acia = a]
           p == IF c.motor THEN TapeStop(c) ELSE c
           d == [p EXCEPT !.carrier = 0, !.tapeDCD = FALSE, !.motor = FALSE, !.rs423 = FALSE]
           u == UpdateLines(d)
           t == TapeRewind(u)
<1>1. s \in Machines /\ s.acia \in Acias /\ (s.running <=> s.motor) /\ (s.timer => s.running) /\ s.failed = "no"
  BY DEF Sound, Agrees, Turns, Machines
<1>2. a \in Acias /\ Current(a) /\ ~Told(a) /\ a.state = "need_start" /\ a.sr = <<>> /\ ~a.parityError /\ ~a.framingError
  BY <1>1, PowerOnOn
<1>3. [s EXCEPT !.acia = PowerOn(@)] = c /\ UlaPowerOn(c) = u
  BY <1>1 DEF Machines, UlaPowerOn
<1> HIDE DEF a
<1>4. c \in Machines /\ c.acia = a /\ SameTape(s, c)
  BY <1>1, <1>2, ChipOn
<1> HIDE DEF c
<1>5. Heeds(a, a)
  BY <1>2 DEF Heeds, Completes, KeepsFit
<1>6. p \in Machines /\ Heeds(a, p.acia) /\ ~p.running /\ ~p.timer /\ p.failed = "no"
  <2>1. CASE c.motor
    <3>1. c.running /\ Current(c.acia)
      BY <1>1, <1>2, <1>4, <2>1 DEF SameTape
    <3>2. Agrees(TapeStop(c)) /\ Heeds(c.acia, TapeStop(c).acia) /\ ~TapeStop(c).running /\ ~TapeStop(c).timer
          /\ TapeStop(c).failed = c.failed
      BY <1>4, <3>1, TapeStopOn
    <3> QED
      BY <1>1, <1>4, <2>1, <3>2 DEF Agrees, SameTape
  <2>2. CASE ~c.motor
    BY <1>1, <1>4, <1>5, <2>2 DEF SameTape
  <2> QED
    BY <2>1, <2>2
<1> HIDE DEF p
<1>7. d \in Machines /\ d.acia = p.acia /\ ~d.motor /\ d.running = p.running /\ d.timer = p.timer /\ d.failed = p.failed
  <2>1. 0 \in 0..(Carrier + 1)
    BY SerialAssumption
  <2> QED
    BY <1>6, <2>1 DEF Machines
<1> HIDE DEF d
<1>8. Agrees(u) /\ SameTape(d, u) /\ Quiet(d.acia, u.acia)
  BY <1>7, UpdateLinesOn
<1> HIDE DEF u
<1>9. ~u.running /\ ~u.timer /\ ~u.motor /\ u.failed = "no"
  BY <1>6, <1>7, <1>8 DEF SameTape
<1>10. Rewound(u, t) /\ Turns(t)
  BY <1>8, <1>9, TapeRewindOn, RewoundTurns
<1>11. TapePowerOn(u) = t
  BY <1>9 DEF TapePowerOn
<1> HIDE DEF t
<1>12. Fits(a)
  BY <1>2, AciaAssumption DEF Fits, Loose, Empty
<1>13. ~Completes(a, p.acia)
  BY <1>2 DEF Completes
<1>14. Fits(p.acia) /\ ~Told(p.acia)
  BY <1>2, <1>6, <1>12, <1>13 DEF Heeds, KeepsFit
<1>15. t.acia = u.acia
  BY <1>10 DEF Rewound
<1>16. Fits(t.acia) /\ ~Told(t.acia)
  BY <1>7, <1>8, <1>14, <1>15 DEF Quiet, Fits, Loose, Empty
<1> QED
  BY <1>3, <1>10, <1>11, <1>16 DEF Sound, Rewound

\* tape_cycle_tape rewinds the next tape.
LEMMA CycleTapeOn ==
  ASSUME NEW s, Sound(s)
  PROVE  LET t == TapeRewind([s EXCEPT !.index = IF @ = Len(Tapes) + 1 THEN 1 ELSE @ + 1])
         IN  Sound(t) /\ t.acia = s.acia
<1> DEFINE index == IF s.index = Len(Tapes) + 1 THEN 1 ELSE s.index + 1
           c == [s EXCEPT !.index = index]
<1>1. s \in Machines /\ (s.running <=> s.motor) /\ (s.timer => s.running) /\ s.failed = "no"
  BY DEF Sound, Agrees, Turns
<1>2. index \in 1..(Len(Tapes) + 1)
  BY <1>1, TapesAssumption DEF Machines
<1>3. [s EXCEPT !.index = IF @ = Len(Tapes) + 1 THEN 1 ELSE @ + 1] = c
  BY <1>1 DEF Machines
<1> HIDE DEF index
<1>4. /\ c \in Machines /\ c.acia = s.acia /\ c.rs423 = s.rs423 /\ c.tapeDCD = s.tapeDCD /\ c.device = s.device
      /\ c.running = s.running /\ c.timer = s.timer /\ c.motor = s.motor /\ c.failed = s.failed
  BY <1>1, <1>2 DEF Machines
<1> HIDE DEF c
<1>5. Agrees(c)
  BY <1>4, MovedAgrees DEF Sound
<1>6. Rewound(c, TapeRewind(c)) /\ Turns(TapeRewind(c))
  BY <1>1, <1>4, <1>5, TapeRewindOn, RewoundTurns
<1> QED
  BY <1>3, <1>4, <1>6 DEF Sound, Rewound

-----------------------------------------------------------------------------
(* The steps. *)

\* The inductive invariant: the machine's parts agree, and a loss is told.
Safe == Sound(serial) /\ lost \in BOOLEAN /\ (lost <=> Told(serial.acia))

\* The receiver is within its word; or past it, once the length has changed.
Received ==
  /\ changed \in BOOLEAN
  /\ ~changed => Fits(serial.acia)
  /\ changed => Loose(serial.acia) /\ serial.acia.state # "need_start"

\* Back to waiting for a word, the receiver is empty.
LEMMA StartsEmpty ==
  ASSUME NEW a, Loose(a), a.state = "need_start"
  PROVE  Fits(a)
<1>1. Len(a.sr) = 0
  BY DEF Loose, Empty
<1> QED
  BY <1>1, AciaAssumption DEF Fits, Loose, Empty

\* The receiver goes on in its way and its word may end, or nothing moves it.
LEMMA GoesOn ==
  ASSUME Received, KeepsFit(serial.acia, serial'.acia),
         \/ changed' = (changed /\ serial'.acia.state # "need_start")
         \/ changed' = changed /\ serial'.acia.state = serial.acia.state
  PROVE  Received'
<1>1. CASE ~changed
  BY <1>1 DEF Received, KeepsFit
<1>2. CASE changed /\ serial'.acia.state # "need_start"
  BY <1>2 DEF Received, KeepsFit
<1>3. CASE changed /\ serial'.acia.state = "need_start"
  <2>1. Loose(serial'.acia) /\ changed' = FALSE
    BY <1>3 DEF Received, KeepsFit
  <2>2. Fits(serial'.acia)
    BY <1>3, <2>1, StartsEmpty
  <2> QED
    BY <2>1, <2>2 DEF Received
<1> QED
  BY <1>1, <1>2, <1>3 DEF Received

\* The chip alone acts: its lines, if it keeps them, stay those of the device.
LEMMA ChipActs ==
  ASSUME NEW s, Sound(s), NEW a \in Acias, Current(a), SameLines(s.acia, a)
  PROVE  Sound([s EXCEPT !.acia = a]) /\ [s EXCEPT !.acia = a].acia = a
<1> DEFINE t == [s EXCEPT !.acia = a]
<1>1. s \in Machines
  BY DEF Sound, Agrees
<1>2. t \in Machines /\ t.acia = a /\ SameTape(s, t) /\ t.carrier = s.carrier /\ t.tapeDCD = s.tapeDCD
  BY <1>1, ChipOn
<1> HIDE DEF t
<1>3. Lines(t)
  BY <1>2 DEF Sound, Agrees, Lines, SameTape, SameLines
<1>4. Turns(t)
  BY <1>2 DEF Sound, Turns, SameTape
<1> QED
  BY <1>2, <1>3, <1>4 DEF t, Sound, Agrees

\* The machine is sound when it is created and powered on.
LEMMA Begins ==
  ASSUME Init
  PROVE  Safe /\ Received
<1>1. Created \in Acias
  BY AciaAssumption DEF Acias, Created, States, Flags
<1> DEFINE a == PowerOn(Created)
<1>2. a \in Acias /\ Current(a) /\ ~a.isDCD /\ ~CTS(a) /\ ~Told(a) /\ a.state = "need_start" /\ a.sr = <<>> /\ ~a.parityError /\ ~a.framingError
  BY <1>1, PowerOnOn
<1>3. PICK device \in Devices : serial =
       [acia |-> a, device |-> device, rs423 |-> FALSE, motor |-> FALSE,
        carrier |-> 0, tapeDCD |-> FALSE, index |-> 1, pos |-> 0,
        running |-> FALSE, timer |-> FALSE, fast |-> FALSE, failed |-> "no"]
  BY DEF Init
<1> HIDE DEF a
<1>4. serial \in Machines
  BY <1>2, <1>3, SerialAssumption, TapesAssumption DEF Machines, Failures
<1>5. Len(Buffers[serial.index]) \in Nat
  BY <1>4, TapesEnd
<1>6. serial.pos <= Len(Buffers[serial.index])
  BY <1>3, <1>5
<1>7. Sound(serial)
  BY <1>2, <1>3, <1>4, <1>6 DEF Sound, Agrees, Turns, Lines
<1>8. serial.acia = a /\ lost = FALSE /\ changed = FALSE
  BY <1>3 DEF Init
<1>9. Fits(a)
  BY <1>2, AciaAssumption DEF Fits, Loose, Empty
<1> QED
  BY <1>2, <1>7, <1>8, <1>9 DEF Safe, Received

\* Every step keeps the invariant, and the receiver within its word unless the 6502
\* changes the length in the middle of it.
LEMMA Steps ==
  ASSUME Safe, Received, [Next]_vars
  PROVE  Safe' /\ Received'
<1>1. /\ Sound(serial) /\ serial \in Machines /\ serial.acia \in Acias /\ Current(serial.acia)
      /\ lost \in BOOLEAN /\ (lost <=> Told(serial.acia))
  BY DEF Safe, Sound, Agrees, Machines
<1>2. CASE SetControl
  <2>1. PICK control \in Controls :
          /\ serial' = [serial EXCEPT !.acia = WriteControl(serial.acia, control)]
          /\ lost' = lost
          /\ changed' = \/ changed
                         \/ /\ serial.acia.state = "need_data"
                            /\ control.long # serial.acia.control.long
    BY <1>2 DEF SetControl
  <2> DEFINE b == WriteControl(serial.acia, control)
  <2>2. /\ b \in Acias /\ Current(b) /\ SameLines(serial.acia, b) /\ (Told(b) <=> Told(serial.acia))
        /\ b.control = control /\ b.state = serial.acia.state /\ b.sr = serial.acia.sr
        /\ b.parityError = serial.acia.parityError /\ b.framingError = serial.acia.framingError
    BY <1>1, WriteControlOn
  <2>3. serial' = [serial EXCEPT !.acia = b]
    BY <2>1
  <2> HIDE DEF b
  <2>4. Sound(serial)' /\ serial'.acia = b
    BY <1>1, <2>2, <2>3, ChipActs
  <2>5. Received'
    <3>1. KeepsFit(serial.acia, b) \/ (serial.acia.state = "need_data" /\ control.long # serial.acia.control.long)
      BY <2>2 DEF Fits, Loose, Empty, WordBits, KeepsFit
    <3>2. (Fits(serial.acia) => Loose(b)) /\ (Loose(serial.acia) => Loose(b))
      BY <2>2, AciaAssumption DEF Fits, Loose, Empty, Acias
    <3> QED
      BY <2>1, <2>2, <2>4, <3>1, <3>2 DEF Received, KeepsFit
  <2> QED
    BY <1>1, <2>1, <2>2, <2>4, <2>5 DEF Safe
<1>3. CASE MasterReset
  <2> DEFINE b == Reset(serial.acia)
  <2>1. /\ b \in Acias /\ Current(b) /\ SameLines(serial.acia, b) /\ ~Told(b)
        /\ b.state = "need_start" /\ b.sr = <<>> /\ ~b.parityError /\ ~b.framingError
    BY <1>1, ResetOn
  <2>2. serial' = [serial EXCEPT !.acia = b] /\ lost' = FALSE /\ changed' = FALSE
    BY <1>3 DEF MasterReset
  <2> HIDE DEF b
  <2>3. Sound(serial)' /\ serial'.acia = b
    BY <1>1, <2>1, <2>2, ChipActs
  <2>4. Fits(b)
    BY <2>1, AciaAssumption DEF Fits, Loose, Empty
  <2> QED
    BY <2>1, <2>2, <2>3, <2>4 DEF Safe, Received
<1>4. CASE SendData
  <2> DEFINE atOnce == ~serial.rs423
             b == UpdateIrq(IF atOnce THEN Transmit(WriteData(serial.acia)) ELSE WriteData(serial.acia))
  <2>1. Quiet(serial.acia, b) /\ SameLines(serial.acia, b)
    BY <1>1, SendOn
  <2>2. serial' = [serial EXCEPT !.acia = b] /\ lost' = lost /\ changed' = changed
    BY <1>4 DEF SendData
  <2> HIDE DEF b
  <2>3. Sound(serial)' /\ serial'.acia = b
    BY <1>1, <2>1, <2>2, ChipActs DEF Quiet
  <2>4. KeepsFit(serial.acia, serial'.acia) /\ serial'.acia.state = serial.acia.state
    BY <2>1, <2>3, QuietHeeds DEF Quiet, Heeds, KeepsFit
  <2> QED
    BY <1>1, <2>1, <2>2, <2>3, <2>4, GoesOn DEF Safe, Quiet
<1>5. CASE GetData
  <2> DEFINE b == ReadData(serial.acia)
  <2>1. /\ b \in Acias /\ Current(b) /\ SameLines(serial.acia, b)
        /\ b.control = serial.acia.control /\ b.state = serial.acia.state /\ b.sr = serial.acia.sr
        /\ b.parityError = serial.acia.parityError /\ b.framingError = serial.acia.framingError
        /\ (Told(b) <=> serial.acia.overflow)
    BY <1>1, ReadDataOn
  <2>2. /\ serial' = [serial EXCEPT !.acia = b]
        /\ changed' = changed
        /\ lost' = (lost /\ ("OVRN" \notin serial.acia.status \/ serial.acia.overflow))
    BY <1>1, <1>5 DEF GetData, Machines
  <2> HIDE DEF b
  <2>3. Sound(serial)' /\ serial'.acia = b
    BY <1>1, <2>1, <2>2, ChipActs
  <2>4. lost' \in BOOLEAN /\ (lost' <=> Told(b))
    BY <1>1, <2>1, <2>2 DEF Told
  <2>5. KeepsFit(serial.acia, serial'.acia) /\ serial'.acia.state = serial.acia.state
    BY <2>1, <2>3 DEF Fits, Loose, Empty, KeepsFit
  <2> QED
    BY <2>1, <2>2, <2>3, <2>4, <2>5, GoesOn DEF Safe
<1>6. ASSUME NEW rs423 \in BOOLEAN, NEW motor \in BOOLEAN, WriteUla(rs423, motor)
      PROVE  Safe' /\ Received'
  <2> DEFINE t == UlaWrite(serial, rs423, motor)
  <2>1. Sound(t) /\ Heeds(serial.acia, t.acia) /\ t.acia.state = serial.acia.state
    BY <1>1, UlaWriteOn
  <2>2. serial' = t /\ lost' = lost /\ changed' = changed
    BY <1>6 DEF WriteUla
  <2> HIDE DEF t
  <2> QED
    BY <1>1, <2>1, <2>2, GoesOn DEF Safe, Heeds, Completes, KeepsFit
<1>7. CASE TapeBit
  <2> DEFINE t == TapeTimerCallback(serial)
  <2>1. Sound(t) /\ Heeds(serial.acia, t.acia)
    BY <1>1, <1>7, TapeTimerOn DEF TapeBit
  <2>2. /\ serial' = t
        /\ lost' = (lost \/ ((serial.acia.state = "need_stop" /\ t.acia.state = "need_start")
                             /\ "RDRF" \in serial.acia.status))
        /\ changed' = (changed /\ t.acia.state # "need_start")
    BY <1>7 DEF TapeBit, StaysChanged
  <2> HIDE DEF t
  <2> QED
    BY <1>1, <2>1, <2>2, GoesOn DEF Safe, Heeds, Completes, Full, KeepsFit
<1>8. CASE Tick
  <2>1. PICK a \in {serial.acia, Receive(serial.acia)} :
          /\ \E b \in {a, Transmit(a)} : serial' = [serial EXCEPT !.acia = b]
          /\ lost' = lost /\ changed' = changed
    BY <1>8 DEF Tick
  <2>2. Quiet(serial.acia, a) /\ SameLines(serial.acia, a)
    <3>1. Quiet(serial.acia, serial.acia) /\ SameLines(serial.acia, serial.acia)
      BY <1>1 DEF Quiet, SameLines
    <3> QED
      BY <1>1, <2>1, <3>1, ReceiveOn
  <2>3. PICK b \in {a, Transmit(a)} : serial' = [serial EXCEPT !.acia = b]
    BY <2>1
  <2>4. a \in Acias /\ Current(a)
    BY <2>2 DEF Quiet
  <2>5. Quiet(a, b) /\ SameLines(a, b)
    BY <2>3, <2>4, TransmitOn DEF Quiet, SameLines
  <2>6. Quiet(serial.acia, b) /\ SameLines(serial.acia, b)
    BY <2>2, <2>5 DEF Quiet, SameLines
  <2>7. Sound(serial)' /\ serial'.acia = b
    BY <1>1, <2>3, <2>6, ChipActs DEF Quiet
  <2>8. KeepsFit(serial.acia, serial'.acia) /\ serial'.acia.state = serial.acia.state
    BY <2>6, <2>7, QuietHeeds DEF Quiet, Heeds, KeepsFit
  <2> QED
    BY <1>1, <2>1, <2>6, <2>7, <2>8, GoesOn DEF Safe, Quiet
<1>9. CASE CycleTape
  <2> DEFINE t == TapeRewind([serial EXCEPT !.index = IF @ = Len(Tapes) + 1 THEN 1 ELSE @ + 1])
  <2>1. Sound(t) /\ t.acia = serial.acia
    BY <1>1, CycleTapeOn
  <2>2. serial' = t /\ lost' = lost /\ changed' = changed
    BY <1>9 DEF CycleTape
  <2> HIDE DEF t
  <2> QED
    BY <1>1, <2>1, <2>2, GoesOn DEF Safe, KeepsFit
<1>10. CASE PowerOnReset
  <2> DEFINE t == TapePowerOn(UlaPowerOn([serial EXCEPT !.acia = PowerOn(@)]))
  <2>1. Sound(t) /\ Fits(t.acia) /\ ~Told(t.acia)
    BY <1>1, PowerOnResetOn
  <2>2. serial' = t /\ lost' = FALSE /\ changed' = FALSE
    BY <1>10 DEF PowerOnReset
  <2> HIDE DEF t
  <2> QED
    BY <2>1, <2>2 DEF Safe, Received
<1>11. CASE UNCHANGED vars
  BY <1>1, <1>11 DEF vars, Safe, Received
<1> QED
  BY <1>2, <1>3, <1>4, <1>5, <1>6, <1>7, <1>8, <1>9, <1>10, <1>11 DEF Next, SetUla, ReadUla

-----------------------------------------------------------------------------
(* The theorems. *)

\* The invariant says of the machine what the properties of Serial say.
LEMMA SafeSays ==
  ASSUME Safe
  PROVE  IrqIsCurrent /\ LinesFollow /\ TapeTurnsWithMotor /\ OverrunIsReported
BY DEF Safe, Sound, Agrees, Current, Lines, Turns, CTS, Told,
       IrqIsCurrent, LinesFollow, TapeTurnsWithMotor, OverrunIsReported

\* However the 6502's accesses, the tape's bits, the ticks of the RS423 device,
\* tape changes and resets come, even with the format changed in the middle of a
\* word: the interrupt is that of the chip's state, the chip sees the lines of the
\* selected device, the tape turns with its motor, the receiver is empty between
\* words and shifts no further than a word unless its length was changed, and a
\* word that was lost is on its way to being reported (mc6850.c, serial_ula.c and
\* tape.c).
THEOREM SerialIsCoherent == Spec => [](Coherent /\ OverrunIsReported)
<1>1. Init => Safe /\ Received
  BY Begins
<1>2. Safe /\ Received /\ [Next]_vars => Safe' /\ Received'
  BY Steps
<1>3. ASSUME Safe, Received PROVE Coherent /\ OverrunIsReported
  <2>1. serial \in Machines /\ serial.acia \in Acias /\ Turns(serial)
    BY <1>3 DEF Safe, Sound, Agrees, Machines
  <2>2. Len(Buffers[serial.index]) \in Nat
    BY <2>1, TapesEnd
  <2>3. Len(serial.acia.sr) <= LongWord + 1
    BY <1>3, AciaAssumption, <2>1 DEF Received, Fits, Loose, Empty, Acias
  <2>4. TypeOK
    BY <2>1, <2>2, <2>3 DEF Machines, Acias, Flags, States, Turns, TypeOK
  <2>5. WordEnds
    BY <1>3, <2>1, AciaAssumption DEF WordEnds, Received, Fits, Loose, Empty, Acias
  <2> QED
    BY <1>3, <2>4, <2>5, SafeSays DEF Coherent
<1> QED
  BY <1>1, <1>2, <1>3, PTL DEF Spec
=============================================================================
