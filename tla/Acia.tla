-------------------------------- MODULE Acia --------------------------------
(***************************************************************************)
(* The MC6850 serial chip, src/mc6850.c: as in the code, each function      *)
(* takes the chip's struct and returns it changed.  The shift register is   *)
(* the sequence of the bits it holds, so that its count is its length and   *)
(* the parity accumulator follows from it.  The values of the transmit and   *)
(* receive registers are left out: a word is looked at as it is received.   *)
(***************************************************************************)
EXTENDS Integers, Sequences, FiniteSets

CONSTANTS
  LongWord,     \* bits of a long word (8)
  ShortWord,    \* bits of a short one (7), which always has a parity bit
  ClockDivide   \* tape bits per bit received with the clock divided by 64 (4)

ASSUME AciaAssumption ==
  /\ ShortWord \in Nat \ {0} /\ LongWord \in Nat /\ ShortWord < LongWord
  /\ ClockDivide \in Nat \ {0}

\* A control register: word length, parity, clock divider, what the transmitter
\* does with RTS and its interrupt, and the receive interrupt.
ControlWord(long, parity, odd, div64, tcb, rie) ==
  [long |-> long, parity |-> parity, odd |-> odd, div64 |-> div64,
   tcb |-> tcb, rie |-> rie]

ZeroControl == ControlWord(FALSE, FALSE, FALSE, FALSE, "rts", FALSE)

HasParity(control) == control.parity \/ ~control.long
WordBits(control) == IF control.long THEN LongWord ELSE ShortWord
Sum(bits) == Cardinality({i \in 1..Len(bits) : bits[i] = 1})

\* Of the status register: TDRE, RDRF, DCD, CTS, FE, OVRN, PE and IRQ.
Fires(a) ==
  \/ a.control.tcb = "rts_and_tie" /\ "TDRE" \in a.status /\ "CTS" \notin a.status
  \/ a.control.rie /\ a.status \cap {"RDRF", "DCD", "OVRN"} # {}

\* What the 6502 reads of the status: TDRE is inhibited by CTS, DCD follows the
\* line where it is not latched.
ForRead(status, isDCD) ==
  (status \ (IF "CTS" \in status THEN {"TDRE"} ELSE {}))
    \cup (IF isDCD THEN {"DCD"} ELSE {})

UpdateIrq(a) ==
  LET status == (a.status \ {"IRQ"}) \cup (IF Fires(a) THEN {"IRQ"} ELSE {})
  IN  [a EXCEPT !.status = status, !.irq = Fires(a), !.forRead = ForRead(status, a.isDCD)]

SetDCD(a, isDCD) ==
  UpdateIrq([a EXCEPT !.status = IF isDCD /\ ~a.isDCD THEN @ \cup {"DCD"} ELSE @,
                      !.isDCD = isDCD])

SetCTS(a, isCTS) ==
  UpdateIrq([a EXCEPT !.status = (@ \ {"CTS"}) \cup (IF isCTS THEN {"CTS"} ELSE {})])

GetRTS(a) == a.control.tcb # "no_rts" /\ "RDRF" \notin a.status

IsTransmitReady(a) == "TDRE" \notin a.status

\* A byte that comes while the last one has not been read is not received.
Receive(a) ==
  IF "RDRF" \in a.status THEN a
  ELSE UpdateIrq([a EXCEPT !.status = (@ \cup {"RDRF"}) \ {"FE", "PE"}])

ClearReceiveState(a) ==
  [a EXCEPT !.sr = <<>>, !.divider = 0, !.parityError = FALSE, !.framingError = FALSE]

TransferSr(a) ==
  LET flags == (IF a.parityError THEN {"PE"} ELSE {}) \cup (IF a.framingError THEN {"FE"} ELSE {})
      g == Receive(a)
  IN  UpdateIrq(ClearReceiveState(
        IF "RDRF" \in a.status THEN [a EXCEPT !.overflow = TRUE]
        ELSE [g EXCEPT !.status = @ \cup flags]))

\* The bits and one more.  The count is compared for equality, so that a count past
\* a long word says no more than that the word is not going to end; nor do its bits.
Shifted(sr, bit) ==
  IF Len(sr) < LongWord THEN Append(sr, bit) ELSE [i \in 1..(LongWord + 1) |-> 0]

\* Mutant: the comparison of the bit count is one too late.
ShiftInOneMore(a, bit) ==
  LET sr == Shifted(a.sr, bit)
  IN  [a EXCEPT !.sr = sr,
                !.state = IF Len(sr) <= WordBits(a.control) THEN @
                          ELSE IF HasParity(a.control) THEN "need_parity" ELSE "need_stop"]

ShiftIn(a, bit) ==
  LET sr == Shifted(a.sr, bit)
  IN  [a EXCEPT !.sr = sr,
                !.state = IF Len(sr) # WordBits(a.control) THEN @
                          ELSE IF HasParity(a.control) THEN "need_parity" ELSE "need_stop"]

\* With the clock divided by 64 only one in ClockDivide bits is looked at.
ReceiveBit(a, bit) ==
  LET f == [a EXCEPT !.divider = (@ + 1) % ClockDivide]
      isOdd == (Sum(f.sr) + bit) % 2 = 1
      isRead == f.control.div64 => f.divider = 0
  IN  CASE ~isRead -> f
        [] isRead /\ f.state = "need_start" ->
             IF bit = 0 THEN [f EXCEPT !.state = "need_data"] ELSE f
        [] isRead /\ f.state = "need_data" -> ShiftIn(f, bit)
        [] isRead /\ f.state = "need_parity" ->
             [f EXCEPT !.parityError = isOdd # f.control.odd, !.state = "need_stop"]
        [] isRead /\ f.state = "need_stop" ->
             [TransferSr([f EXCEPT !.framingError = bit # 1]) EXCEPT !.state = "need_start"]

\* Mutant: the interrupt is not looked at again.
TransmitQuietly(a) == [a EXCEPT !.status = @ \cup {"TDRE"}]

Transmit(a) == UpdateIrq([a EXCEPT !.status = @ \cup {"TDRE"}])

\* mc6850_reset: the lines from outside keep their levels.
Reset(a) ==
  LET cleared == ClearReceiveState(
        [a EXCEPT !.state = "need_start", !.overflow = FALSE,
                  !.status = {"TDRE"}, !.control = ZeroControl])
  IN  SetCTS(SetDCD(cleared, a.isDCD), "CTS" \in a.status)

PowerOn(a) == Reset([a EXCEPT !.isDCD = FALSE, !.status = {}])

\* Mutant: the overrun is reported with the byte before the lost one.
ReadDataForgets(a) ==
  UpdateIrq([a EXCEPT !.overflow = FALSE, !.status = @ \ {"DCD", "OVRN", "RDRF"}])

\* Reading the data register.  A byte lost is reported after the one before it
\* has been read.
ReadData(a) ==
  UpdateIrq(IF a.overflow
            THEN [a EXCEPT !.overflow = FALSE, !.status = (@ \ {"DCD"}) \cup {"OVRN"}]
            ELSE [a EXCEPT !.status = @ \ {"DCD", "OVRN", "RDRF"}])

WriteControl(a, control) == UpdateIrq([a EXCEPT !.control = control])

\* Writing the data register, before the callback that may transmit at once.
WriteData(a) == [a EXCEPT !.status = @ \ {"TDRE"}]

Created ==
  [status |-> {}, forRead |-> {}, irq |-> FALSE, control |-> ZeroControl,
   state |-> "need_start", sr |-> <<>>, divider |-> 0,
   parityError |-> FALSE, framingError |-> FALSE, overflow |-> FALSE,
   isDCD |-> FALSE]
=============================================================================
