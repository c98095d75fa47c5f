------------------------------- MODULE MCVia -------------------------------
(* A small instance of Via: counters of two bits, and five programs. *)
EXTENDS Via

Falling == {"falling"}
Timed == [PCR |-> {}, vsync |-> FALSE, timed |-> TRUE, id |-> "user"]
Ports == [timed |-> FALSE]
Pcr(CA1, CA2, CB1) == [CA1 : CA1, CA2 : CA2, CB1 : CB1]

Timer1 == Timed @@
  [registers |-> {"T1CL", "T1CH", "T1LH", "T2CL", "ACR", "IFR", "IER"},
   flags |-> {"T1"}, ACR |-> {"continuous"}]

Timer2 == Timed @@
  [registers |-> {"T2CL", "T2CH", "T1CL", "ACR", "IFR", "IER"},
   flags |-> {"T2"}, ACR |-> {"pulses"}]

Printer == Ports @@
  [id |-> "user", registers |-> {"ORA", "ORAnh", "DDRA", "PCR", "IFR", "IER"},
   flags |-> {"CA1"}, ACR |-> {}, PCR |-> Pcr(Edges, {"low", "high"}, Falling), vsync |-> FALSE]

Keys == Ports @@
  [id |-> "system", registers |-> {"ORA", "DDRA", "ORB", "DDRB", "PCR", "IFR", "IER"},
   flags |-> {"CA2"}, ACR |-> {}, PCR |-> Pcr(Falling, Edges, Falling), vsync |-> FALSE]

\* Conversions, and keys read while the port is latched at the vertical sync.
Latch == Ports @@
  [id |-> "system", registers |-> {"ADC", "ORAnh", "ORB", "DDRA", "PCR", "ACR", "IFR", "IER"},
   flags |-> {"CA1", "CB1"}, ACR |-> {"latch_A"}, PCR |-> Pcr(Edges, Falling, Edges),
   vsync |-> TRUE]

FivePrograms == {Timer1, Timer2, Printer, Keys, Latch}

\* The latch's bit 3 cleared, and set; and all four bits, as outputs or another bit.
LatchWrites == {{0, 1}, {0, 1, 3}, 0..3}
=============================================================================
