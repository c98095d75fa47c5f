-------------------------------- MODULE Via --------------------------------
(***************************************************************************)
(* The 6522 versatile interface adapter, src/via.c, with what it is wired to: *)
(* the system VIA with the keyboard, the addressable latch, the vertical sync *)
(* and src/adc.c, or the user VIA with the printer of src/bbc.c.             *)
(*                                                                         *)
(* Time is counted in 2MHz ticks, two to a cycle of the chip.  The 6502's    *)
(* accesses come in the middle of a cycle, after the callbacks due then.     *)
(* Operators take the chip's struct and return it changed, as the functions  *)
(* of the code do.                                                          *)
(***************************************************************************)
EXTENDS Integers, FiniteSets, TLC

CONSTANTS
  Base,      \* values of the low byte of a latch (256)
  Bytes,     \* what the 6502 writes to a byte of a latch
  Wide,      \* 2^64
  MaxIdle,   \* bound: ticks an idle timer runs on without being looked at
  Columns,   \* columns of the keyboard with keys
  NoColumn,  \* one without
  PortB,     \* what the 6502 writes to ORB and DDRB, of bits 0 to 3
  Programs   \* what the 6502 does with which chip, and whether time matters to it

MaxCount == Base * Base - 1
Interrupts == {"CA1", "CA2", "CB1", "T1", "T2"}
Modes == {"continuous", "pulses", "latch_A"}
Edges == {"falling", "rising"}

ASSUME ViaAssumption ==
  /\ Base \in Nat \ {0, 1} /\ Bytes \subseteq 0..(Base - 1)
  /\ MaxIdle \in Nat \ {0, 1} /\ Wide \in Nat /\ 8 * (MaxCount + MaxIdle) < Wide
  /\ Wide % (2 * (MaxCount + 1)) = 0
  /\ NoColumn \notin Columns /\ PortB \subseteq SUBSET (0..3)
\* CA2 of the system VIA is the keyboard's line, which no program drives.
ASSUME ProgramsAssumption ==
  \A p \in Programs :
    /\ p.id \in {"system", "user"} /\ p.timed \in BOOLEAN
    /\ p.flags \subseteq Interrupts /\ p.ACR \subseteq Modes
    /\ p.PCR \subseteq [CA1 : Edges, CB1 : Edges, CA2 : IF p.id = "system" THEN Edges ELSE Edges \cup {"low", "high"}]

VARIABLES
  via,      \* the chip, its lines and what they come from
  adc,      \* the converter on the system VIA's CB1
  loaded,   \* timer 1 has been written since the machine was reset
  program   \* the run's program, one of Programs

vars == <<via, adc, loaded, program>>

-----------------------------------------------------------------------------
(* Interrupts. *)

CheckInterrupt(v) ==
  LET active == v.IER \cap v.IFR # {}
  IN  [v EXCEPT !.IFR = (@ \ {"IRQ"}) \cup (IF active THEN {"IRQ"} ELSE {}), !.irq = active]

\* via_raise_interrupt; only lowering CA2 makes via_set_IFR look at the keyboard.
RaiseInterrupt(v, flag) == CheckInterrupt([v EXCEPT !.IFR = @ \cup {flag}])

SetCA1(v, level) ==
  LET raised == IF level # v.CA1 /\ level = (v.PCR.CA1 = "rising")
                THEN RaiseInterrupt([v EXCEPT !.IRA = v.bus], "CA1") ELSE v
  IN  [raised EXCEPT !.CA1 = level]

SetCB1(v, level) ==
  LET raised == IF level # v.CB1 /\ level = (v.PCR.CB1 = "rising")
                THEN RaiseInterrupt(v, "CB1") ELSE v
  IN  [raised EXCEPT !.CB1 = level]

\* The printer acknowledges a character at once.
CA2Changed(v) ==
  IF v.id = "user" /\ v.PCR.CA2 \in {"low", "high"} /\ ~v.CA2
  THEN SetCA1(SetCA1(v, FALSE), TRUE) ELSE v

SetCA2(v, level) ==
  LET w == CA2Changed([v EXCEPT !.CA2 = level])
      triggers == w.PCR.CA2 = IF level THEN "rising" ELSE "falling"
  IN  IF level = v.CA2 THEN v ELSE IF triggers THEN RaiseInterrupt(w, "CA2") ELSE w

-----------------------------------------------------------------------------
(* Ports. *)

Selected(v) == IF v.DDRA THEN v.ORA ELSE NoColumn

\* The pins of port A: the column selected, and the key bit as it comes back.
BusValue(v) ==
  [column |-> Selected(v),
   key |-> v.id = "system" => v.autoscan \/ Selected(v) \in v.keys]

Cached(v) == IF "latch_A" \in v.ACR THEN v.IRA ELSE v.bus

UpdateIraCached(v) == [v EXCEPT !.cached = Cached(v)]

\* Mutant: the line stays up while keys are scanned.
UpdatePortASteady(v) ==
  LET fire == IF v.autoscan THEN v.keys # {} ELSE Selected(v) \in v.keys
      w == IF v.id = "system" THEN SetCA2(v, fire) ELSE v
  IN  UpdateIraCached([w EXCEPT !.bus = BusValue(v)])

\* While all columns are scanned CA2 goes up and down with every key that is down.
UpdatePortA(v) ==
  LET fire == IF v.autoscan THEN v.keys # {} ELSE Selected(v) \in v.keys
      toggled == IF v.autoscan /\ fire THEN SetCA2(v, FALSE) ELSE v
      w == IF v.id = "system" THEN SetCA2(toggled, fire) ELSE v
  IN  UpdateIraCached([w EXCEPT !.bus = BusValue(v)])

\* Mutant: the keyboard is not looked at.
UpdatePortBOnly(v) ==
  LET bits == (v.ORB \cap v.DDRB) \cup ((0..3) \ v.DDRB)
  IN  IF v.id = "system"
      THEN [v EXCEPT !.autoscan = IF bits \cap (0..2) = {0, 1} THEN 3 \in bits ELSE @] ELSE v

\* sysvia_update_port_b: bits 0 to 2 select a bit of the addressable latch, of
\* which number 3 is the one modelled, and bit 3 is its value.
UpdatePortB(v) ==
  LET bits == (v.ORB \cap v.DDRB) \cup ((0..3) \ v.DDRB)
  IN  IF v.id = "system"
      THEN UpdatePortA([v EXCEPT
             !.autoscan = IF bits \cap (0..2) = {0, 1} THEN 3 \in bits ELSE @])
      ELSE v

\* Mutant: the interrupt line is left as it is.
SetIFRQuietly(v, flags) ==
  LET w == [v EXCEPT !.IFR = flags]
  IN  IF v.id = "system" /\ "CA2" \in v.IFR \ flags THEN UpdatePortA(w) ELSE w

SetIFR(v, flags) ==
  LET w == [v EXCEPT !.IFR = flags]
  IN  CheckInterrupt(IF v.id = "system" /\ "CA2" \in v.IFR \ flags THEN UpdatePortA(w) ELSE w)

ClearInterrupt(v, flags) == SetIFR(v, v.IFR \ flags)

-----------------------------------------------------------------------------
(* Timers.  The scheduler's value of a timer, in ticks, is two more than twice *)
(* the count and goes on below zero while the timer is idle.                 *)

Latch1(v) == v.T1L.high * Base + v.T1L.low
Latch2(v) == v.T2L.high * Base + v.T2L.low

Continuous(v) == "continuous" \in v.ACR
Pulses(v) == "pulses" \in v.ACR

Signed(x) == LET low == x % Wide IN IF low >= Wide \div 2 THEN low - Wide ELSE low

\* Mutant: one reload too few.
RelatchedOnceLess(raw, reload) ==
  LET delta == (-raw - 4) % Wide
  IN  IF raw < -2 THEN Signed(raw + (delta \div reload) * reload) ELSE raw

\* The reloads an idle timer has missed are made up for when it is looked at, in
\* unsigned arithmetic.
Relatched(raw, reload) ==
  LET delta == (-raw - 4) % Wide
  IN  IF raw < -2 THEN Signed(raw + (delta \div reload + 1) * reload) ELSE raw

SetCount(timer, count) == [timer EXCEPT !.value = 2 * count + 2]

Raw1(v) == Relatched(v.t1.value - 2, 2 * (Latch1(v) + 2))
Raw2(v) == Relatched(v.t2.value - 2, 2 * (MaxCount + 1))

\* via_get_t1c and via_get_t2c: the count, and the chip that has been brought up
\* to date by it.
Count1(v) == Raw1(v) \div 2
Count2(v) == Raw2(v) \div 2
GetT1(v) == [v EXCEPT !.t1.value = Raw1(v) + 2]
GetT2(v) == [v EXCEPT !.t2.value = Raw2(v) + 2]

LoadT1(v) == [v EXCEPT !.t1 = SetCount(@, Latch1(v) + 1)]

\* via_t1_fired.
FireT1(v) ==
  LET w == [RaiseInterrupt(v, "T1") EXCEPT !.t1.fired = TRUE, !.pb7 = ~@]
  IN  IF Continuous(v) THEN [w EXCEPT !.t1.value = @ + 2 * (Latch1(v) + 2)]
      ELSE [w EXCEPT !.t1.firing = FALSE]

\* Mutant: a one-shot goes on firing.
FireT2StaysArmed(v) == [RaiseInterrupt(v, "T2") EXCEPT !.t2.fired = TRUE]

FireT2(v) == [RaiseInterrupt(v, "T2") EXCEPT !.t2.fired = TRUE, !.t2.firing = FALSE]

\* Time goes on by that many ticks.
Advance(v, ticks) ==
  LET w == [v EXCEPT !.t1.value = @ - ticks, !.t1.fired = FALSE,
                     !.t2.value = IF v.t2.ticking THEN @ - ticks ELSE @, !.t2.fired = FALSE]
      x == IF w.t1.firing /\ w.t1.value = 0 THEN FireT1(w) ELSE w
  IN  IF x.t2.ticking /\ x.t2.firing /\ x.t2.value = 0 THEN FireT2(x) ELSE x

\* The flags the present cycle's expiries have just set.
JustFired(v) == (IF v.t1.fired THEN {"T1"} ELSE {}) \cup (IF v.t2.fired THEN {"T2"} ELSE {})

-----------------------------------------------------------------------------
(* What happens. *)

\* The adc's timer is stopped with the rest of its state.
AdcPowerOnBusy == [busy |-> adc.busy, ready |-> FALSE]  \* mutant: it runs on
AdcPowerOn == [busy |-> FALSE, ready |-> FALSE]

\* via_power_on_reset, in the first half of a cycle.  The scheduler's ticks and the
\* 6502's lines are reset with it, and the printer says it is ready.
PowerOn(id, keys) ==
  LET idle == [value |-> 2 * MaxCount + 2, firing |-> FALSE, fired |-> FALSE]
      latch == [high |-> Base - 1, low |-> Base - 1]
      input == [column |-> NoColumn, key |-> TRUE]
      v == [id |-> id, IFR |-> {}, IER |-> {}, ACR |-> {},
            PCR |-> [CA1 |-> "falling", CA2 |-> "falling", CB1 |-> "falling"],
            CA1 |-> FALSE, CA2 |-> FALSE, CB1 |-> FALSE, irq |-> FALSE,
            ORB |-> {}, DDRB |-> {}, ORA |-> NoColumn, DDRA |-> FALSE,
            autoscan |-> FALSE, keys |-> keys, bus |-> input, IRA |-> input, cached |-> input,
            t1 |-> idle, t2 |-> [ticking |-> TRUE, value |-> idle.value, firing |-> FALSE, fired |-> FALSE], T1L |-> latch, T2L |-> latch,
            pb7 |-> TRUE, half |-> TRUE, free |-> TRUE]
  IN  [SetCA1(UpdatePortA(v), id = "user") EXCEPT !.keys = {}]

\* A cycle of the chip, to the middle of the next.  A program that leaves the timers
\* alone is not timed.
Cycle ==
  /\ program.timed => via.t1.value > -MaxIdle /\ via.t2.value > -MaxIdle
  /\ via' = [IF program.timed THEN Advance(via, IF via.half THEN 1 ELSE 2) ELSE via
             EXCEPT !.half = FALSE, !.free = TRUE]
  /\ UNCHANGED <<adc, loaded, program>>

\* One access to a register, in a cycle that has not had one.
Access(register, v) ==
  /\ register \in program.registers
  /\ via.free /\ (program.timed => ~via.half)
  /\ via' = [v EXCEPT !.free = FALSE]
  /\ UNCHANGED program

Write(register, v) == Access(register, v) /\ UNCHANGED <<adc, loaded>>

ReadT1CL == Write("T1CL", GetT1(ClearInterrupt(via, {"T1"} \ JustFired(via))))
ReadT1CH == Write("T1CH", GetT1(via))
ReadT2CL == Write("T2CL", GetT2(ClearInterrupt(via, {"T2"} \ JustFired(via))))
ReadT2CH == Write("T2CH", GetT2(via))
ReadORA == Write("ORA", ClearInterrupt(via, {"CA1", "CA2"}))
ReadORB == Write("ORB", ClearInterrupt(via, {"CB1"}))

\* The latch that a continuous timer has just been loaded from is being changed.
Reloaded(v) == IF v.t1.fired /\ Continuous(v) THEN LoadT1(v) ELSE v

WriteT1CL(low) == Write("T1CL", Reloaded([GetT1(via) EXCEPT !.T1L.low = low]))

WriteT1LH(high) ==
  Write("T1LH", Reloaded(ClearInterrupt([GetT1(via) EXCEPT !.T1L.high = high],
                                        {"T1"} \ JustFired(via))))

WriteT1CH(high) ==
  LET w == [ClearInterrupt(via, {"T1"} \ JustFired(via)) EXCEPT !.T1L.high = high]
  IN  /\ Access("T1CH", [LoadT1(w) EXCEPT !.t1.firing = TRUE, !.pb7 = FALSE])
      /\ loaded' = TRUE /\ UNCHANGED adc

WriteT2CL(low) == Write("T2CL", [via EXCEPT !.T2L.low = low])

WriteT2CH(high) ==
  LET w == [ClearInterrupt(via, {"T2"} \ JustFired(via)) EXCEPT !.T2L.high = high]
      count == IF Pulses(w) THEN Latch2(w) ELSE Latch2(w) + 1
  IN  Write("T2CH", [w EXCEPT !.t2 = [SetCount(@, count) EXCEPT !.firing = TRUE]])

\* Timer 2 stops after one more count, and starts in the next cycle.
WriteACR(bits) ==
  LET w == UpdateIraCached([via EXCEPT !.ACR = bits])
      x == IF w.t1.fired /\ ~Continuous(w) THEN [w EXCEPT !.t1.firing = FALSE] ELSE w
      change == IF Pulses(x) THEN -1 ELSE 1
  IN  Write("ACR", IF x.t2.ticking = Pulses(x)
                   THEN [x EXCEPT !.t2 = [SetCount(@, Count2(x) + change) EXCEPT
                                            !.ticking = ~Pulses(x)]]
                   ELSE x)

WriteIFR(flags) == Write("IFR", SetIFR(via, (via.IFR \ flags) \cup JustFired(via)))

WriteIER(enable) ==
  Write("IER", CheckInterrupt([via EXCEPT !.IER =
                 IF enable THEN @ \cup program.flags ELSE @ \ program.flags]))

WritePCR(pcr) ==
  LET w == [via EXCEPT !.PCR = pcr]
  IN  Write("PCR", CASE pcr.CA2 = "low" -> SetCA2(w, FALSE)
                     [] pcr.CA2 = "high" -> SetCA2(w, TRUE)
                     [] OTHER -> w)

WriteORB(bits) == Write("ORB", UpdatePortB(ClearInterrupt([via EXCEPT !.ORB = bits], {"CB1"})))
WriteDDRB(bits) == Write("DDRB", UpdatePortB([via EXCEPT !.DDRB = bits]))
WriteDDRA(output) == Write("DDRA", UpdatePortA([via EXCEPT !.DDRA = output]))
WriteORAnh(column) == Write("ORAnh", UpdatePortA([via EXCEPT !.ORA = column]))
WriteORA(column) ==
  Write("ORA", UpdatePortA([ClearInterrupt(via, {"CA1", "CA2"}) EXCEPT !.ORA = column]))

\* Another conversion may be running.
StartConversion ==
  /\ Access("ADC", SetCB1(via, TRUE))
  /\ adc' = [busy |-> TRUE, ready |-> FALSE] /\ UNCHANGED loaded

ConversionDone ==
  /\ adc.busy
  /\ adc' = [busy |-> FALSE, ready |-> TRUE] /\ via' = SetCB1(via, FALSE)
  /\ UNCHANGED <<loaded, program>>

\* bbc_virtual_keyboard_updated_callback.
KeysChange(keys) ==
  /\ program.id = "system" /\ ~program.timed /\ keys # via.keys
  /\ via' = UpdatePortA([via EXCEPT !.keys = keys])
  /\ UNCHANGED <<adc, loaded, program>>

Vsync ==
  /\ program.vsync
  /\ via' = SetCA1(via, ~via.CA1)
  /\ UNCHANGED <<adc, loaded, program>>

PowerOnReset ==
  /\ via' = PowerOn(via.id, via.keys) /\ adc' = AdcPowerOn /\ loaded' = FALSE
  /\ UNCHANGED program

-----------------------------------------------------------------------------
Init ==
  /\ program \in Programs
  /\ via = PowerOn(program.id, {}) /\ adc = [busy |-> FALSE, ready |-> FALSE]
  /\ loaded = FALSE

Next ==
  \/ Cycle \/ PowerOnReset \/ Vsync \/ StartConversion \/ ConversionDone
  \/ ReadT1CL \/ ReadT1CH \/ ReadT2CL \/ ReadT2CH \/ ReadORA \/ ReadORB
  \/ \E byte \in Bytes :
       WriteT1CL(byte) \/ WriteT1LH(byte) \/ WriteT1CH(byte) \/ WriteT2CL(byte) \/ WriteT2CH(byte)
  \/ \E bits \in SUBSET program.ACR : WriteACR(bits)
  \/ WriteIFR(program.flags)
  \/ \E enable \in BOOLEAN : WriteIER(enable)
  \/ \E pcr \in program.PCR : WritePCR(pcr)
  \/ \E bits \in PortB : WriteORB(bits) \/ WriteDDRB(bits)
  \/ \E output \in BOOLEAN : WriteDDRA(output)
  \/ \E column \in Columns \cup {NoColumn} : WriteORA(column) \/ WriteORAnh(column)
  \/ \E keys \in SUBSET Columns : KeysChange(keys)

Spec == Init /\ [][Next]_vars

-----------------------------------------------------------------------------
(* Properties. *)

(* The record of the chip has the values its fields may have; and a timer that *)
(* is to fire has not run past zero: the scheduler calls via_t1_fired and      *)
(* via_t2_fired in time, and a one-shot is put out by them (via.c:229, 245).   *)
TypeOK ==
  /\ program \in Programs /\ loaded \in BOOLEAN
  /\ adc \in [busy : BOOLEAN, ready : BOOLEAN]
  /\ via.IFR \subseteq Interrupts \cup {"IRQ"} /\ via.IER \subseteq Interrupts
  /\ via.ACR \subseteq Modes
  /\ {via.T1L, via.T2L} \subseteq [high : 0..(Base - 1), low : 0..(Base - 1)]
  /\ {via.bus, via.IRA, via.cached} \subseteq [column : Columns \cup {NoColumn}, key : BOOLEAN]
  /\ via.keys \subseteq Columns /\ via.ORB \cup via.DDRB \subseteq 0..3
  /\ via.t1.value \in -(2 * MaxIdle)..(2 * MaxCount + 4)
  /\ via.t2.value \in -(2 * MaxIdle)..(2 * MaxCount + 4)
  /\ via.t1.firing => via.t1.value >= 0 /\ (via.t1.value = 0 => via.t1.fired)
  /\ via.t2.firing => via.t2.value >= 0 /\ (via.t2.value = 0 /\ via.t2.ticking => via.t2.fired)

(* Bit 7 of the interrupt flags and the line to the 6502 are what the enabled  *)
(* flags make them, whatever raised, cleared or masked one, the nested changes *)
(* of via_set_IFR included (via.c:82, 107).                                   *)
IrqIsCurrent ==
  /\ via.irq = (via.IFR \cap via.IER # {})
  /\ via.irq = ("IRQ" \in via.IFR)

(* What a read of port A is given is what is on the pins now, and on the system *)
(* VIA the line from the keyboard is what the selection makes it: everything    *)
(* that changes the port, the addressable latch or the keys has them worked out *)
(* again (via.c:533, bbc.c:2669).                                             *)
BusIsCurrent ==
  /\ via.bus = BusValue(via)
  /\ "latch_A" \notin via.ACR => via.cached = via.bus
  /\ via.id = "system" =>
       (via.CA2 <=> IF via.autoscan THEN via.keys # {} ELSE Selected(via) \in via.keys)

(* The chip's fields, its interrupt line, its timers and its pins agree.      *)
Coherent == TypeOK /\ IrqIsCurrent /\ BusIsCurrent

\* A key is down while all columns are scanned, and CA2 has not told of it.
KeyMissed ==
  /\ via.id = "system" /\ via.autoscan /\ via.keys # {}
  /\ via.PCR.CA2 = "rising" /\ "CA2" \notin via.IFR

(* A key that is down while the keyboard scans all columns interrupts, and goes *)
(* on doing so when the interrupt is cleared in whatever way: only a change of  *)
(* the edge that is looked for leaves one unnoticed (via.c:97).                *)
KeyIsSeen == [][KeyMissed' => KeyMissed \/ via'.PCR # via.PCR]_vars

(* The end of every conversion is an edge on CB1 and, if that is the one looked *)
(* for, an interrupt: also of one that was started while another was running,  *)
(* and of the first after a reset (adc.c:79, 156).                             *)
ConversionIsSeen ==
  [][adc'.ready /\ ~adc.ready /\ via.PCR.CB1 = "falling" => "CB1" \in via'.IFR]_vars

(* No edge of the keyboard or the converter goes unnoticed.                   *)
EdgesAreSeen == KeyIsSeen /\ ConversionIsSeen

-----------------------------------------------------------------------------
\* The counters as the chip has them.
CountersOf(v, known) ==
  [t1 |-> IF ~known THEN -2 ELSE IF v.t1.fired THEN -1 ELSE Count1(v),
   latch1 |-> Latch1(v), armed1 |-> v.t1.firing, fired1 |-> v.t1.fired,
   t2 |-> IF Count2(v) < -1 THEN Count2(v) % (MaxCount + 1) ELSE Count2(v),
   latch2 |-> Latch2(v), armed2 |-> v.t2.firing, fired2 |-> v.t2.fired,
   continuous |-> Continuous(v), pulses |-> Pulses(v), pb7 |-> v.pb7,
   flags |-> v.IFR \cap {"T1", "T2"}]
Counters == CountersOf(via, loaded)

Chip == INSTANCE ViaTimers WITH chip <- Counters

(* The timers, which beebjit lets run and looks at only when they fire or the   *)
(* 6502 asks, count, reload, fire and stop as the chip's do cycle by cycle,     *)
(* whatever is written in the very cycle of an expiry (via.c:151, 185, 755).   *)
ImplementsChip == Chip!Spec
=============================================================================
