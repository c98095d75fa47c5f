------------------------------- MODULE ViaProofs -------------------------------
(***************************************************************************)
(* The 6522 for every width of its counters and whatever programs run: its   *)
(* interrupt line, its port, its timers and the flags of its edges are what  *)
(* Via says of them. The operators of Via take the chip's struct and return  *)
(* it changed; for each there is a lemma that says what it leaves true and   *)
(* what it leaves alone.                                                     *)
(***************************************************************************)
EXTENDS Via, TLAPS

Pins == [column : Columns \cup {NoColumn}, key : BOOLEAN]
Latches == [high : 0..(Base - 1), low : 0..(Base - 1)]
Timer1s == [value : Int, firing : BOOLEAN, fired : BOOLEAN]
Timer2s == [ticking : BOOLEAN, value : Int, firing : BOOLEAN, fired : BOOLEAN]
Pcrs == [CA1 : Edges, CA2 : Edges \cup {"low", "high"}, CB1 : Edges]
Vias ==
  [id : {"system", "user"}, IFR : SUBSET (Interrupts \cup {"IRQ"}), IER : SUBSET Interrupts, ACR : SUBSET Modes,
   PCR : Pcrs, CA1 : BOOLEAN, CA2 : BOOLEAN, CB1 : BOOLEAN, irq : BOOLEAN,
   ORB : SUBSET (0..3), DDRB : SUBSET (0..3), ORA : Columns \cup {NoColumn}, DDRA : BOOLEAN,
   autoscan : BOOLEAN, keys : SUBSET Columns, bus : Pins, IRA : Pins, cached : Pins,
   t1 : Timer1s, t2 : Timer2s, T1L : Latches, T2L : Latches, pb7 : BOOLEAN, half : BOOLEAN, free : BOOLEAN]

(* The parts of the invariant, each of a struct.                             *)
IrqOK(v) == v.irq = (v.IFR \cap v.IER # {}) /\ v.irq = ("IRQ" \in v.IFR)
KeyDown(v) == IF v.autoscan THEN v.keys # {} ELSE Selected(v) \in v.keys
BusOK(v) ==
  /\ v.bus = BusValue(v)
  /\ "latch_A" \notin v.ACR => v.cached = v.bus
  /\ v.id = "system" => (v.CA2 <=> KeyDown(v))
PcrOK(v) == v.id = "system" => v.PCR.CA2 \in Edges

(* A timer that is to fire has an even number of ticks left; that of timer 2  *)
(* may be none when it was stopped just before its expiry. Neither is looked  *)
(* at before the first half cycle is over, and timer 2 counts unless it       *)
(* counts pulses.                                                             *)
Even(n) == n % 2 = 0
Span(n) == n \in -(2 * MaxIdle)..(2 * MaxCount + 4)
TimersOK(v) ==
  /\ Span(v.t1.value) /\ Span(v.t2.value)
  /\ v.t1.firing => v.t1.value >= 2 /\ Even(v.t1.value)
  /\ v.t2.firing => v.t2.value >= 0 /\ Even(v.t2.value) /\ (v.t2.ticking => v.t2.value >= 2)
  /\ ~v.t2.ticking => v.t2.value <= 2 * MaxCount + 2
  /\ v.t2.ticking # Pulses(v)
StartOK(v, timed) == timed /\ v.half => ~v.t1.firing /\ ~v.t2.firing

Sound(v) == v \in Vias /\ IrqOK(v) /\ BusOK(v) /\ PcrOK(v) /\ TimersOK(v)
IInv ==
  /\ program \in Programs /\ loaded \in BOOLEAN
  /\ adc \in [busy : BOOLEAN, ready : BOOLEAN] /\ (adc.busy => via.CB1)
  /\ Sound(via) /\ via.id = program.id /\ StartOK(via, program.timed)

-----------------------------------------------------------------------------
(* Interrupts and ports.                                                     *)

\* What raising an interrupt, moving a line or looking at the keyboard leaves alone.
RestKept(v, w) ==
  /\ w.id = v.id /\ w.IER = v.IER /\ w.ACR = v.ACR /\ w.PCR = v.PCR
  /\ w.ORB = v.ORB /\ w.DDRB = v.DDRB /\ w.ORA = v.ORA /\ w.DDRA = v.DDRA
  /\ w.autoscan = v.autoscan /\ w.keys = v.keys /\ w.t1 = v.t1 /\ w.t2 = v.t2
  /\ w.T1L = v.T1L /\ w.T2L = v.T2L /\ w.pb7 = v.pb7 /\ w.half = v.half /\ w.free = v.free
LinesKept(v, w) == w.CA1 = v.CA1 /\ w.CA2 = v.CA2 /\ w.CB1 = v.CB1
PortKept(v, w) == w.bus = v.bus /\ w.cached = v.cached

\* via_check_interrupt makes bit 7 and the line what the flags say, and nothing else.
LEMMA CheckInterruptFacts ==
  ASSUME NEW v \in Vias
  PROVE  LET w == CheckInterrupt(v)
         IN  /\ w \in Vias /\ IrqOK(w) /\ RestKept(v, w) /\ LinesKept(v, w) /\ PortKept(v, w)
             /\ w.IFR \ {"IRQ"} = v.IFR \ {"IRQ"} /\ w.IRA = v.IRA
<1> DEFINE active == v.IER \cap v.IFR # {}
           ifr == (v.IFR \ {"IRQ"}) \cup (IF active THEN {"IRQ"} ELSE {})
<1>1. active \in BOOLEAN /\ ifr \in SUBSET (Interrupts \cup {"IRQ"}) /\ ifr \ {"IRQ"} = v.IFR \ {"IRQ"}
  BY DEF Vias
<1>2. CheckInterrupt(v) = [v EXCEPT !.IFR = ifr, !.irq = active] BY DEF CheckInterrupt, Vias
<1>3. active = (ifr \cap v.IER # {}) /\ active = ("IRQ" \in ifr) BY DEF Vias, Interrupts
<1> DEFINE w == CheckInterrupt(v)
<1> HIDE DEF active, ifr
<1>4. w \in Vias BY <1>1, <1>2 DEF Vias
<1>5. w.IFR = ifr /\ w.irq = active /\ w.IER = v.IER BY <1>2 DEF Vias
<1>6. IrqOK(w) BY <1>3, <1>5, Zenon DEF IrqOK
<1>7. RestKept(v, w) BY <1>2 DEF Vias, RestKept
<1>8. LinesKept(v, w) /\ PortKept(v, w) /\ w.IRA = v.IRA BY <1>2 DEF Vias, LinesKept, PortKept
<1> HIDE DEF w
<1> QED BY <1>1, <1>4, <1>5, <1>6, <1>7, <1>8 DEF w

\* What every operator on the lines and ports does: it keeps the flags that are
\* up, those of the timers as they are, and all that is not a line, a flag or a port.
TimerFlags == {"T1", "T2"}
Raises(v, w) ==
  /\ w \in Vias /\ RestKept(v, w) /\ (IrqOK(v) => IrqOK(w))
  /\ v.IFR \ {"IRQ"} \subseteq w.IFR /\ w.IFR \cap TimerFlags = v.IFR \cap TimerFlags
\* One raise after another is a raise.
LEMMA RaisesOn ==
  ASSUME NEW u, NEW v, NEW w, Raises(u, v), Raises(v, w)
  PROVE  Raises(u, w)
BY DEF Raises, RestKept
\* No change is a raise of nothing.
LEMMA RaisesNothing == ASSUME NEW v \in Vias PROVE Raises(v, v)
BY DEF Raises, RestKept

\* via_raise_interrupt raises the flag, and neither a line nor a port changes.
LEMMA RaiseInterruptFacts ==
  ASSUME NEW v \in Vias, NEW flag \in Interrupts
  PROVE  LET w == RaiseInterrupt(v, flag)
         IN  /\ w \in Vias /\ IrqOK(w) /\ RestKept(v, w) /\ LinesKept(v, w) /\ PortKept(v, w) /\ w.IRA = v.IRA
             /\ w.IFR \ {"IRQ"} = (v.IFR \cup {flag}) \ {"IRQ"} /\ flag \in w.IFR
             /\ flag \notin TimerFlags => Raises(v, w)
<1> DEFINE u == [v EXCEPT !.IFR = @ \cup {flag}]
           w == RaiseInterrupt(v, flag)
<1>1. u \in Vias /\ u.IFR = v.IFR \cup {flag} BY DEF Vias
<1>2. RestKept(v, u) /\ LinesKept(v, u) /\ PortKept(v, u) /\ u.IRA = v.IRA BY DEF Vias, RestKept, LinesKept, PortKept
<1>3. w = CheckInterrupt(u) BY DEF RaiseInterrupt
<1> HIDE DEF u, w
<1>4. w \in Vias /\ IrqOK(w) /\ RestKept(u, w) /\ LinesKept(u, w) /\ PortKept(u, w)
      /\ w.IFR \ {"IRQ"} = u.IFR \ {"IRQ"} /\ w.IRA = u.IRA
  BY <1>1, <1>3, CheckInterruptFacts
<1>5. RestKept(v, w) BY <1>2, <1>4 DEF RestKept
<1>6. LinesKept(v, w) /\ PortKept(v, w) /\ w.IRA = v.IRA BY <1>2, <1>4 DEF LinesKept, PortKept
<1>7. w.IFR \ {"IRQ"} = (v.IFR \cup {flag}) \ {"IRQ"} BY <1>1, <1>4
<1>8. flag \in w.IFR /\ v.IFR \ {"IRQ"} \subseteq w.IFR BY <1>7 DEF Interrupts
<1>9. flag \notin TimerFlags => w.IFR \cap TimerFlags = v.IFR \cap TimerFlags BY <1>7 DEF TimerFlags
<1> QED BY <1>4, <1>5, <1>6, <1>7, <1>8, <1>9 DEF Raises, w

\* via_set_CA1 sets CA1, and no other line.
LEMMA SetCA1Facts ==
  ASSUME NEW v \in Vias, NEW level \in BOOLEAN
  PROVE  LET w == SetCA1(v, level)
         IN  Raises(v, w) /\ w.CA1 = level /\ w.CA2 = v.CA2 /\ w.CB1 = v.CB1 /\ PortKept(v, w)
<1> DEFINE i == [v EXCEPT !.IRA = v.bus]
           r == IF level # v.CA1 /\ level = (v.PCR.CA1 = "rising") THEN RaiseInterrupt(i, "CA1") ELSE v
           w == [r EXCEPT !.CA1 = level]
<1>1. i \in Vias /\ Raises(v, i) /\ LinesKept(v, i) /\ PortKept(v, i)
  <2>1. i \in Vias BY DEF Vias
  <2>2. RestKept(v, i) /\ LinesKept(v, i) /\ PortKept(v, i) /\ i.IFR = v.IFR /\ i.irq = v.irq
    BY DEF Vias, RestKept, LinesKept, PortKept
  <2>3. IrqOK(v) => IrqOK(i) BY <2>2 DEF IrqOK, RestKept
  <2> HIDE DEF i
  <2> QED BY <2>1, <2>2, <2>3 DEF Raises
<1>2. Raises(v, r) /\ LinesKept(v, r) /\ PortKept(v, r)
  <2> HIDE DEF i
  <2>1. CASE r = v BY <2>1, RaisesNothing DEF LinesKept, PortKept
  <2>2. CASE r = RaiseInterrupt(i, "CA1")
    <3>1. Raises(i, r) /\ LinesKept(i, r) /\ PortKept(i, r) BY <1>1, <2>2, RaiseInterruptFacts DEF Interrupts, TimerFlags
    <3> HIDE DEF r
    <3>2. Raises(v, r) BY <1>1, <3>1, RaisesOn
    <3> QED BY <1>1, <3>1, <3>2 DEF LinesKept, PortKept
  <2> QED BY <2>1, <2>2
<1> HIDE DEF r
<1>3. w \in Vias BY <1>2 DEF Raises, Vias
<1>4. RestKept(r, w) /\ PortKept(r, w) /\ w.CA1 = level /\ w.CA2 = r.CA2 /\ w.CB1 = r.CB1 /\ w.IFR = r.IFR /\ w.irq = r.irq
  BY <1>2 DEF Raises, Vias, RestKept, PortKept
<1> HIDE DEF w
<1>5. Raises(r, w)
  <2>1. IrqOK(r) => IrqOK(w) BY <1>4 DEF IrqOK, RestKept
  <2> QED BY <1>3, <1>4, <2>1 DEF Raises
<1>6. Raises(v, w) BY <1>2, <1>5, RaisesOn
<1>7. w = SetCA1(v, level) BY DEF w, r, i, SetCA1
<1> QED BY <1>2, <1>4, <1>6, <1>7 DEF LinesKept, PortKept

\* via_set_CB1 sets CB1 and no other line, and the edge that is looked for raises.
LEMMA SetCB1Facts ==
  ASSUME NEW v \in Vias, NEW level \in BOOLEAN
  PROVE  LET w == SetCB1(v, level)
         IN  /\ Raises(v, w) /\ w.CB1 = level /\ w.CA1 = v.CA1 /\ w.CA2 = v.CA2 /\ PortKept(v, w)
             /\ level # v.CB1 /\ level = (v.PCR.CB1 = "rising") => "CB1" \in w.IFR
<1> DEFINE edge == level # v.CB1 /\ level = (v.PCR.CB1 = "rising")
           r == IF edge THEN RaiseInterrupt(v, "CB1") ELSE v
           w == [r EXCEPT !.CB1 = level]
<1>1. Raises(v, r) /\ LinesKept(v, r) /\ PortKept(v, r) /\ (edge => "CB1" \in r.IFR)
  <2>1. CASE edge BY <2>1, RaiseInterruptFacts DEF Interrupts, TimerFlags
  <2>2. CASE ~edge BY <2>2, RaisesNothing DEF LinesKept, PortKept
  <2> QED BY <2>1, <2>2
<1>2. w = SetCB1(v, level) BY DEF SetCB1
<1> HIDE DEF r
<1>3. w \in Vias BY <1>1 DEF Raises, Vias
<1>4. RestKept(r, w) /\ PortKept(r, w) /\ w.CB1 = level /\ w.CA1 = r.CA1 /\ w.CA2 = r.CA2 /\ w.IFR = r.IFR /\ w.irq = r.irq
  BY <1>1 DEF Raises, Vias, RestKept, PortKept
<1> HIDE DEF w
<1>5. Raises(r, w)
  <2>1. IrqOK(r) => IrqOK(w) BY <1>4 DEF IrqOK, RestKept
  <2> QED BY <1>3, <1>4, <2>1 DEF Raises
<1>6. Raises(v, w) BY <1>1, <1>5, RaisesOn
<1> QED BY <1>1, <1>2, <1>4, <1>6 DEF LinesKept, PortKept

\* What the printer answers (bbc.c) leaves CA2 and CB1 alone.
LEMMA CA2ChangedFacts ==
  ASSUME NEW v \in Vias
  PROVE  LET w == CA2Changed(v)
         IN  Raises(v, w) /\ w.CA2 = v.CA2 /\ w.CB1 = v.CB1 /\ PortKept(v, w)
<1> DEFINE u == SetCA1(v, FALSE)
           w == SetCA1(u, TRUE)
<1>1. Raises(v, u) /\ u.CA2 = v.CA2 /\ u.CB1 = v.CB1 /\ PortKept(v, u) BY SetCA1Facts
<1>2. u \in Vias BY <1>1 DEF Raises
<1> HIDE DEF u
<1>3. Raises(u, w) /\ w.CA2 = u.CA2 /\ w.CB1 = u.CB1 /\ PortKept(u, w) BY <1>2, SetCA1Facts
<1> HIDE DEF w
<1>4. Raises(v, w) BY <1>1, <1>3, RaisesOn
<1>5. CASE CA2Changed(v) = w BY <1>1, <1>3, <1>4, <1>5 DEF PortKept
<1>6. CASE CA2Changed(v) = v BY <1>6, RaisesNothing DEF PortKept
<1> QED BY <1>5, <1>6 DEF CA2Changed, u, w

\* via_set_CA2 sets CA2, leaves CB1 alone, and the edge that is looked for raises.
LEMMA SetCA2Facts ==
  ASSUME NEW v \in Vias, NEW level \in BOOLEAN
  PROVE  LET w == SetCA2(v, level)
         IN  /\ Raises(v, w) /\ w.CA2 = level /\ w.CB1 = v.CB1 /\ PortKept(v, w)
             /\ level # v.CA2 /\ v.PCR.CA2 = (IF level THEN "rising" ELSE "falling") => "CA2" \in w.IFR
<1> DEFINE c == [v EXCEPT !.CA2 = level]
           u == CA2Changed(c)
           edge == u.PCR.CA2 = IF level THEN "rising" ELSE "falling"
           r == IF edge THEN RaiseInterrupt(u, "CA2") ELSE u
<1>1. SetCA2(v, level) = IF level = v.CA2 THEN v ELSE r BY DEF SetCA2
<1>2. c \in Vias BY DEF Vias
<1>3. RestKept(v, c) /\ PortKept(v, c) /\ c.CA2 = level /\ c.CB1 = v.CB1 /\ c.IFR = v.IFR /\ c.irq = v.irq
  BY DEF Vias, RestKept, PortKept
<1> HIDE DEF c
<1>4. Raises(v, c)
  <2>1. IrqOK(v) => IrqOK(c) BY <1>3 DEF IrqOK, RestKept
  <2> QED BY <1>2, <1>3, <2>1 DEF Raises
<1>5. Raises(c, u) /\ u.CA2 = c.CA2 /\ u.CB1 = c.CB1 /\ PortKept(c, u) BY <1>2, CA2ChangedFacts
<1>6. u \in Vias /\ u.PCR = v.PCR BY <1>3, <1>5 DEF Raises, RestKept
<1> HIDE DEF u
<1>7. Raises(u, r) /\ LinesKept(u, r) /\ PortKept(u, r) /\ (edge => "CA2" \in r.IFR)
  <2>1. CASE edge BY <1>6, <2>1, RaiseInterruptFacts DEF Interrupts, TimerFlags
  <2>2. CASE ~edge BY <1>6, <2>2, RaisesNothing DEF LinesKept, PortKept
  <2> QED BY <2>1, <2>2
<1> HIDE DEF r
<1>8. Raises(v, r) BY <1>4, <1>5, <1>7, RaisesOn
<1>9. r.CA2 = level /\ r.CB1 = v.CB1 /\ PortKept(v, r) BY <1>3, <1>5, <1>7 DEF LinesKept, PortKept
<1>10. CASE level = v.CA2
  <2>1. SetCA2(v, level) = v BY <1>1, <1>10
  <2> QED BY <1>10, <2>1, RaisesNothing DEF PortKept
<1>11. CASE level # v.CA2 BY <1>1, <1>6, <1>7, <1>8, <1>9, <1>11
<1> QED BY <1>10, <1>11

\* The column and the key depend on nothing that raising an interrupt changes.
LEMMA BusValueKept ==
  ASSUME NEW v, NEW w, RestKept(v, w)
  PROVE  BusValue(w) = BusValue(v) /\ Selected(w) = Selected(v) /\ (KeyDown(w) <=> KeyDown(v))
BY DEF RestKept, BusValue, Selected, KeyDown
\* The column and the value on the bus are ones there are.
LEMMA PinsTyped ==
  ASSUME NEW v \in Vias
  PROVE  Selected(v) \in Columns \cup {NoColumn} /\ BusValue(v) \in Pins
<1>1. Selected(v) \in Columns \cup {NoColumn} BY DEF Selected, Vias
<1>2. (v.id = "system" => v.autoscan \/ Selected(v) \in v.keys) \in BOOLEAN OBVIOUS
<1> QED BY <1>1, <1>2 DEF BusValue, Pins

\* A key that is down while all columns are scanned, and not told of (Via!KeyMissed).
Missed(v) ==
  /\ v.id = "system" /\ v.autoscan /\ v.keys # {}
  /\ v.PCR.CA2 = "rising" /\ "CA2" \notin v.IFR

\* Working port A out again makes the port, what is read of it and the keyboard's
\* line current, and tells of a key that is down while all columns are scanned.
LEMMA UpdatePortAFacts ==
  ASSUME NEW v \in Vias
  PROVE  LET w == UpdatePortA(v) IN Raises(v, w) /\ BusOK(w) /\ w.CB1 = v.CB1 /\ ~Missed(w)
<1> DEFINE fire == IF v.autoscan THEN v.keys # {} ELSE Selected(v) \in v.keys
           t == IF v.autoscan /\ fire THEN SetCA2(v, FALSE) ELSE v
           u == IF v.id = "system" THEN SetCA2(t, fire) ELSE v
           b == [u EXCEPT !.bus = BusValue(v)]
           w == [b EXCEPT !.cached = Cached(b)]
<1>0. w = UpdatePortA(v) BY DEF UpdatePortA, UpdateIraCached
<1>1. fire \in BOOLEAN /\ (fire <=> KeyDown(v))
  <2>1. CASE v.autoscan BY <2>1 DEF KeyDown
  <2>2. CASE ~v.autoscan BY <2>2 DEF KeyDown
  <2> QED BY <2>1, <2>2
<1>2. Raises(v, t) /\ t.CB1 = v.CB1 /\ (v.autoscan /\ fire => t.CA2 = FALSE)
  <2>1. CASE v.autoscan /\ fire BY <2>1, SetCA2Facts
  <2>2. CASE ~(v.autoscan /\ fire) BY <2>2, RaisesNothing
  <2> QED BY <2>1, <2>2
<1>3. t \in Vias /\ t.PCR = v.PCR /\ t.id = v.id BY <1>2 DEF Raises, RestKept
<1> HIDE DEF t
<1>4. /\ Raises(v, u) /\ u.CB1 = v.CB1 /\ (v.id = "system" => u.CA2 = fire)
      /\ v.id = "system" /\ v.autoscan /\ fire /\ v.PCR.CA2 = "rising" => "CA2" \in u.IFR
  <2>1. CASE v.id = "system"
    <3>1. /\ Raises(t, u) /\ u.CA2 = fire /\ u.CB1 = t.CB1
          /\ fire # t.CA2 /\ t.PCR.CA2 = (IF fire THEN "rising" ELSE "falling") => "CA2" \in u.IFR
      <4> HIDE DEF fire
      <4> QED BY <1>1, <1>3, <2>1, SetCA2Facts
    <3> HIDE DEF fire, u
    <3>2. Raises(v, u) BY <1>2, <3>1, RaisesOn
    <3> QED BY <1>1, <1>2, <1>3, <3>1, <3>2
  <2>2. CASE v.id # "system" BY <2>2, RaisesNothing
  <2> QED BY <2>1, <2>2
<1>6. u \in Vias BY <1>4 DEF Raises
<1> HIDE DEF u
<1>7. BusValue(v) \in Pins BY PinsTyped
<1>8. b \in Vias BY <1>6, <1>7 DEF Vias
<1>9. /\ RestKept(u, b) /\ LinesKept(u, b) /\ b.bus = BusValue(v) /\ b.IFR = u.IFR /\ b.irq = u.irq
      /\ b.IRA = u.IRA
  BY <1>6 DEF Vias, RestKept, LinesKept
<1> HIDE DEF b
<1>10. Cached(b) \in Pins /\ ("latch_A" \notin b.ACR => Cached(b) = b.bus) BY <1>8 DEF Cached, Vias
<1>11. w \in Vias BY <1>8, <1>10 DEF Vias
<1>12. RestKept(b, w) /\ LinesKept(b, w) /\ w.bus = b.bus /\ w.cached = Cached(b) /\ w.IFR = b.IFR /\ w.irq = b.irq
  BY <1>8 DEF Vias, RestKept, LinesKept
<1> HIDE DEF w
<1>13. RestKept(u, w) /\ LinesKept(u, w) /\ w.IFR = u.IFR /\ w.irq = u.irq BY <1>9, <1>12 DEF RestKept, LinesKept
<1>14. Raises(u, w)
  <2>1. IrqOK(u) => IrqOK(w) BY <1>13 DEF IrqOK, RestKept
  <2> QED BY <1>11, <1>13, <2>1 DEF Raises
<1>15. Raises(v, w) BY <1>4, <1>14, RaisesOn
<1>16. RestKept(v, w) BY <1>15 DEF Raises
<1>17. BusOK(w)
  <2>1. w.bus = BusValue(w) BY <1>9, <1>12, <1>16, BusValueKept
  <2>2. "latch_A" \notin w.ACR => w.cached = w.bus BY <1>10, <1>12 DEF RestKept
  <2>3. w.id = "system" => (w.CA2 <=> KeyDown(w))
    <3>1. KeyDown(w) <=> KeyDown(v) BY <1>16, BusValueKept
    <3>2. w.id = v.id BY <1>16 DEF RestKept
    <3> HIDE DEF fire
    <3> QED BY <1>1, <1>4, <1>13, <3>1, <3>2 DEF LinesKept
  <2> QED BY <2>1, <2>2, <2>3 DEF BusOK
<1>18. ~Missed(w)
  <2> SUFFICES ASSUME Missed(w) PROVE FALSE OBVIOUS
  <2>1. v.id = "system" /\ v.autoscan /\ v.keys # {} /\ v.PCR.CA2 = "rising" /\ "CA2" \notin u.IFR
    BY <1>13, <1>16 DEF Missed, RestKept
  <2>2. fire BY <2>1
  <2> HIDE DEF fire
  <2> QED BY <1>4, <2>1, <2>2
<1>19. w.CB1 = v.CB1 BY <1>4, <1>13 DEF LinesKept
<1> QED BY <1>0, <1>15, <1>17, <1>18, <1>19

\* What an access to a register leaves alone, but for the fields it is for.
Frame(v, w) ==
  /\ w.id = v.id /\ w.ACR = v.ACR /\ w.PCR = v.PCR /\ w.CB1 = v.CB1
  /\ w.t1 = v.t1 /\ w.t2 = v.t2 /\ w.T1L = v.T1L /\ w.T2L = v.T2L /\ w.pb7 = v.pb7 /\ w.half = v.half

\* Working port B out again works out port A, which the addressable latch changes.
LEMMA UpdatePortBFacts ==
  ASSUME NEW v \in Vias
  PROVE  LET w == UpdatePortB(v)
         IN  /\ w \in Vias /\ Frame(v, w) /\ (IrqOK(v) => IrqOK(w)) /\ (v.id = "system" => BusOK(w) /\ ~Missed(w))
             /\ v.id = "user" => w = v
             /\ w.IFR \cap TimerFlags = v.IFR \cap TimerFlags
<1> DEFINE bits == (v.ORB \cap v.DDRB) \cup ((0..3) \ v.DDRB)
           scan == IF bits \cap (0..2) = {0, 1} THEN 3 \in bits ELSE v.autoscan
           u == [v EXCEPT !.autoscan = scan]
           w == UpdatePortA(u)
<1>1. UpdatePortB(v) = IF v.id = "system" THEN w ELSE v BY DEF UpdatePortB, Vias
<1>2. scan \in BOOLEAN
  <2>1. v.autoscan \in BOOLEAN /\ (3 \in bits) \in BOOLEAN BY DEF Vias
  <2> HIDE DEF bits
  <2> QED BY <2>1
<1> HIDE DEF scan
<1>3. u \in Vias BY <1>2 DEF Vias
<1>4. Frame(v, u) /\ u.IFR = v.IFR /\ u.irq = v.irq /\ u.IER = v.IER BY DEF Vias, Frame
<1> HIDE DEF u
<1>5. Raises(u, w) /\ BusOK(w) /\ w.CB1 = u.CB1 /\ ~Missed(w) BY <1>3, UpdatePortAFacts
<1> HIDE DEF w
<1>6. Frame(v, w) BY <1>4, <1>5 DEF Raises, RestKept, Frame
<1>7. IrqOK(v) => IrqOK(w) BY <1>4, <1>5 DEF IrqOK, Raises
<1>8. CASE v.id = "system" BY <1>1, <1>4, <1>5, <1>6, <1>7, <1>8 DEF Raises
<1>9. CASE v.id = "user" BY <1>1, <1>9 DEF Frame
<1> QED BY <1>8, <1>9 DEF Vias

\* via_set_IFR makes the line what the flags say, keeps the port current, and tells
\* of a key again if that flag is cleared; the timers' flags are those given.
LEMMA SetIFRFacts ==
  ASSUME NEW v \in Vias, NEW flags \in SUBSET (Interrupts \cup {"IRQ"})
  PROVE  LET w == SetIFR(v, flags)
         IN  /\ w \in Vias /\ IrqOK(w) /\ RestKept(v, w) /\ w.CB1 = v.CB1
             /\ (BusOK(v) => BusOK(w)) /\ (~Missed(v) => ~Missed(w))
             /\ w.IFR \cap TimerFlags = flags \cap TimerFlags
<1> DEFINE u == [v EXCEPT !.IFR = flags]
           cleared == v.id = "system" /\ "CA2" \in v.IFR \ flags
           r == IF cleared THEN UpdatePortA(u) ELSE u
           w == CheckInterrupt(r)
<1>1. w = SetIFR(v, flags) BY DEF SetIFR
<1>2. u \in Vias /\ u.IFR = flags BY DEF Vias
<1>3. RestKept(v, u) /\ LinesKept(v, u) /\ PortKept(v, u) BY DEF Vias, RestKept, LinesKept, PortKept
<1> HIDE DEF u
<1>4. BusOK(v) => BusOK(u)
  <2>1. BusValue(u) = BusValue(v) /\ (KeyDown(u) <=> KeyDown(v)) BY <1>3, BusValueKept
  <2> QED BY <1>3, <2>1 DEF BusOK, RestKept, LinesKept, PortKept
<1>5. /\ r \in Vias /\ RestKept(v, r) /\ r.CB1 = v.CB1 /\ (BusOK(v) => BusOK(r)) /\ (~Missed(v) => ~Missed(r))
      /\ r.IFR \cap TimerFlags = flags \cap TimerFlags
  <2>1. CASE cleared
    <3>1. Raises(u, r) /\ BusOK(r) /\ r.CB1 = u.CB1 /\ ~Missed(r) BY <1>2, <2>1, UpdatePortAFacts
    <3> HIDE DEF r
    <3>2. RestKept(v, r) BY <1>3, <3>1 DEF Raises, RestKept
    <3> QED BY <1>2, <1>3, <3>1, <3>2 DEF Raises, LinesKept
  <2>2. CASE ~cleared
    <3>1. r = u BY <2>2
    <3>2. ~Missed(v) => ~Missed(u) BY <1>2, <1>3, <2>2 DEF Missed, RestKept
    <3> QED BY <1>2, <1>3, <1>4, <3>1, <3>2 DEF LinesKept
  <2> QED BY <2>1, <2>2
<1> HIDE DEF r
<1>6. /\ w \in Vias /\ IrqOK(w) /\ RestKept(r, w) /\ LinesKept(r, w) /\ PortKept(r, w)
      /\ w.IFR \ {"IRQ"} = r.IFR \ {"IRQ"}
  BY <1>5, CheckInterruptFacts
<1> HIDE DEF w
<1>7. RestKept(v, w) /\ w.CB1 = v.CB1 BY <1>5, <1>6 DEF RestKept, LinesKept
<1>8. BusOK(v) => BusOK(w)
  <2>1. BusValue(w) = BusValue(r) /\ (KeyDown(w) <=> KeyDown(r)) BY <1>6, BusValueKept
  <2> QED BY <1>5, <1>6, <2>1 DEF BusOK, RestKept, LinesKept, PortKept
<1>9. ~Missed(v) => ~Missed(w) BY <1>5, <1>6 DEF Missed, RestKept
<1>10. w.IFR \cap TimerFlags = flags \cap TimerFlags BY <1>5, <1>6 DEF TimerFlags
<1> QED BY <1>1, <1>6, <1>7, <1>8, <1>9, <1>10

\* via_clear_interrupt: the same, with the flags that are left.
LEMMA ClearInterruptFacts ==
  ASSUME NEW v \in Vias, NEW flags
  PROVE  LET w == ClearInterrupt(v, flags)
         IN  /\ w \in Vias /\ IrqOK(w) /\ RestKept(v, w) /\ w.CB1 = v.CB1
             /\ (BusOK(v) => BusOK(w)) /\ (~Missed(v) => ~Missed(w))
             /\ w.IFR \cap TimerFlags = (v.IFR \ flags) \cap TimerFlags
<1>1. v.IFR \ flags \in SUBSET (Interrupts \cup {"IRQ"}) BY DEF Vias
<1> QED BY <1>1, SetIFRFacts DEF ClearInterrupt

-----------------------------------------------------------------------------
(* The timers.                                                               *)

\* The facts of division that the proofs of the timers use.
LEMMA Division ==
  ASSUME NEW a \in Int, NEW b \in Int, b > 0
  PROVE  a \div b \in Int /\ a % b = a - b * (a \div b) /\ a % b \in 0..(b - 1)
<1>1. a % b = a - b * (a \div b) OBVIOUS
<1>2. a \div b \in Int /\ a % b \in 0..(b - 1) OBVIOUS
<1> QED BY <1>1, <1>2
\* Quotient and remainder are determined by their equation.
LEMMA Quotient ==
  ASSUME NEW a \in Int, NEW b \in Int, NEW q \in Int, NEW r \in Int, a = q * b + r, r >= 0, r < b
  PROVE  a \div b = q /\ a % b = r
OBVIOUS

\* A whole turn leaves the remainder as it is.
LEMMA Turned ==
  ASSUME NEW a \in Int, NEW b \in Int, b > 0
  PROVE  (a + b) % b = a % b
<1> DEFINE q == a \div b + 1
           r == a % b
           sum == a + b
<1>1. q \in Int /\ r \in Int /\ r >= 0 /\ r < b /\ sum \in Int /\ sum = q * b + r BY Division
<1> HIDE DEF q, r, sum
<1>2. sum % b = r BY <1>1, Quotient
<1> QED BY <1>2 DEF r, sum

\* The counter is wide, and the 64 bits wider.
LEMMA Widths == /\ MaxCount \in Nat /\ MaxCount >= 3 /\ MaxIdle \in Nat /\ MaxIdle >= 2
                /\ Wide \in Nat /\ 8 * MaxCount + 8 * MaxIdle < Wide
<1>1. Base \in Nat /\ Base >= 2 BY ViaAssumption
<1>2. Base * Base >= 4 /\ Base * Base \in Nat BY <1>1
<1>3. MaxCount \in Nat /\ MaxCount >= 3 BY <1>2 DEF MaxCount
<1> QED BY <1>3, ViaAssumption

\* Bringing a count up to date leaves one that is not overdue, or a count between
\* -3 and the one after a reload: in unsigned arithmetic, 64 bits wide, even for
\* the count of -3, whose difference to -4 wraps.
LEMMA RelatchedFacts ==
  ASSUME NEW raw \in Int, raw >= -(2 * MaxIdle) - 2, NEW reload \in 4..(2 * MaxCount + 4)
  PROVE  /\ raw >= -2 => Relatched(raw, reload) = raw
         /\ raw < -2 => Relatched(raw, reload) \in -3..(reload - 4)
         /\ raw < -3 => Relatched(raw, reload) = reload - 4 - ((-raw - 4) % reload)
         /\ raw = -3 /\ Wide % reload = 0 => Relatched(raw, reload) = -3
<1> DEFINE delta == (-raw - 4) % Wide
           x == raw + (delta \div reload + 1) * reload
           rest == delta % reload
<1>1. Relatched(raw, reload) = IF raw < -2 THEN Signed(x) ELSE raw BY DEF Relatched
<1> USE Widths
<1>2. ASSUME NEW y \in Int, y >= -3, y < 2 * MaxCount + 4 PROVE Signed(y) = y
  <2>1. Wide \div 2 >= 4 * MaxCount + 4 * MaxIdle /\ Wide \div 2 <= Wide - 3 OBVIOUS
  <2>2. CASE y >= 0
    <3>1. y % Wide = y BY <1>2, <2>2
    <3> QED BY <1>2, <2>1, <3>1 DEF Signed
  <2>3. CASE y < 0
    <3>1. y % Wide = y + Wide BY <1>2, <2>3, Quotient
    <3> QED BY <1>2, <2>1, <2>3, <3>1 DEF Signed
  <2> QED BY <2>2, <2>3
<1>3. ASSUME NEW y \in Int, y >= -3, y < 2 * MaxCount + 4 PROVE Signed(y + Wide) = y
  <2>1. (y + Wide) % Wide = y % Wide BY Turned
  <2> QED BY <1>2, <1>3, <2>1 DEF Signed
<1>4. CASE raw >= -2 BY <1>1, <1>4
<1>5. CASE raw < -3
  <2>1. delta = -raw - 4 /\ delta \in Nat BY <1>5
  <2> HIDE DEF delta
  <2>2. delta \div reload \in Int /\ delta % reload = delta - reload * (delta \div reload) /\ delta % reload \in 0..(reload - 1)
    BY <2>1, Division
  <2>3. x = reload - 4 - rest BY <2>1, <2>2
  <2>4. x \in -3..(reload - 4) BY <2>2, <2>3
  <2>5. Signed(x) = x BY <1>2, <2>4
  <2> QED BY <1>1, <1>5, <2>1, <2>3, <2>4, <2>5
<1>6. CASE raw = -3
  <2>1. delta = Wide - 1
    <3>1. -raw - 4 = -1 * Wide + (Wide - 1) BY <1>6
    <3> QED BY <1>6, <3>1, Quotient
  <2> HIDE DEF delta
  <2>2. delta \div reload \in Int /\ delta % reload = delta - reload * (delta \div reload) /\ delta % reload \in 0..(reload - 1)
    BY <2>1, Division
  <2>3. x = Wide - 4 - rest + reload BY <1>6, <2>1, <2>2
  <2> DEFINE y == reload - 4 - rest
  <2>4. x = y + Wide /\ y \in -3..(reload - 4) BY <2>2, <2>3
  <2>5. Signed(x) = y BY <1>3, <2>4
  <2>6. ASSUME Wide % reload = 0 PROVE rest = reload - 1
    <3>1. Wide \div reload \in Int /\ Wide = reload * (Wide \div reload) BY <2>6, Division
    <3> DEFINE q == Wide \div reload - 1
               r == reload - 1
    <3>2. delta = q * reload + r BY <2>1, <3>1
    <3>3. delta \in Int /\ q \in Int /\ r \in Int /\ r >= 0 /\ r < reload BY <2>1, <3>1
    <3> HIDE DEF q, r
    <3>4. delta % reload = r BY <3>2, <3>3, Quotient
    <3> QED BY <3>4 DEF r
  <2> QED BY <1>1, <1>6, <2>4, <2>5, <2>6
<1> QED BY <1>4, <1>5, <1>6

-----------------------------------------------------------------------------
(* What an operator that an access is made of leaves true.                   *)

\* All but the timers and whether the cycle has had its access.
ChipKept(v, w) ==
  /\ w.id = v.id /\ w.IFR = v.IFR /\ w.IER = v.IER /\ w.ACR = v.ACR /\ w.PCR = v.PCR /\ w.irq = v.irq
  /\ LinesKept(v, w) /\ PortKept(v, w) /\ w.half = v.half
  /\ w.ORA = v.ORA /\ w.DDRA = v.DDRA /\ w.autoscan = v.autoscan /\ w.keys = v.keys
Keeps(v, w) ==
  /\ Sound(w) /\ w.id = v.id /\ w.half = v.half /\ w.CB1 = v.CB1 /\ w.PCR = v.PCR
  /\ Missed(w) => Missed(v)
\* What two updates in turn keep, both together keep.
LEMMA KeepsOn == ASSUME NEW u, NEW v, NEW w, Keeps(u, v), Keeps(v, w) PROVE Keeps(u, w)
BY DEF Keeps
\* A sound struct is a struct.
LEMMA SoundTypes == ASSUME NEW v, Sound(v) PROVE v \in Vias
BY DEF Sound

\* An operator on the timers or latches alone.
LEMMA TimersOnly ==
  ASSUME NEW v, NEW w \in Vias, Sound(v), ChipKept(v, w), TimersOK(w)
  PROVE  Keeps(v, w)
<1>1. IrqOK(w) BY DEF ChipKept, Sound, IrqOK
<1>2. BusOK(w) BY DEF ChipKept, LinesKept, PortKept, Sound, BusOK, BusValue, Selected, KeyDown
<1>3. PcrOK(w) BY DEF ChipKept, Sound, PcrOK
<1>4. Missed(w) => Missed(v) BY DEF ChipKept, Missed
<1> QED BY <1>1, <1>2, <1>3, <1>4 DEF Keeps, Sound, ChipKept, LinesKept

\* via_clear_interrupt keeps it.
LEMMA ClearKeeps ==
  ASSUME NEW v, Sound(v), NEW flags
  PROVE  Keeps(v, ClearInterrupt(v, flags))
<1> DEFINE w == ClearInterrupt(v, flags)
<1>1. /\ w \in Vias /\ IrqOK(w) /\ RestKept(v, w) /\ w.CB1 = v.CB1
      /\ (BusOK(v) => BusOK(w)) /\ (~Missed(v) => ~Missed(w))
  BY SoundTypes, ClearInterruptFacts
<1> HIDE DEF w
<1>2. TimersOK(w) BY <1>1 DEF Sound, TimersOK, RestKept, Pulses
<1>3. PcrOK(w) BY <1>1 DEF Sound, PcrOK, RestKept
<1> QED BY <1>1, <1>2, <1>3 DEF Keeps, Sound, RestKept, w

\* The latches hold 16 bits.
LEMMA LatchRange ==
  ASSUME NEW v \in Vias
  PROVE  Latch1(v) \in 0..MaxCount /\ Latch2(v) \in 0..MaxCount
<1>1. ASSUME NEW l \in Latches PROVE l.high * Base + l.low \in 0..MaxCount
  <2>1. l.high \in 0..(Base - 1) /\ l.low \in 0..(Base - 1) /\ Base \in Nat BY <1>1, ViaAssumption DEF Latches
  <2>2. l.high * Base \in Nat /\ l.high * Base <= (Base - 1) * Base BY <2>1
  <2>3. (Base - 1) * Base = Base * Base - Base /\ Base * Base \in Nat BY <2>1
  <2> QED BY <2>1, <2>2, <2>3 DEF MaxCount
<1>2. v.T1L \in Latches /\ v.T2L \in Latches BY DEF Vias
<1> QED BY <1>1, <1>2 DEF Latch1, Latch2

\* A latch byte is written.
LEMMA LatchesKeep ==
  ASSUME NEW v, Sound(v), NEW byte \in 0..(Base - 1)
  PROVE  /\ Keeps(v, [v EXCEPT !.T1L.low = byte]) /\ Keeps(v, [v EXCEPT !.T1L.high = byte])
         /\ Keeps(v, [v EXCEPT !.T2L.low = byte]) /\ Keeps(v, [v EXCEPT !.T2L.high = byte])
<1>1. ASSUME NEW l \in Latches, NEW w, w = [v EXCEPT !.T1L = l] \/ w = [v EXCEPT !.T2L = l] PROVE Keeps(v, w)
  <2>1. w \in Vias BY <1>1, SoundTypes DEF Vias
  <2>2. ChipKept(v, w) /\ w.t1 = v.t1 /\ w.t2 = v.t2 BY <1>1, SoundTypes DEF Vias, ChipKept, LinesKept, PortKept
  <2>3. TimersOK(w) BY <2>2 DEF Sound, TimersOK, ChipKept, Pulses
  <2> QED BY <2>1, <2>2, <2>3, TimersOnly
<1>2. v.T1L \in Latches /\ v.T2L \in Latches BY SoundTypes DEF Vias
<1>3. /\ [v.T1L EXCEPT !.low = byte] \in Latches /\ [v.T1L EXCEPT !.high = byte] \in Latches
      /\ [v.T2L EXCEPT !.low = byte] \in Latches /\ [v.T2L EXCEPT !.high = byte] \in Latches
  BY <1>2 DEF Latches
<1>4. /\ [v EXCEPT !.T1L.low = byte] = [v EXCEPT !.T1L = [v.T1L EXCEPT !.low = byte]]
      /\ [v EXCEPT !.T1L.high = byte] = [v EXCEPT !.T1L = [v.T1L EXCEPT !.high = byte]]
      /\ [v EXCEPT !.T2L.low = byte] = [v EXCEPT !.T2L = [v.T2L EXCEPT !.low = byte]]
      /\ [v EXCEPT !.T2L.high = byte] = [v EXCEPT !.T2L = [v.T2L EXCEPT !.high = byte]]
  OBVIOUS
<1> QED BY <1>1, <1>3, <1>4

\* A timer gets another value, and one that is to fire a positive even one.
LEMMA Timer1Keeps ==
  ASSUME NEW v, Sound(v), NEW t \in Timer1s, Span(t.value), t.firing => t.value >= 2 /\ Even(t.value)
  PROVE  Keeps(v, [v EXCEPT !.t1 = t])
<1> DEFINE w == [v EXCEPT !.t1 = t]
<1>1. w \in Vias BY SoundTypes DEF Vias
<1>2. ChipKept(v, w) /\ w.t1 = t /\ w.t2 = v.t2 BY SoundTypes DEF Vias, ChipKept, LinesKept, PortKept
<1> HIDE DEF w
<1>3. TimersOK(w) BY <1>2 DEF Sound, TimersOK, ChipKept, Pulses
<1> QED BY <1>1, <1>2, <1>3, TimersOnly DEF w
\* Setting timer 2 keeps it, if the timer fires on a whole count only.
LEMMA Timer2Keeps ==
  ASSUME NEW v, Sound(v), NEW t \in Timer2s, Span(t.value), t.ticking = v.t2.ticking,
         t.firing => t.value >= 0 /\ Even(t.value) /\ (t.ticking => t.value >= 2),
         ~t.ticking => t.value <= 2 * MaxCount + 2
  PROVE  Keeps(v, [v EXCEPT !.t2 = t])
<1> DEFINE w == [v EXCEPT !.t2 = t]
<1>1. w \in Vias BY SoundTypes DEF Vias
<1>2. ChipKept(v, w) /\ w.t2 = t /\ w.t1 = v.t1 BY SoundTypes DEF Vias, ChipKept, LinesKept, PortKept
<1> HIDE DEF w
<1>3. TimersOK(w) BY <1>2 DEF Sound, TimersOK, ChipKept, Pulses
<1> QED BY <1>1, <1>2, <1>3, TimersOnly DEF w

\* A count that is brought up to date stays as it is while it is not overdue.
LEMMA Raw1Facts ==
  ASSUME NEW v, Sound(v)
  PROVE  /\ Raw1(v) \in Int /\ Raw1(v) >= -3 /\ Raw1(v) <= 2 * MaxCount + 2
         /\ v.t1.value >= 0 => Raw1(v) = v.t1.value - 2
         /\ v.t1.value < 0 => Raw1(v) <= 2 * Latch1(v)
<1>1. v.t1.value \in Int /\ Span(v.t1.value) BY SoundTypes DEF Vias, Timer1s, Sound, TimersOK
<1>2. Latch1(v) \in 0..MaxCount BY SoundTypes, LatchRange
<1> DEFINE raw == v.t1.value - 2
           reload == 2 * (Latch1(v) + 2)
<1>3. raw \in Int /\ raw >= -(2 * MaxIdle) - 2 /\ raw <= 2 * MaxCount + 2 BY <1>1, Widths DEF Span
<1>4. reload \in 4..(2 * MaxCount + 4) /\ reload = 2 * Latch1(v) + 4 BY <1>2, Widths
<1>5. Raw1(v) = Relatched(raw, reload) BY DEF Raw1
<1>6. raw >= -2 <=> v.t1.value >= 0 BY <1>1
<1> HIDE DEF raw, reload
<1>7. (raw >= -2 => Raw1(v) = raw) /\ (raw < -2 => Raw1(v) \in -3..(reload - 4)) BY <1>3, <1>4, <1>5, RelatchedFacts
<1> QED BY <1>1, <1>2, <1>3, <1>4, <1>6, <1>7, Widths DEF raw
\* What via_get_t2c_raw gives: the timer's own value, or one relatched if it passed 0.
LEMMA Raw2Facts ==
  ASSUME NEW v, Sound(v)
  PROVE  /\ Raw2(v) \in Int /\ Raw2(v) >= -3 /\ Raw2(v) <= 2 * MaxCount + 2
         /\ v.t2.value >= 0 => Raw2(v) = v.t2.value - 2
         /\ v.t2.value < 0 => Raw2(v) <= 2 * MaxCount - 2
<1>1. v.t2.value \in Int /\ Span(v.t2.value) BY SoundTypes DEF Vias, Timer2s, Sound, TimersOK
<1> DEFINE raw == v.t2.value - 2
           reload == 2 * (MaxCount + 1)
<1>3. raw \in Int /\ raw >= -(2 * MaxIdle) - 2 /\ raw <= 2 * MaxCount + 2 BY <1>1, Widths DEF Span
<1>4. reload \in 4..(2 * MaxCount + 4) /\ reload = 2 * MaxCount + 2 BY Widths
<1>5. Raw2(v) = Relatched(raw, reload) BY DEF Raw2
<1>6. raw >= -2 <=> v.t2.value >= 0 BY <1>1
<1> HIDE DEF raw, reload
<1>7. (raw >= -2 => Raw2(v) = raw) /\ (raw < -2 => Raw2(v) \in -3..(reload - 4)) BY <1>3, <1>4, <1>5, RelatchedFacts
<1> QED BY <1>1, <1>3, <1>4, <1>6, <1>7, Widths DEF raw

\* via_get_t1c, relatching when the count has passed 0, keeps it.
LEMMA GetT1Keeps ==
  ASSUME NEW v, Sound(v)
  PROVE  Keeps(v, GetT1(v))
<1> DEFINE t == [v.t1 EXCEPT !.value = Raw1(v) + 2]
<1>1. GetT1(v) = [v EXCEPT !.t1 = t] BY DEF GetT1
<1>2. v.t1 \in Timer1s BY SoundTypes DEF Vias
<1>3. t \in Timer1s /\ t.value = Raw1(v) + 2 /\ t.firing = v.t1.firing BY <1>2, Raw1Facts DEF Timer1s
<1>4. Span(t.value) BY <1>3, Raw1Facts, Widths DEF Span
<1>5. t.firing => t.value >= 2 /\ Even(t.value)
  <2> SUFFICES ASSUME t.firing PROVE t.value >= 2 /\ Even(t.value) OBVIOUS
  <2>1. v.t1.value \in Int /\ v.t1.value >= 2 /\ Even(v.t1.value) BY <1>2, <1>3 DEF Timer1s, Sound, TimersOK
  <2>2. t.value = v.t1.value BY <1>3, <2>1, Raw1Facts
  <2> QED BY <2>1, <2>2
<1> HIDE DEF t
<1> QED BY <1>1, <1>3, <1>4, <1>5, Timer1Keeps
\* via_get_t2c, in the same way, keeps it.
LEMMA GetT2Keeps ==
  ASSUME NEW v, Sound(v)
  PROVE  Keeps(v, GetT2(v))
<1> DEFINE t == [v.t2 EXCEPT !.value = Raw2(v) + 2]
<1>1. GetT2(v) = [v EXCEPT !.t2 = t] BY DEF GetT2
<1>2. v.t2 \in Timer2s BY SoundTypes DEF Vias
<1>3. t \in Timer2s /\ t.value = Raw2(v) + 2 /\ t.firing = v.t2.firing /\ t.ticking = v.t2.ticking BY <1>2, Raw2Facts DEF Timer2s
<1>4. Span(t.value) BY <1>3, Raw2Facts, Widths DEF Span
<1>5. v.t2.value \in Int /\ (v.t2.value >= 0 => t.value = v.t2.value) /\ (v.t2.value < 0 => t.value <= 2 * MaxCount)
  BY <1>2, <1>3, Raw2Facts, Widths DEF Timer2s
<1>6. t.firing => t.value >= 0 /\ Even(t.value) /\ (t.ticking => t.value >= 2) BY <1>3, <1>5 DEF Sound, TimersOK
<1> HIDE DEF t
<1>7. ~t.ticking => t.value <= 2 * MaxCount + 2
  <2> SUFFICES ASSUME ~t.ticking PROVE t.value <= 2 * MaxCount + 2 OBVIOUS
  <2>1. ~v.t2.ticking BY <1>3, Zenon
  <2>2. v.t2.value <= 2 * MaxCount + 2 BY <2>1 DEF Sound, TimersOK
  <2>3. t.value \in Int BY <1>3 DEF Timer2s
  <2> QED BY <1>5, <2>2, <2>3, Widths
<1> QED BY <1>1, <1>3, <1>4, <1>6, <1>7, Timer2Keeps

\* A load of timer 1 leaves an even count to come, and makes it fire or not.
LEMMA LoadT1Keeps ==
  ASSUME NEW v, Sound(v)
  PROVE  /\ Keeps(v, LoadT1(v)) /\ Keeps(v, [LoadT1(v) EXCEPT !.t1.firing = TRUE, !.pb7 = FALSE])
         /\ Keeps(v, Reloaded(v))
<1> DEFINE t == [v.t1 EXCEPT !.value = 2 * (Latch1(v) + 1) + 2]
           f == [t EXCEPT !.firing = TRUE]
           w == [v EXCEPT !.t1 = f]
           x == [w EXCEPT !.pb7 = FALSE]
<1>1. LoadT1(v) = [v EXCEPT !.t1 = t] BY DEF LoadT1, SetCount
<1>2. v.t1 \in Timer1s /\ Latch1(v) \in 0..MaxCount BY SoundTypes, LatchRange DEF Vias
<1>3. t \in Timer1s /\ f \in Timer1s /\ t.value = 2 * Latch1(v) + 4 /\ f.value = t.value
  <2>1. Latch1(v) \in Int BY <1>2, Widths
  <2>2. 2 * (Latch1(v) + 1) + 2 \in Int /\ 2 * (Latch1(v) + 1) + 2 = 2 * Latch1(v) + 4 BY <2>1
  <2>3. t \in Timer1s /\ t.value = 2 * Latch1(v) + 4 BY <1>2, <2>2 DEF Timer1s
  <2> HIDE DEF t
  <2>4. f \in Timer1s /\ f.value = t.value BY <2>3 DEF Timer1s
  <2> QED BY <2>3, <2>4
<1>4. Span(t.value) /\ t.value >= 2 /\ Even(t.value) BY <1>2, <1>3, Widths DEF Span, Even
<1>5. [LoadT1(v) EXCEPT !.t1.firing = TRUE, !.pb7 = FALSE] = x BY <1>1, <1>2, SoundTypes DEF Vias
<1> HIDE DEF t, f
<1>6. Keeps(v, LoadT1(v)) BY <1>1, <1>3, <1>4, Timer1Keeps
<1>7. Keeps(v, w) BY <1>3, <1>4, Timer1Keeps
<1> HIDE DEF w
<1>8. Sound(w) BY <1>7 DEF Keeps
<1>9. x \in Vias
  <2>1. w \in Vias BY <1>8, SoundTypes
  <2> QED BY <2>1 DEF Vias
<1>10. ChipKept(w, x) /\ x.t1 = w.t1 /\ x.t2 = w.t2 BY <1>8, SoundTypes DEF Vias, ChipKept, LinesKept, PortKept
<1>11. TimersOK(x) BY <1>8, <1>10 DEF Sound, TimersOK, ChipKept, Pulses
<1>12. Keeps(w, x) BY <1>8, <1>9, <1>10, <1>11, TimersOnly
<1>13. Keeps(v, x) BY <1>7, <1>12, KeepsOn
<1>14. Keeps(v, v) BY DEF Keeps
<1> QED BY <1>5, <1>6, <1>13, <1>14 DEF Reloaded

\* An operator on the lines and the port.
LEMMA RaisesKeeps ==
  ASSUME NEW v, NEW w, Sound(v), Raises(v, w), BusOK(w), w.CB1 = v.CB1, Missed(w) => Missed(v)
  PROVE  Keeps(v, w)
<1>1. IrqOK(w) /\ w \in Vias /\ RestKept(v, w) BY DEF Raises, Sound
<1>2. TimersOK(w) BY <1>1 DEF Sound, TimersOK, RestKept, Pulses
<1>3. PcrOK(w) BY <1>1 DEF Sound, PcrOK, RestKept
<1> QED BY <1>1, <1>2, <1>3 DEF Keeps, Sound, RestKept

\* A vertical sync moves CA1 alone.
LEMMA SetCA1Keeps ==
  ASSUME NEW v, Sound(v), NEW level \in BOOLEAN
  PROVE  Keeps(v, SetCA1(v, level))
<1> DEFINE w == SetCA1(v, level)
<1>1. Raises(v, w) /\ w.CA2 = v.CA2 /\ w.CB1 = v.CB1 /\ PortKept(v, w) BY SoundTypes, SetCA1Facts
<1> HIDE DEF w
<1>2. RestKept(v, w) BY <1>1 DEF Raises
<1>3. BusOK(w)
  <2>1. BusValue(w) = BusValue(v) /\ (KeyDown(w) <=> KeyDown(v)) BY <1>2, BusValueKept
  <2> QED BY <1>1, <1>2, <2>1 DEF Sound, BusOK, RestKept, PortKept
<1>4. Missed(w) => Missed(v) BY <1>1, <1>2 DEF Missed, RestKept, Raises
<1> QED BY <1>1, <1>3, <1>4, RaisesKeeps DEF w

\* The access is noted.
LEMMA FreeKeeps ==
  ASSUME NEW v, Sound(v), NEW free \in BOOLEAN
  PROVE  Keeps(v, [v EXCEPT !.free = free])
<1> DEFINE w == [v EXCEPT !.free = free]
<1>1. w \in Vias BY SoundTypes DEF Vias
<1>2. ChipKept(v, w) /\ w.t1 = v.t1 /\ w.t2 = v.t2 BY SoundTypes DEF Vias, ChipKept, LinesKept, PortKept
<1> HIDE DEF w
<1>3. TimersOK(w) BY <1>2 DEF Sound, TimersOK, ChipKept, Pulses
<1> QED BY <1>1, <1>2, <1>3, TimersOnly DEF w

\* Timer 2 is loaded, one more while it counts, and made to fire.
LEMMA LoadT2Keeps ==
  ASSUME NEW v, Sound(v)
  PROVE  LET count == IF Pulses(v) THEN Latch2(v) ELSE Latch2(v) + 1
         IN  Keeps(v, [v EXCEPT !.t2 = [SetCount(@, count) EXCEPT !.firing = TRUE]])
<1> DEFINE count == IF Pulses(v) THEN Latch2(v) ELSE Latch2(v) + 1
           t == [v.t2 EXCEPT !.value = 2 * count + 2]
           f == [t EXCEPT !.firing = TRUE]
<1>1. [v EXCEPT !.t2 = [SetCount(@, count) EXCEPT !.firing = TRUE]] = [v EXCEPT !.t2 = f] BY DEF SetCount
<1>2. v.t2 \in Timer2s /\ Latch2(v) \in 0..MaxCount BY SoundTypes, LatchRange DEF Vias
<1>3. count \in Int /\ count >= 0 /\ count <= MaxCount + 1 /\ (Pulses(v) => count <= MaxCount) BY <1>2, Widths
<1> HIDE DEF count
<1>4. 2 * count + 2 \in Int /\ Even(2 * count + 2) BY <1>3 DEF Even
<1>5. t \in Timer2s /\ t.value = 2 * count + 2 /\ t.ticking = v.t2.ticking BY <1>2, <1>4 DEF Timer2s
<1> HIDE DEF t
<1>6. f \in Timer2s /\ f.value = 2 * count + 2 /\ f.ticking = v.t2.ticking BY <1>5 DEF Timer2s
<1> HIDE DEF f
<1>7. Span(f.value) BY <1>3, <1>6, Widths DEF Span
<1>8. f.value >= 2 /\ Even(f.value) BY <1>3, <1>4, <1>6
<1>9. ~f.ticking => f.value <= 2 * MaxCount + 2
  <2> SUFFICES ASSUME ~f.ticking PROVE f.value <= 2 * MaxCount + 2 OBVIOUS
  <2>1. ~v.t2.ticking BY <1>6, Zenon
  <2>2. v.t2.ticking # Pulses(v) BY DEF Sound, TimersOK
  <2>3. Pulses(v) \in BOOLEAN BY DEF Pulses
  <2>4. v.t2.ticking \in BOOLEAN BY <1>2 DEF Timer2s
  <2>5. Pulses(v) BY <2>1, <2>2, <2>3, <2>4, Zenon
  <2> QED BY <1>3, <1>6, <2>5, Widths
<1>10. Keeps(v, [v EXCEPT !.t2 = f])
  <2>1. f.firing => f.value >= 0 /\ Even(f.value) /\ (f.ticking => f.value >= 2) BY <1>3, <1>6, <1>8
  <2> QED BY <1>6, <1>7, <1>9, <2>1, Timer2Keeps, Zenon
<1> QED BY <1>1, <1>10 DEF count

\* The flags that interrupt are chosen.
LEMMA EnableKeeps ==
  ASSUME NEW v, Sound(v), NEW enabled \in SUBSET Interrupts
  PROVE  Keeps(v, CheckInterrupt([v EXCEPT !.IER = enabled]))
<1> DEFINE u == [v EXCEPT !.IER = enabled]
           w == CheckInterrupt(u)
<1>1. u \in Vias BY SoundTypes DEF Vias
<1>2. /\ u.id = v.id /\ u.PCR = v.PCR /\ u.ACR = v.ACR /\ u.half = v.half /\ u.t1 = v.t1 /\ u.t2 = v.t2
      /\ u.IFR = v.IFR /\ u.autoscan = v.autoscan /\ u.keys = v.keys /\ u.ORA = v.ORA /\ u.DDRA = v.DDRA
      /\ LinesKept(v, u) /\ PortKept(v, u)
  BY SoundTypes DEF Vias, LinesKept, PortKept
<1> HIDE DEF u
<1>3. /\ w \in Vias /\ IrqOK(w) /\ RestKept(u, w) /\ LinesKept(u, w) /\ PortKept(u, w)
      /\ w.IFR \ {"IRQ"} = u.IFR \ {"IRQ"}
  BY <1>1, CheckInterruptFacts
<1> HIDE DEF w
<1>4. BusOK(w) BY <1>2, <1>3 DEF Sound, BusOK, BusValue, Selected, KeyDown, RestKept, LinesKept, PortKept
<1>5. TimersOK(w) BY <1>2, <1>3 DEF Sound, TimersOK, RestKept, Pulses
<1>6. PcrOK(w) BY <1>2, <1>3 DEF Sound, PcrOK, RestKept
<1>7. Missed(w) => Missed(v) BY <1>2, <1>3 DEF Missed, RestKept
<1> QED BY <1>2, <1>3, <1>4, <1>5, <1>6, <1>7 DEF Keeps, Sound, RestKept, LinesKept, w, u

\* A struct that lacks only a current port, and what working it out again makes of
\* it: nothing is missed, whatever was selected, scanned or pressed.
Ported(v, u) ==
  /\ u \in Vias /\ IrqOK(u) /\ u.id = v.id /\ u.PCR = v.PCR /\ u.CB1 = v.CB1
  /\ u.ACR = v.ACR /\ u.t1 = v.t1 /\ u.t2 = v.t2 /\ u.half = v.half
\* Updating port A keeps it, whatever was written to the port before.
LEMMA PortAKeeps ==
  ASSUME NEW v, NEW u, Sound(v), Ported(v, u)
  PROVE  Keeps(v, UpdatePortA(u))
<1> DEFINE w == UpdatePortA(u)
<1>1. Raises(u, w) /\ BusOK(w) /\ w.CB1 = u.CB1 /\ ~Missed(w) BY UpdatePortAFacts DEF Ported
<1> HIDE DEF w
<1>2. w \in Vias /\ IrqOK(w) /\ RestKept(u, w) BY <1>1 DEF Raises, Ported
<1>3. TimersOK(w) BY <1>2 DEF Sound, TimersOK, RestKept, Pulses, Ported
<1>4. PcrOK(w) BY <1>2 DEF Sound, PcrOK, RestKept, Ported
<1> QED BY <1>1, <1>2, <1>3, <1>4 DEF Keeps, Sound, RestKept, Ported, w

\* Updating port B keeps it.
LEMMA PortBKeeps ==
  ASSUME NEW v, Sound(v)
  PROVE  Keeps(v, UpdatePortB(v))
<1> DEFINE w == UpdatePortB(v)
<1>1. /\ w \in Vias /\ Frame(v, w) /\ (IrqOK(v) => IrqOK(w)) /\ (v.id = "system" => BusOK(w) /\ ~Missed(w))
      /\ v.id = "user" => w = v
  BY SoundTypes, UpdatePortBFacts
<1> HIDE DEF w
<1>2. v.id \in {"system", "user"} BY SoundTypes DEF Vias
<1>3. CASE v.id = "user"
  <2>1. Keeps(v, v) BY DEF Keeps
  <2> QED BY <1>1, <1>3, <2>1 DEF w
<1>4. CASE v.id = "system"
  <2>1. TimersOK(w) BY <1>1 DEF Sound, TimersOK, Frame, Pulses
  <2>2. PcrOK(w) BY <1>1 DEF Sound, PcrOK, Frame
  <2> QED BY <1>1, <1>4, <2>1, <2>2 DEF Keeps, Sound, Frame, w
<1> QED BY <1>2, <1>3, <1>4

\* What is written to port B or its directions; it counts when the port is worked out.
LEMMA PortBWrites ==
  ASSUME NEW v, Sound(v), NEW bits \in SUBSET (0..3)
  PROVE  Keeps(v, [v EXCEPT !.ORB = bits]) /\ Keeps(v, [v EXCEPT !.DDRB = bits])
<1>1. ASSUME NEW w, w = [v EXCEPT !.ORB = bits] \/ w = [v EXCEPT !.DDRB = bits] PROVE Keeps(v, w)
  <2>1. w \in Vias BY <1>1, SoundTypes DEF Vias
  <2>2. ChipKept(v, w) /\ w.t1 = v.t1 /\ w.t2 = v.t2 BY <1>1, SoundTypes DEF Vias, ChipKept, LinesKept, PortKept
  <2>3. TimersOK(w) BY <2>2 DEF Sound, TimersOK, ChipKept, Pulses
  <2> QED BY <2>1, <2>2, <2>3, TimersOnly
<1> QED BY <1>1

\* What is written to port A or its direction, or pressed on the keyboard.
LEMMA PortAWrites ==
  ASSUME NEW v, Sound(v)
  PROVE  /\ \A column \in Columns \cup {NoColumn} : Ported(v, [v EXCEPT !.ORA = column])
         /\ \A output \in BOOLEAN : Ported(v, [v EXCEPT !.DDRA = output])
         /\ \A keys \in SUBSET Columns : Ported(v, [v EXCEPT !.keys = keys])
<1>1. ASSUME NEW w, NEW column \in Columns \cup {NoColumn}, NEW output \in BOOLEAN, NEW keys \in SUBSET Columns,
             w = [v EXCEPT !.ORA = column] \/ w = [v EXCEPT !.DDRA = output] \/ w = [v EXCEPT !.keys = keys]
      PROVE  Ported(v, w)
  <2>1. w \in Vias BY <1>1, SoundTypes DEF Vias
  <2>2. /\ w.id = v.id /\ w.PCR = v.PCR /\ w.CB1 = v.CB1 /\ w.ACR = v.ACR /\ w.t1 = v.t1 /\ w.t2 = v.t2
        /\ w.half = v.half /\ w.IFR = v.IFR /\ w.IER = v.IER /\ w.irq = v.irq
    BY <1>1, SoundTypes DEF Vias
  <2>3. IrqOK(w) BY <2>2 DEF Sound, IrqOK
  <2> QED BY <2>1, <2>2, <2>3 DEF Ported
<1> QED BY <1>1

\* The register of flags is written.
LEMMA SetIFRKeeps ==
  ASSUME NEW v, Sound(v), NEW flags \in SUBSET (Interrupts \cup {"IRQ"})
  PROVE  Keeps(v, SetIFR(v, flags))
<1> DEFINE w == SetIFR(v, flags)
<1>1. /\ w \in Vias /\ IrqOK(w) /\ RestKept(v, w) /\ w.CB1 = v.CB1
      /\ (BusOK(v) => BusOK(w)) /\ (~Missed(v) => ~Missed(w))
  BY SoundTypes, SetIFRFacts
<1> HIDE DEF w
<1>2. TimersOK(w) BY <1>1 DEF Sound, TimersOK, RestKept, Pulses
<1>3. PcrOK(w) BY <1>1 DEF Sound, PcrOK, RestKept
<1> QED BY <1>1, <1>2, <1>3 DEF Keeps, Sound, RestKept, w

\* A conversion starts or ends.
LEMMA SetCB1Keeps ==
  ASSUME NEW v, Sound(v), NEW level \in BOOLEAN
  PROVE  LET w == SetCB1(v, level)
         IN  Sound(w) /\ w.id = v.id /\ w.half = v.half /\ w.PCR = v.PCR /\ w.CB1 = level /\ (Missed(w) => Missed(v))
<1> DEFINE w == SetCB1(v, level)
<1>1. Raises(v, w) /\ w.CB1 = level /\ w.CA1 = v.CA1 /\ w.CA2 = v.CA2 /\ PortKept(v, w) BY SoundTypes, SetCB1Facts
<1> HIDE DEF w
<1>2. RestKept(v, w) /\ w \in Vias /\ IrqOK(w) BY <1>1 DEF Raises, Sound
<1>3. BusOK(w)
  <2>1. BusValue(w) = BusValue(v) /\ (KeyDown(w) <=> KeyDown(v)) BY <1>2, BusValueKept
  <2> QED BY <1>1, <1>2, <2>1 DEF Sound, BusOK, RestKept, PortKept
<1>4. Missed(w) => Missed(v) BY <1>1, <1>2 DEF Missed, RestKept, Raises
<1>5. TimersOK(w) BY <1>2 DEF Sound, TimersOK, RestKept, Pulses
<1>6. PcrOK(w) BY <1>2 DEF Sound, PcrOK, RestKept
<1> QED BY <1>1, <1>2, <1>3, <1>4, <1>5, <1>6 DEF Sound, RestKept, w

\* The edges that are looked for are chosen, and on the user VIA the level of CA2.
LEMMA PcrKeeps ==
  ASSUME NEW v, Sound(v), NEW pcr \in Pcrs, v.id = "system" => pcr.CA2 \in Edges
  PROVE  LET u == [v EXCEPT !.PCR = pcr]
             w == CASE pcr.CA2 = "low" -> SetCA2(u, FALSE) [] pcr.CA2 = "high" -> SetCA2(u, TRUE) [] OTHER -> u
         IN  /\ Sound(w) /\ w.id = v.id /\ w.half = v.half /\ w.CB1 = v.CB1
             /\ Missed(w) => Missed(v) \/ w.PCR # v.PCR
<1> DEFINE u == [v EXCEPT !.PCR = pcr]
           w == CASE pcr.CA2 = "low" -> SetCA2(u, FALSE) [] pcr.CA2 = "high" -> SetCA2(u, TRUE) [] OTHER -> u
<1>1. u \in Vias BY SoundTypes DEF Vias
<1>2. /\ u.id = v.id /\ u.half = v.half /\ u.PCR = pcr /\ u.ACR = v.ACR /\ u.t1 = v.t1 /\ u.t2 = v.t2
      /\ u.IFR = v.IFR /\ u.IER = v.IER /\ u.irq = v.irq /\ u.autoscan = v.autoscan /\ u.keys = v.keys
      /\ u.ORA = v.ORA /\ u.DDRA = v.DDRA /\ LinesKept(v, u) /\ PortKept(v, u)
  BY SoundTypes DEF Vias, LinesKept, PortKept
<1> HIDE DEF u
<1>3. IrqOK(u) /\ PcrOK(u) BY <1>2 DEF Sound, IrqOK, PcrOK
<1>4. BusOK(u) BY <1>2 DEF Sound, BusOK, BusValue, Selected, KeyDown, LinesKept, PortKept
<1>5. TimersOK(u) BY <1>2 DEF Sound, TimersOK, Pulses
<1>6. Missed(u) => Missed(v) \/ u.PCR # v.PCR BY <1>2 DEF Missed
<1>7. CASE w = u BY <1>1, <1>2, <1>3, <1>4, <1>5, <1>6, <1>7 DEF Sound, LinesKept, u
<1>8. CASE pcr.CA2 \in {"low", "high"}
  <2>1. v.id = "user" BY <1>8, SoundTypes DEF Edges, Vias
  <2>2. PICK level \in BOOLEAN : w = SetCA2(u, level) BY <1>8
  <2>3. Raises(u, w) /\ w.CB1 = u.CB1 /\ PortKept(u, w) BY <1>1, <2>2, SetCA2Facts
  <2> HIDE DEF w
  <2>4. w \in Vias /\ IrqOK(w) /\ RestKept(u, w) BY <1>3, <2>3 DEF Raises
  <2>5. BusOK(w)
    <3>1. BusValue(w) = BusValue(u) BY <2>4, BusValueKept
    <3> QED BY <1>2, <1>4, <2>1, <2>3, <2>4, <3>1 DEF BusOK, RestKept, PortKept
  <2>6. TimersOK(w) BY <1>5, <2>4 DEF TimersOK, RestKept, Pulses
  <2>7. PcrOK(w) BY <1>2, <2>1, <2>4 DEF PcrOK, RestKept
  <2>8. ~Missed(w) BY <1>2, <2>1, <2>4 DEF Missed, RestKept
  <2> QED BY <1>2, <2>3, <2>4, <2>5, <2>6, <2>7, <2>8 DEF Sound, RestKept, LinesKept, w, u
<1>9. pcr.CA2 \notin {"low", "high"} => w = u OBVIOUS
<1> QED BY <1>7, <1>8, <1>9

\* An expiry: the chip but for its flags, its timers and what they show.
Expires(v, w) ==
  /\ w.id = v.id /\ w.IER = v.IER /\ w.ACR = v.ACR /\ w.PCR = v.PCR /\ LinesKept(v, w) /\ PortKept(v, w)
  /\ w.ORA = v.ORA /\ w.DDRA = v.DDRA /\ w.autoscan = v.autoscan /\ w.keys = v.keys /\ w.half = v.half
  /\ w.T1L = v.T1L /\ w.T2L = v.T2L
\* One expiry after another is an expiry.
LEMMA ExpiresOn == ASSUME NEW u, NEW v, NEW w, Expires(u, v), Expires(v, w) PROVE Expires(u, w)
BY DEF Expires, LinesKept, PortKept
\* An expiry leaves the bus as it is.
LEMMA BusStays ==
  ASSUME NEW v, NEW w, Expires(v, w), BusOK(v)
  PROVE  BusOK(w)
BY DEF Expires, LinesKept, PortKept, BusOK, BusValue, Selected, KeyDown

\* via_t1_fired: the flag is up, the timer has fired, PB7 is inverted, and the timer
\* is started again or put out.
LEMMA FireT1Facts ==
  ASSUME NEW v \in Vias
  PROVE  LET w == FireT1(v)
         IN  /\ w \in Vias /\ IrqOK(w) /\ Expires(v, w) /\ w.t2 = v.t2 /\ w.pb7 = ~v.pb7
             /\ w.IFR \ {"IRQ"} = (v.IFR \cup {"T1"}) \ {"IRQ"}
             /\ w.t1.fired = TRUE
             /\ w.t1.firing = IF Continuous(v) THEN v.t1.firing ELSE FALSE
             /\ w.t1.value = IF Continuous(v) THEN v.t1.value + 2 * (Latch1(v) + 2) ELSE v.t1.value
<1> DEFINE r == RaiseInterrupt(v, "T1")
           f == [v.t1 EXCEPT !.fired = TRUE]
           u == [[r EXCEPT !.t1 = f] EXCEPT !.pb7 = ~v.pb7]
           t == IF Continuous(v) THEN [f EXCEPT !.value = v.t1.value + 2 * (Latch1(v) + 2)] ELSE [f EXCEPT !.firing = FALSE]
           w == [u EXCEPT !.t1 = t]
<1>1. /\ r \in Vias /\ IrqOK(r) /\ RestKept(v, r) /\ LinesKept(v, r) /\ PortKept(v, r)
      /\ r.IFR \ {"IRQ"} = (v.IFR \cup {"T1"}) \ {"IRQ"}
  BY RaiseInterruptFacts DEF Interrupts
<1>2. v.t1 \in Timer1s /\ Latch1(v) \in Int /\ v.pb7 \in BOOLEAN BY LatchRange, Widths DEF Vias
<1>3. FireT1(v) = w
  <2>1. r.t1 = v.t1 /\ r.pb7 = v.pb7 BY <1>1 DEF RestKept
  <2> DEFINE x == [r EXCEPT !.t1.fired = TRUE, !.pb7 = ~@]
  <2>5. FireT1(v) = IF Continuous(v) THEN [x EXCEPT !.t1.value = @ + 2 * (Latch1(v) + 2)] ELSE [x EXCEPT !.t1.firing = FALSE]
    BY DEF FireT1
  <2> HIDE DEF r
  <2>2. r \in Vias BY <1>1
  <2>3. x = u BY <2>1, <2>2 DEF Vias
  <2>4. u.t1 = f BY <2>2 DEF Vias
  <2>6. f.value = v.t1.value BY <1>2 DEF Timer1s
  <2> HIDE DEF u, f, x
  <2> QED BY <2>3, <2>4, <2>5, <2>6
<1>4. f \in Timer1s /\ f.value = v.t1.value /\ f.firing = v.t1.firing /\ f.fired = TRUE BY <1>2 DEF Timer1s
<1> HIDE DEF f
<1>5. /\ t \in Timer1s /\ t.fired = TRUE /\ t.firing = (IF Continuous(v) THEN v.t1.firing ELSE FALSE)
      /\ t.value = IF Continuous(v) THEN v.t1.value + 2 * (Latch1(v) + 2) ELSE v.t1.value
  <2>1. CASE Continuous(v) BY <1>2, <1>4, <2>1 DEF Timer1s
  <2>2. CASE ~Continuous(v) BY <1>2, <1>4, <2>2 DEF Timer1s
  <2> QED BY <2>1, <2>2
<1> HIDE DEF r, t
<1>6. u \in Vias
  <2> DEFINE x == [r EXCEPT !.t1 = f]
             pb7 == ~v.pb7
  <2>1. x \in Vias BY <1>1, <1>4 DEF Vias
  <2>2. pb7 \in BOOLEAN OBVIOUS
  <2> HIDE DEF x, pb7
  <2>3. [x EXCEPT !.pb7 = pb7] \in Vias BY <2>1, <2>2 DEF Vias
  <2> QED BY <2>3 DEF x, pb7
<1>7. Expires(r, u) /\ u.IFR = r.IFR /\ u.irq = r.irq /\ u.pb7 = ~v.pb7 /\ u.t2 = r.t2
  BY <1>1 DEF Vias, Expires, LinesKept, PortKept
<1> HIDE DEF u
<1>8. w \in Vias BY <1>5, <1>6 DEF Vias
<1>9. Expires(u, w) /\ w.IFR = u.IFR /\ w.irq = u.irq /\ w.pb7 = u.pb7 /\ w.t2 = u.t2 /\ w.t1 = t
  BY <1>6 DEF Vias, Expires, LinesKept, PortKept
<1> HIDE DEF w
<1>10. Expires(v, r) BY <1>1 DEF RestKept, Expires
<1>11. Expires(v, w) BY <1>7, <1>9, <1>10, ExpiresOn
<1>12. IrqOK(w) BY <1>1, <1>7, <1>9 DEF IrqOK, Expires
<1>13. w.t2 = v.t2 BY <1>1, <1>7, <1>9 DEF RestKept
<1> QED BY <1>1, <1>3, <1>5, <1>7, <1>8, <1>9, <1>11, <1>12, <1>13

\* via_t2_fired: the flag is up, the timer has fired and is put out.
LEMMA FireT2Facts ==
  ASSUME NEW v \in Vias
  PROVE  LET w == FireT2(v)
         IN  /\ w \in Vias /\ IrqOK(w) /\ Expires(v, w) /\ w.t1 = v.t1 /\ w.pb7 = v.pb7
             /\ w.IFR \ {"IRQ"} = (v.IFR \cup {"T2"}) \ {"IRQ"}
             /\ w.t2.fired = TRUE /\ w.t2.firing = FALSE /\ w.t2.value = v.t2.value /\ w.t2.ticking = v.t2.ticking
<1> DEFINE r == RaiseInterrupt(v, "T2")
           t == [v.t2 EXCEPT !.fired = TRUE, !.firing = FALSE]
           w == [r EXCEPT !.t2 = t]
<1>1. /\ r \in Vias /\ IrqOK(r) /\ RestKept(v, r) /\ LinesKept(v, r) /\ PortKept(v, r)
      /\ r.IFR \ {"IRQ"} = (v.IFR \cup {"T2"}) \ {"IRQ"}
  BY RaiseInterruptFacts DEF Interrupts
<1>2. v.t2 \in Timer2s BY DEF Vias
<1>3. FireT2(v) = w
  <2>1. r.t2 = v.t2 BY <1>1 DEF RestKept
  <2>2. FireT2(v) = [r EXCEPT !.t2.fired = TRUE, !.t2.firing = FALSE] BY DEF FireT2
  <2> HIDE DEF r
  <2>3. r \in Vias BY <1>1
  <2> QED BY <2>1, <2>2, <2>3 DEF Vias
<1>4. /\ t \in Timer2s /\ t.value = v.t2.value /\ t.firing = FALSE /\ t.fired = TRUE /\ t.ticking = v.t2.ticking
  BY <1>2 DEF Timer2s
<1> HIDE DEF r, t
<1>5. w \in Vias BY <1>1, <1>4 DEF Vias
<1>6. Expires(r, w) /\ w.IFR = r.IFR /\ w.irq = r.irq /\ w.pb7 = r.pb7 /\ w.t1 = r.t1 /\ w.t2 = t
  BY <1>1 DEF Vias, Expires, LinesKept, PortKept
<1> HIDE DEF w
<1>7. Expires(v, r) BY <1>1 DEF RestKept, Expires
<1>8. Expires(v, w) BY <1>6, <1>7, ExpiresOn
<1>9. IrqOK(w) BY <1>1, <1>6 DEF IrqOK, Expires
<1>10. w.t1 = v.t1 /\ w.pb7 = v.pb7 BY <1>1, <1>6 DEF RestKept
<1> QED BY <1>1, <1>3, <1>4, <1>5, <1>6, <1>8, <1>9, <1>10

\* Time goes on: a timer that reaches zero fires, and none goes past it.
LEMMA AdvanceFacts ==
  ASSUME NEW v, Sound(v), NEW ticks \in {1, 2}, ticks = 1 => ~v.t1.firing /\ ~v.t2.firing,
         v.t1.value > -MaxIdle, v.t2.value > -MaxIdle
  PROVE  LET w == Advance(v, ticks)
             hit1 == v.t1.firing /\ v.t1.value = ticks
             hit2 == v.t2.ticking /\ v.t2.firing /\ v.t2.value = ticks
         IN  /\ w \in Vias /\ IrqOK(w) /\ Expires(v, w) /\ TimersOK(w)
             /\ (w.t1.fired <=> hit1) /\ (w.t1.firing <=> v.t1.firing /\ (hit1 => Continuous(v)))
             /\ w.t1.value = IF hit1 /\ Continuous(v) THEN 2 * (Latch1(v) + 2) ELSE v.t1.value - ticks
             /\ (w.t2.fired <=> hit2) /\ (w.t2.firing <=> v.t2.firing /\ ~hit2) /\ w.t2.ticking = v.t2.ticking
             /\ w.t2.value = IF v.t2.ticking THEN v.t2.value - ticks ELSE v.t2.value
             /\ w.pb7 = IF hit1 THEN ~v.pb7 ELSE v.pb7
             /\ w.IFR \ {"IRQ"} = (v.IFR \cup (IF hit1 THEN {"T1"} ELSE {}) \cup (IF hit2 THEN {"T2"} ELSE {})) \ {"IRQ"}
<1> DEFINE t1 == [v.t1 EXCEPT !.value = @ - ticks, !.fired = FALSE]
           t2 == [v.t2 EXCEPT !.value = IF v.t2.ticking THEN @ - ticks ELSE @, !.fired = FALSE]
           u == [v EXCEPT !.t1 = t1, !.t2 = t2]
           x == IF u.t1.firing /\ u.t1.value = 0 THEN FireT1(u) ELSE u
           w == IF x.t2.ticking /\ x.t2.firing /\ x.t2.value = 0 THEN FireT2(x) ELSE x
           hit1 == v.t1.firing /\ v.t1.value = ticks
           hit2 == v.t2.ticking /\ v.t2.firing /\ v.t2.value = ticks
<1>1. v \in Vias BY SoundTypes
<1>2. v.t1 \in Timer1s /\ v.t2 \in Timer2s BY <1>1 DEF Vias
<1>3. w = Advance(v, ticks)
  <2>1. [v EXCEPT !.t1.value = @ - ticks, !.t1.fired = FALSE,
                  !.t2.value = IF v.t2.ticking THEN @ - ticks ELSE @, !.t2.fired = FALSE] = u
    BY <1>1, <1>2 DEF Vias, Timer1s, Timer2s
  <2> QED BY <2>1 DEF Advance
<1>20. ticks \in Int /\ v.t1.value \in Int /\ v.t2.value \in Int /\ v.t1.value - ticks \in Int /\ v.t2.value - ticks \in Int
  BY <1>2 DEF Timer1s, Timer2s
<1>4. t1 \in Timer1s /\ t1.value = v.t1.value - ticks /\ t1.firing = v.t1.firing /\ t1.fired = FALSE
  <2> DEFINE less == v.t1.value - ticks
             moved == [v.t1 EXCEPT !.value = less]
  <2>1. t1 = [moved EXCEPT !.fired = FALSE] BY <1>2 DEF Timer1s
  <2>2. less \in Int BY <1>20
  <2> HIDE DEF less
  <2>3. moved \in Timer1s /\ moved.value = less /\ moved.firing = v.t1.firing BY <1>2, <2>2 DEF Timer1s
  <2> HIDE DEF moved, t1
  <2>4. t1 \in Timer1s /\ t1.value = less /\ t1.firing = v.t1.firing /\ t1.fired = FALSE BY <2>1, <2>3 DEF Timer1s
  <2> QED BY <2>4 DEF less
<1>5. /\ t2 \in Timer2s /\ t2.value = (IF v.t2.ticking THEN v.t2.value - ticks ELSE v.t2.value)
      /\ t2.firing = v.t2.firing /\ t2.ticking = v.t2.ticking /\ t2.fired = FALSE
  <2> DEFINE less == IF v.t2.ticking THEN v.t2.value - ticks ELSE v.t2.value
             moved == [v.t2 EXCEPT !.value = less]
  <2>1. t2 = [moved EXCEPT !.fired = FALSE] BY <1>2 DEF Timer2s
  <2>2. less \in Int BY <1>20
  <2> HIDE DEF less
  <2>3. moved \in Timer2s /\ moved.value = less /\ moved.firing = v.t2.firing /\ moved.ticking = v.t2.ticking BY <1>2, <2>2 DEF Timer2s
  <2> HIDE DEF moved, t2
  <2>4. t2 \in Timer2s /\ t2.value = less /\ t2.firing = v.t2.firing /\ t2.ticking = v.t2.ticking /\ t2.fired = FALSE
    BY <2>1, <2>3 DEF Timer2s
  <2> QED BY <2>4 DEF less
<1> HIDE DEF t1, t2
<1>6. u \in Vias BY <1>1, <1>4, <1>5 DEF Vias
<1>7. Expires(v, u) /\ u.IFR = v.IFR /\ u.irq = v.irq /\ u.pb7 = v.pb7 /\ u.t1 = t1 /\ u.t2 = t2 /\ Latch1(u) = Latch1(v)
  BY <1>1 DEF Vias, Expires, LinesKept, PortKept, Latch1
<1> HIDE DEF u
<1>8. IrqOK(u) BY <1>7 DEF Sound, IrqOK, Expires
<1>9. u.t1.firing /\ u.t1.value = 0 <=> hit1 BY <1>2, <1>4, <1>7 DEF Timer1s
<1>10. Continuous(u) <=> Continuous(v) BY <1>7 DEF Continuous, Expires
<1>11. /\ x \in Vias /\ IrqOK(x) /\ Expires(v, x) /\ x.t2 = t2 /\ x.pb7 = (IF hit1 THEN ~v.pb7 ELSE v.pb7)
       /\ x.IFR \ {"IRQ"} = (v.IFR \cup (IF hit1 THEN {"T1"} ELSE {})) \ {"IRQ"}
       /\ (x.t1.fired <=> hit1) /\ (x.t1.firing <=> v.t1.firing /\ (hit1 => Continuous(v)))
       /\ x.t1.value = IF hit1 /\ Continuous(v) THEN 2 * (Latch1(v) + 2) ELSE v.t1.value - ticks
  <2>1. CASE hit1
    <3>1. x = FireT1(u) BY <1>9, <2>1
    <3> HIDE DEF x
    <3>2. /\ x \in Vias /\ IrqOK(x) /\ Expires(u, x) /\ x.t2 = u.t2 /\ x.pb7 = ~u.pb7
          /\ x.IFR \ {"IRQ"} = (u.IFR \cup {"T1"}) \ {"IRQ"}
          /\ x.t1.fired = TRUE
          /\ x.t1.firing = (IF Continuous(u) THEN u.t1.firing ELSE FALSE)
          /\ x.t1.value = IF Continuous(u) THEN u.t1.value + 2 * (Latch1(u) + 2) ELSE u.t1.value
      BY <1>6, <3>1, FireT1Facts
    <3>3. Expires(v, x) BY <1>7, <3>2, ExpiresOn
    <3>4. x.t1.firing <=> v.t1.firing /\ (hit1 => Continuous(v)) BY <1>4, <1>7, <1>10, <2>1, <3>2
    <3>5. u.t1.value = 0 /\ v.t1.value - ticks = 0 BY <1>2, <1>4, <1>7, <2>1 DEF Timer1s
    <3>6. Latch1(v) \in Int BY <1>1, LatchRange, Widths
    <3>7. x.t1.value = IF hit1 /\ Continuous(v) THEN 2 * (Latch1(v) + 2) ELSE v.t1.value - ticks
      BY <1>7, <1>10, <2>1, <3>2, <3>5, <3>6
    <3> QED BY <1>7, <2>1, <3>2, <3>3, <3>4, <3>7
  <2>2. CASE ~hit1
    <3>1. x = u BY <1>9, <2>2
    <3> HIDE DEF x
    <3> QED BY <1>4, <1>6, <1>7, <1>8, <2>2, <3>1
  <2> QED BY <2>1, <2>2
<1> HIDE DEF x
<1>12. x.t2.ticking /\ x.t2.firing /\ x.t2.value = 0 <=> hit2 BY <1>2, <1>5, <1>11 DEF Timer2s
<1>13. /\ w \in Vias /\ IrqOK(w) /\ Expires(v, w) /\ w.t1 = x.t1 /\ w.pb7 = x.pb7
       /\ w.IFR \ {"IRQ"} = (x.IFR \cup (IF hit2 THEN {"T2"} ELSE {})) \ {"IRQ"}
       /\ (w.t2.fired <=> hit2) /\ (w.t2.firing <=> v.t2.firing /\ ~hit2) /\ w.t2.ticking = v.t2.ticking
       /\ w.t2.value = IF v.t2.ticking THEN v.t2.value - ticks ELSE v.t2.value
  <2>1. CASE hit2
    <3>1. w = FireT2(x) BY <1>12, <2>1
    <3> HIDE DEF w
    <3>2. /\ w \in Vias /\ IrqOK(w) /\ Expires(x, w) /\ w.t1 = x.t1 /\ w.pb7 = x.pb7
          /\ w.IFR \ {"IRQ"} = (x.IFR \cup {"T2"}) \ {"IRQ"}
          /\ w.t2.fired = TRUE /\ w.t2.firing = FALSE /\ w.t2.value = x.t2.value /\ w.t2.ticking = x.t2.ticking
      BY <1>11, <3>1, FireT2Facts
    <3>3. Expires(v, w) BY <1>11, <3>2, ExpiresOn
    <3> QED BY <1>5, <1>11, <2>1, <3>2, <3>3
  <2>2. CASE ~hit2
    <3>1. w = x BY <1>12, <2>2
    <3> HIDE DEF w
    <3> QED BY <1>5, <1>11, <2>2, <3>1
  <2> QED BY <2>1, <2>2
<1> HIDE DEF w
<1>14. w.IFR \ {"IRQ"} = (v.IFR \cup (IF hit1 THEN {"T1"} ELSE {}) \cup (IF hit2 THEN {"T2"} ELSE {})) \ {"IRQ"}
  <2> DEFINE i1 == IF hit1 THEN {"T1"} ELSE {}
             i2 == IF hit2 THEN {"T2"} ELSE {}
  <2>1. x.IFR \ {"IRQ"} = (v.IFR \cup i1) \ {"IRQ"} BY <1>11
  <2>2. w.IFR \ {"IRQ"} = (x.IFR \cup i2) \ {"IRQ"} BY <1>13
  <2> HIDE DEF i1, i2
  <2>3. w.IFR \ {"IRQ"} = (v.IFR \cup i1 \cup i2) \ {"IRQ"} BY <2>1, <2>2
  <2> QED BY <2>3 DEF i1, i2
<1>15. w.t1.value = (IF hit1 /\ Continuous(v) THEN 2 * (Latch1(v) + 2) ELSE v.t1.value - ticks) /\ (w.t1.fired <=> hit1)
       /\ (w.t1.firing <=> v.t1.firing /\ (hit1 => Continuous(v)))
  BY <1>11, <1>13
<1>16. TimersOK(w)
  <2>1. TimersOK(v) BY DEF Sound
  <2>2. Latch1(v) \in 0..MaxCount BY <1>1, LatchRange
  <2>3. v.t1.firing \in BOOLEAN /\ v.t2.firing \in BOOLEAN /\ v.t2.ticking \in BOOLEAN BY <1>2 DEF Timer1s, Timer2s
  <2>4. Span(w.t1.value) BY <1>15, <1>20, <2>1, <2>2, Widths DEF TimersOK, Span
  <2>5. Span(w.t2.value) BY <1>13, <1>20, <2>1, Widths DEF TimersOK, Span
  <2>6. w.t1.firing => w.t1.value >= 2 /\ Even(w.t1.value)
    <3> SUFFICES ASSUME w.t1.firing PROVE w.t1.value >= 2 /\ Even(w.t1.value) OBVIOUS
    <3>1. v.t1.firing /\ (hit1 => Continuous(v)) BY <1>15
    <3>2. ticks = 2 /\ v.t1.value >= 2 /\ Even(v.t1.value) BY <2>1, <3>1 DEF TimersOK
    <3>3. CASE hit1
      <4>1. w.t1.value = 2 * (Latch1(v) + 2) BY <1>15, <3>1, <3>3
      <4> QED BY <2>2, <4>1, Widths DEF Even
    <3>4. CASE ~hit1
      <4>1. w.t1.value = v.t1.value - 2 /\ v.t1.value # 2 BY <1>15, <3>1, <3>2, <3>4
      <4> QED BY <1>20, <3>2, <4>1 DEF Even
    <3> QED BY <3>3, <3>4
  <2>7. w.t2.firing => w.t2.value >= 0 /\ Even(w.t2.value) /\ (w.t2.ticking => w.t2.value >= 2)
    <3> SUFFICES ASSUME w.t2.firing PROVE w.t2.value >= 0 /\ Even(w.t2.value) /\ (w.t2.ticking => w.t2.value >= 2) OBVIOUS
    <3>1. v.t2.firing /\ ~hit2 BY <1>13
    <3>2. ticks = 2 /\ v.t2.value >= 0 /\ Even(v.t2.value) /\ (v.t2.ticking => v.t2.value >= 2) BY <2>1, <3>1 DEF TimersOK
    <3>3. CASE v.t2.ticking
      <4>1. w.t2.value = v.t2.value - 2 /\ v.t2.value # 2 BY <1>13, <3>1, <3>2, <3>3
      <4> QED BY <1>20, <3>2, <3>3, <4>1 DEF Even
    <3>4. CASE ~v.t2.ticking
      <4>1. w.t2.value = v.t2.value /\ (w.t2.ticking <=> v.t2.ticking) BY <1>13, <3>4
      <4> QED BY <3>2, <3>4, <4>1
    <3> QED BY <3>3, <3>4
  <2>8. ~w.t2.ticking => w.t2.value <= 2 * MaxCount + 2
    <3> SUFFICES ASSUME ~w.t2.ticking PROVE w.t2.value <= 2 * MaxCount + 2 OBVIOUS
    <3>1. ~v.t2.ticking BY <1>13, Zenon
    <3>2. w.t2.value = v.t2.value BY <1>13, <3>1
    <3> QED BY <2>1, <3>1, <3>2 DEF TimersOK
  <2>9. w.t2.ticking # Pulses(w)
    <3>1. w.t2.ticking = v.t2.ticking /\ w.ACR = v.ACR BY <1>13 DEF Expires
    <3> QED BY <2>1, <3>1, Zenon DEF TimersOK, Pulses
  <2> QED BY <2>4, <2>5, <2>6, <2>7, <2>8, <2>9 DEF TimersOK
<1> QED BY <1>3, <1>11, <1>13, <1>14, <1>15, <1>16

\* The modes of the timers are written: what is read of port A follows, a timer that
\* has fired just now may be put out, and timer 2 stops after one more count or starts.
LEMMA AcrKeeps ==
  ASSUME NEW v, Sound(v), NEW bits \in SUBSET Modes
  PROVE  LET w == UpdateIraCached([v EXCEPT !.ACR = bits])
             x == IF w.t1.fired /\ ~Continuous(w) THEN [w EXCEPT !.t1.firing = FALSE] ELSE w
             change == IF Pulses(x) THEN -1 ELSE 1
         IN  Keeps(v, IF x.t2.ticking = Pulses(x)
                      THEN [x EXCEPT !.t2 = [SetCount(@, Count2(x) + change) EXCEPT !.ticking = ~Pulses(x)]]
                      ELSE x)
<1> DEFINE a == [v EXCEPT !.ACR = bits]
           w == [a EXCEPT !.cached = Cached(a)]
           t1 == [v.t1 EXCEPT !.firing = FALSE]
           x == IF w.t1.fired /\ ~Continuous(w) THEN [w EXCEPT !.t1 = t1] ELSE w
           value == 2 * (Count2(x) + (IF Pulses(x) THEN -1 ELSE 1)) + 2
           stop == ~Pulses(x)
           t2 == [[x.t2 EXCEPT !.value = value] EXCEPT !.ticking = stop]
           y == IF x.t2.ticking = Pulses(x) THEN [x EXCEPT !.t2 = t2] ELSE x
<1>1. v \in Vias BY SoundTypes
<1>2. v.t1 \in Timer1s /\ v.t2 \in Timer2s BY <1>1 DEF Vias
<1>3. TimersOK(v) BY DEF Sound
<1>4. a \in Vias /\ a.ACR = bits BY <1>1 DEF Vias
<1>5. /\ a.id = v.id /\ a.IFR = v.IFR /\ a.IER = v.IER /\ a.PCR = v.PCR /\ a.irq = v.irq
      /\ LinesKept(v, a) /\ PortKept(v, a) /\ a.half = v.half
      /\ a.ORA = v.ORA /\ a.DDRA = v.DDRA /\ a.autoscan = v.autoscan /\ a.keys = v.keys
      /\ a.t1 = v.t1 /\ a.t2 = v.t2
  BY <1>1 DEF Vias, LinesKept, PortKept
<1>6. Cached(a) \in Pins /\ ("latch_A" \notin bits => Cached(a) = a.bus) BY <1>4 DEF Cached, Vias
<1>7. UpdateIraCached(a) = w BY DEF UpdateIraCached
<1> HIDE DEF a
<1>8. w \in Vias BY <1>4, <1>6 DEF Vias
<1>9. /\ w.id = v.id /\ w.IFR = v.IFR /\ w.IER = v.IER /\ w.PCR = v.PCR /\ w.irq = v.irq /\ w.ACR = bits
      /\ LinesKept(v, w) /\ w.bus = v.bus /\ w.cached = Cached(a) /\ w.half = v.half
      /\ w.ORA = v.ORA /\ w.DDRA = v.DDRA /\ w.autoscan = v.autoscan /\ w.keys = v.keys
      /\ w.t1 = v.t1 /\ w.t2 = v.t2
  BY <1>4, <1>5 DEF Vias, LinesKept, PortKept
<1>10. "latch_A" \notin w.ACR => w.cached = w.bus BY <1>5, <1>6, <1>9 DEF PortKept
<1>11. [w EXCEPT !.t1.firing = FALSE] = [w EXCEPT !.t1 = t1] BY <1>9
<1>12. t1 \in Timer1s /\ t1.value = v.t1.value /\ t1.firing = FALSE BY <1>2 DEF Timer1s
<1> HIDE DEF w, t1
<1>13. x \in Vias /\ ChipKept(w, x) /\ x.t2 = w.t2 /\ x.t1.value = v.t1.value /\ (x.t1.firing => v.t1.firing)
  <2>1. CASE w.t1.fired /\ ~Continuous(w)
    <3>1. x = [w EXCEPT !.t1 = t1] BY <2>1
    <3> HIDE DEF x
    <3>2. x \in Vias BY <1>8, <1>12, <3>1 DEF Vias
    <3>3. x.t1 = t1 BY <1>8, <3>1 DEF Vias
    <3> QED BY <1>8, <1>12, <3>1, <3>2, <3>3 DEF Vias, ChipKept, LinesKept, PortKept
  <2>2. CASE ~(w.t1.fired /\ ~Continuous(w)) BY <1>8, <1>9, <2>2 DEF ChipKept, LinesKept, PortKept
  <2> QED BY <2>1, <2>2
<1>14. x.t2 = v.t2 BY <1>9, <1>13
<1>15. Raw2(x) = Raw2(v) /\ Count2(x) = Count2(v) BY <1>14 DEF Raw2, Count2
<1> HIDE DEF x
<1>16. x.t2 \in Timer2s /\ Pulses(x) \in BOOLEAN /\ v.t2.ticking \in BOOLEAN BY <1>2, <1>14 DEF Timer2s, Pulses
<1>17. ASSUME x.t2.ticking = Pulses(x) PROVE y \in Vias /\ ChipKept(x, y) /\ TimersOK(y)
  <2>1. v.t2.value \in Int /\ Span(v.t2.value) /\ (~Pulses(x) => v.t2.value <= 2 * MaxCount + 2)
    <3>1. ~Pulses(x) => ~v.t2.ticking BY <1>14, <1>17
    <3> QED BY <1>2, <1>3, <3>1 DEF Timer2s, TimersOK
  <2>2. Count2(x) \in Int /\ Raw2(v) \in Int /\ 2 * Count2(x) <= Raw2(v) /\ Raw2(v) <= 2 * Count2(x) + 1
    BY <1>15, Raw2Facts DEF Count2
  <2>3. value \in Int /\ value = IF Pulses(x) THEN 2 * Count2(x) ELSE 2 * Count2(x) + 4 BY <2>2
  <2>4. stop \in BOOLEAN /\ stop # Pulses(x) BY <1>16
  <2> DEFINE z == [x.t2 EXCEPT !.value = value]
  <2>5. y = [x EXCEPT !.t2 = t2] /\ t2 = [z EXCEPT !.ticking = stop] BY <1>17
  <2> HIDE DEF value, stop, y, t2
  <2>6. z \in Timer2s /\ z.value = value /\ z.firing = v.t2.firing BY <1>14, <1>16, <2>3 DEF Timer2s
  <2> HIDE DEF z
  <2>7. t2 \in Timer2s /\ t2.value = value /\ t2.firing = v.t2.firing /\ t2.ticking = stop BY <2>4, <2>5, <2>6 DEF Timer2s
  <2>8. value >= -4 /\ value <= 2 * MaxCount + 4 /\ (Pulses(x) => value <= 2 * MaxCount + 2)
    <3>1. CASE Pulses(x) BY <2>2, <2>3, <3>1, Raw2Facts, Widths
    <3>2. CASE ~Pulses(x)
      <4>1. Raw2(v) <= 2 * MaxCount BY <2>1, <2>2, <3>2, Raw2Facts, Widths
      <4> QED BY <2>2, <2>3, <3>2, <4>1, Raw2Facts, Widths
    <3> QED BY <3>1, <3>2
  <2>9. v.t2.firing => value >= 0 /\ Even(value) /\ (stop => value >= 2)
    <3> SUFFICES ASSUME v.t2.firing PROVE value >= 0 /\ Even(value) /\ (stop => value >= 2) OBVIOUS
    <3>1. v.t2.value >= 0 /\ Even(v.t2.value) /\ (v.t2.ticking => v.t2.value >= 2) BY <1>3 DEF TimersOK
    <3>2. 2 * Count2(x) = v.t2.value - 2 BY <2>1, <2>2, <3>1, Raw2Facts DEF Even
    <3>3. CASE Pulses(x)
      <4>1. v.t2.ticking /\ ~stop BY <1>14, <1>17, <2>4, <3>3
      <4> QED BY <2>1, <2>2, <2>3, <3>1, <3>2, <3>3, <4>1 DEF Even
    <3>4. CASE ~Pulses(x) BY <2>1, <2>2, <2>3, <3>1, <3>2, <3>4 DEF Even
    <3> QED BY <3>3, <3>4
  <2>10. y \in Vias BY <1>13, <2>5, <2>7 DEF Vias
  <2>11. ChipKept(x, y) /\ y.t1 = x.t1 /\ y.t2 = t2
    BY <1>13, <2>5 DEF Vias, ChipKept, LinesKept, PortKept
  <2>12. Pulses(y) = Pulses(x) BY <2>11 DEF Pulses, ChipKept
  <2>13. TimersOK(y)
    <3>1. Span(y.t1.value) /\ (y.t1.firing => y.t1.value >= 2 /\ Even(y.t1.value)) BY <1>3, <1>13, <2>11 DEF TimersOK
    <3>2. Span(y.t2.value) BY <2>3, <2>7, <2>8, <2>11, Widths DEF Span
    <3>3. y.t2.ticking # Pulses(y) BY <2>4, <2>7, <2>11, <2>12, Zenon
    <3>4. y.t2.firing => y.t2.value >= 0 /\ Even(y.t2.value) /\ (y.t2.ticking => y.t2.value >= 2)
      BY <2>7, <2>9, <2>11
    <3>5. ~y.t2.ticking => y.t2.value <= 2 * MaxCount + 2
      <4>1. ~y.t2.ticking => Pulses(x) BY <1>16, <2>4, <2>7, <2>11, Zenon
      <4> QED BY <2>7, <2>8, <2>11, <4>1
    <3> QED BY <3>1, <3>2, <3>3, <3>4, <3>5 DEF TimersOK
  <2> QED BY <2>10, <2>11, <2>13
<1>18. ASSUME ~(x.t2.ticking = Pulses(x)) PROVE y \in Vias /\ ChipKept(x, y) /\ TimersOK(y)
  <2>1. y = x BY <1>18
  <2>2. TimersOK(x) BY <1>3, <1>13, <1>14, <1>18 DEF TimersOK
  <2>3. ChipKept(x, x) BY DEF ChipKept, LinesKept, PortKept
  <2> QED BY <1>13, <2>1, <2>2, <2>3
<1>19. y \in Vias /\ ChipKept(x, y) /\ TimersOK(y) BY <1>17, <1>18
<1> HIDE DEF y
<1>20. ChipKept(w, y) BY <1>13, <1>19 DEF ChipKept, LinesKept, PortKept
<1>21. IrqOK(y) BY <1>9, <1>20 DEF Sound, IrqOK, ChipKept
<1>22. BusOK(y) BY <1>9, <1>10, <1>20 DEF Sound, BusOK, BusValue, Selected, KeyDown, ChipKept, LinesKept, PortKept
<1>23. PcrOK(y) BY <1>9, <1>20 DEF Sound, PcrOK, ChipKept
<1>24. Missed(y) => Missed(v) BY <1>9, <1>20 DEF Missed, ChipKept
<1>25. Keeps(v, y) BY <1>9, <1>19, <1>20, <1>21, <1>22, <1>23, <1>24 DEF Keeps, Sound, ChipKept, LinesKept
<1>26. x = IF w.t1.fired /\ ~Continuous(w) THEN [w EXCEPT !.t1.firing = FALSE] ELSE w BY <1>11 DEF x
<1>27. y = IF x.t2.ticking = Pulses(x)
           THEN [x EXCEPT !.t2 = [SetCount(@, Count2(x) + (IF Pulses(x) THEN -1 ELSE 1)) EXCEPT !.ticking = ~Pulses(x)]]
           ELSE x
  BY DEF y, t2, value, stop, SetCount
<1>28. w = UpdateIraCached([v EXCEPT !.ACR = bits]) BY <1>7 DEF w, a
<1> HIDE DEF a, w, x
<1> QED BY <1>25, <1>26, <1>27, <1>28

\* Both timers idle at their largest count, and nothing of them flagged or controlled.
AtRest(v) ==
  /\ v.t1.value = 2 * MaxCount + 2 /\ v.t1.firing = FALSE /\ v.t1.fired = FALSE /\ Latch1(v) = MaxCount
  /\ v.t2.value = 2 * MaxCount + 2 /\ v.t2.firing = FALSE /\ v.t2.fired = FALSE /\ Latch2(v) = MaxCount
  /\ v.t2.ticking = TRUE /\ v.ACR = {} /\ v.pb7 = TRUE /\ v.IFR \cap TimerFlags = {}

\* via_power_on_reset: nothing is selected, scanned, enabled or about to fire.
LEMMA PowerOnFacts ==
  ASSUME NEW id \in {"system", "user"}, NEW keys \in SUBSET Columns
  PROVE  LET w == PowerOn(id, keys)
         IN  /\ Sound(w) /\ w.id = id /\ ~w.t1.firing /\ ~w.t2.firing /\ w.half = TRUE /\ ~Missed(w)
             /\ AtRest(w)
<1> DEFINE idle == [value |-> 2 * MaxCount + 2, firing |-> FALSE, fired |-> FALSE]
           idle2 == [ticking |-> TRUE, value |-> 2 * MaxCount + 2, firing |-> FALSE, fired |-> FALSE]
           latch == [high |-> Base - 1, low |-> Base - 1]
           input == [column |-> NoColumn, key |-> TRUE]
           edges == [CA1 |-> "falling", CA2 |-> "falling", CB1 |-> "falling"]
           v == [id |-> id, IFR |-> {}, IER |-> {}, ACR |-> {}, PCR |-> edges,
                 CA1 |-> FALSE, CA2 |-> FALSE, CB1 |-> FALSE, irq |-> FALSE,
                 ORB |-> {}, DDRB |-> {}, ORA |-> NoColumn, DDRA |-> FALSE,
                 autoscan |-> FALSE, keys |-> keys, bus |-> input, IRA |-> input, cached |-> input,
                 t1 |-> idle, t2 |-> idle2, T1L |-> latch, T2L |-> latch,
                 pb7 |-> TRUE, half |-> TRUE, free |-> TRUE]
           p == UpdatePortA(v)
           ready == id = "user"
           q == SetCA1(p, ready)
           w == [q EXCEPT !.keys = {}]
<1>1. w = PowerOn(id, keys) BY DEF PowerOn
<1>2. idle \in Timer1s /\ idle2 \in Timer2s BY Widths DEF Timer1s, Timer2s
<1>3. latch \in Latches BY ViaAssumption DEF Latches
<1>4. input \in Pins /\ edges \in Pcrs BY DEF Pins, Pcrs, Edges
<1>5. /\ idle.value = 2 * MaxCount + 2 /\ ~idle.firing /\ idle2.value = 2 * MaxCount + 2 /\ ~idle2.firing /\ idle2.ticking = TRUE
      /\ idle.fired = FALSE /\ idle2.fired = FALSE /\ idle.firing = FALSE /\ idle2.firing = FALSE
  OBVIOUS
<1>24. latch.high * Base + latch.low = MaxCount BY ViaAssumption DEF MaxCount
<1>6. edges.CA2 = "falling" OBVIOUS
<1>7. ready \in BOOLEAN OBVIOUS
<1> HIDE DEF idle, idle2, latch, input, edges, ready
<1>8. v \in Vias BY <1>2, <1>3, <1>4 DEF Vias
<1>9. /\ v.id = id /\ v.IFR = {} /\ v.IER = {} /\ v.ACR = {} /\ v.PCR = edges /\ v.irq = FALSE /\ v.half = TRUE
      /\ v.ORA = NoColumn /\ v.DDRA = FALSE /\ v.autoscan = FALSE /\ v.t1 = idle /\ v.t2 = idle2 /\ v.keys = keys
      /\ v.T1L = latch /\ v.T2L = latch /\ v.pb7 = TRUE
  OBVIOUS
<1> HIDE DEF v
<1>10. IrqOK(v)
  <2>1. (v.IFR \cap v.IER # {}) = FALSE /\ ("IRQ" \in v.IFR) = FALSE /\ v.irq = FALSE BY <1>9
  <2> QED BY <2>1, Zenon DEF IrqOK
<1>11. Raises(v, p) /\ BusOK(p) BY <1>8, UpdatePortAFacts
<1>12. p \in Vias BY <1>11 DEF Raises
<1> HIDE DEF p
<1>13. Raises(p, q) /\ q.CA2 = p.CA2 /\ PortKept(p, q) BY <1>7, <1>12, SetCA1Facts
<1> HIDE DEF q
<1>14. Raises(v, q) BY <1>11, <1>13, RaisesOn
<1>15. q \in Vias /\ IrqOK(q) /\ RestKept(v, q) BY <1>10, <1>14 DEF Raises
<1>16. w \in Vias BY <1>15 DEF Vias
<1>17. /\ w.id = q.id /\ w.IFR = q.IFR /\ w.IER = q.IER /\ w.ACR = q.ACR /\ w.PCR = q.PCR /\ w.irq = q.irq
       /\ LinesKept(q, w) /\ PortKept(q, w) /\ w.half = q.half /\ w.keys = {}
       /\ w.ORA = q.ORA /\ w.DDRA = q.DDRA /\ w.autoscan = q.autoscan /\ w.t1 = q.t1 /\ w.t2 = q.t2
       /\ w.T1L = q.T1L /\ w.T2L = q.T2L /\ w.pb7 = q.pb7
  BY <1>15 DEF Vias, LinesKept, PortKept
<1> HIDE DEF w
<1>18. /\ w.id = id /\ w.ACR = {} /\ w.PCR = edges /\ w.half = TRUE /\ w.DDRA = FALSE /\ w.autoscan = FALSE
       /\ w.t1 = idle /\ w.t2 = idle2 /\ w.T1L = latch /\ w.T2L = latch /\ w.pb7 = TRUE
  BY <1>9, <1>15, <1>17 DEF RestKept
<1>19. IrqOK(w) BY <1>15, <1>17 DEF IrqOK
<1>20. BusOK(w)
  <2>1. /\ p.DDRA = FALSE /\ p.autoscan = FALSE /\ p.id = id /\ p.keys = keys /\ p.ACR = {}
        /\ q.ACR = {}
    BY <1>9, <1>11, <1>15 DEF Raises, RestKept
  <2>2. Selected(p) = NoColumn /\ Selected(w) = NoColumn BY <1>18, <2>1 DEF Selected
  <2>3. NoColumn \notin keys BY ViaAssumption
  <2>4. BusValue(w) = BusValue(p) BY <1>17, <1>18, <2>1, <2>2, <2>3 DEF BusValue
  <2>5. ~KeyDown(w) /\ ~KeyDown(p) BY <1>17, <1>18, <2>1, <2>2, <2>3 DEF KeyDown
  <2>6. w.bus = p.bus /\ w.cached = p.cached /\ w.CA2 = p.CA2 BY <1>13, <1>17 DEF PortKept, LinesKept
  <2> QED BY <1>11, <1>18, <2>1, <2>4, <2>5, <2>6 DEF BusOK
<1>21. PcrOK(w) BY <1>6, <1>18 DEF PcrOK, Edges
<1>22. TimersOK(w)
  <2>1. Span(2 * MaxCount + 2) BY Widths DEF Span
  <2>2. ~Pulses(w) BY <1>18 DEF Pulses
  <2> QED BY <1>5, <1>18, <2>1, <2>2 DEF TimersOK
<1>23. ~Missed(w) BY <1>6, <1>18 DEF Missed
<1>25. AtRest(w)
  <2>1. w.IFR \cap TimerFlags = {} BY <1>9, <1>14, <1>17 DEF Raises
  <2> QED BY <1>5, <1>18, <1>24, <2>1 DEF AtRest, Latch1, Latch2
<1> QED BY <1>1, <1>5, <1>25, <1>16, <1>18, <1>19, <1>20, <1>21, <1>22, <1>23 DEF Sound

\* A cycle, in which the timers go on or are not looked at.
LEMMA CycleFacts ==
  ASSUME NEW v, Sound(v), NEW a,
         \/ a = v
         \/ /\ v.half => ~v.t1.firing /\ ~v.t2.firing
            /\ v.t1.value > -MaxIdle /\ v.t2.value > -MaxIdle
            /\ a = Advance(v, IF v.half THEN 1 ELSE 2)
  PROVE  LET w == [a EXCEPT !.half = FALSE, !.free = TRUE]
         IN  /\ Sound(w) /\ w.id = v.id /\ w.half = FALSE /\ w.CB1 = v.CB1 /\ w.PCR = v.PCR
             /\ Missed(w) => Missed(v)
<1> DEFINE h == [a EXCEPT !.half = FALSE]
           w == [h EXCEPT !.free = TRUE]
<1>1. v \in Vias BY SoundTypes
<1>2. Sound(a) /\ a.id = v.id /\ a.CB1 = v.CB1 /\ a.PCR = v.PCR /\ (Missed(a) => Missed(v))
  <2>1. CASE a # v
    <3> DEFINE ticks == IF v.half THEN 1 ELSE 2
    <3>1. ticks \in {1, 2} /\ (ticks = 1 => ~v.t1.firing /\ ~v.t2.firing) BY <2>1
    <3>2. a = Advance(v, ticks) BY <2>1
    <3> HIDE DEF ticks
    <3>3. /\ a \in Vias /\ IrqOK(a) /\ Expires(v, a) /\ TimersOK(a) /\ v.IFR \ {"IRQ"} \subseteq a.IFR \ {"IRQ"}
      <4> DEFINE hit1 == v.t1.firing /\ v.t1.value = ticks
                 hit2 == v.t2.ticking /\ v.t2.firing /\ v.t2.value = ticks
                 i1 == IF hit1 THEN {"T1"} ELSE {}
                 i2 == IF hit2 THEN {"T2"} ELSE {}
      <4>1. /\ a \in Vias /\ IrqOK(a) /\ Expires(v, a) /\ TimersOK(a)
            /\ a.IFR \ {"IRQ"} = (v.IFR \cup i1 \cup i2) \ {"IRQ"}
        BY <2>1, <3>1, <3>2, AdvanceFacts
      <4> HIDE DEF i1, i2
      <4> QED BY <4>1
    <3>4. BusOK(a) BY <3>3, BusStays DEF Sound
    <3>5. PcrOK(a) BY <3>3 DEF Sound, PcrOK, Expires
    <3>6. Missed(a) => Missed(v) BY <3>3 DEF Missed, Expires
    <3> QED BY <3>3, <3>4, <3>5, <3>6 DEF Sound, Expires, LinesKept
  <2>2. CASE a = v BY <2>2
  <2> QED BY <2>1, <2>2
<1>3. a \in Vias BY <1>2, SoundTypes
<1>4. h \in Vias /\ h.half = FALSE BY <1>3 DEF Vias
<1>5. /\ h.id = a.id /\ h.IFR = a.IFR /\ h.IER = a.IER /\ h.ACR = a.ACR /\ h.PCR = a.PCR /\ h.irq = a.irq
      /\ LinesKept(a, h) /\ PortKept(a, h) /\ h.t1 = a.t1 /\ h.t2 = a.t2
      /\ h.ORA = a.ORA /\ h.DDRA = a.DDRA /\ h.autoscan = a.autoscan /\ h.keys = a.keys
  BY <1>3 DEF Vias, LinesKept, PortKept
<1>6. w = [a EXCEPT !.half = FALSE, !.free = TRUE] OBVIOUS
<1> HIDE DEF h
<1>7. IrqOK(h) BY <1>2, <1>5 DEF Sound, IrqOK
<1>8. BusOK(h) BY <1>2, <1>5 DEF Sound, BusOK, BusValue, Selected, KeyDown, LinesKept, PortKept
<1>9. PcrOK(h) BY <1>2, <1>5 DEF Sound, PcrOK
<1>10. TimersOK(h) BY <1>2, <1>5 DEF Sound, TimersOK, Pulses
<1>11. Missed(h) => Missed(v) BY <1>2, <1>5 DEF Missed
<1>12. Sound(h) BY <1>4, <1>7, <1>8, <1>9, <1>10 DEF Sound
<1>13. Keeps(h, w) BY <1>12, FreeKeeps
<1> HIDE DEF w
<1> QED BY <1>2, <1>4, <1>5, <1>6, <1>11, <1>13 DEF Keeps, LinesKept

-----------------------------------------------------------------------------
(* What happens.                                                             *)

\* What a step does not do: break the invariant, or leave an edge unnoticed.
Step ==
  /\ IInv'
  /\ Missed(via') => Missed(via) \/ via'.PCR # via.PCR
  /\ adc'.ready /\ ~adc.ready /\ via.PCR.CB1 = "falling" => "CB1" \in via'.IFR

\* An access whose operator keeps what is true.
LEMMA AccessSteps ==
  ASSUME IInv, NEW register, NEW v, Keeps(via, v), Access(register, v), adc' = adc, loaded' \in BOOLEAN
  PROVE  Step
<1>1. via' = [v EXCEPT !.free = FALSE] /\ program' = program /\ (program.timed => ~via.half) BY DEF Access
<1>2. Keeps(via, via') BY <1>1, FreeKeeps, KeepsOn DEF Keeps
<1>3. StartOK(via', program.timed) BY <1>1, <1>2 DEF Keeps, StartOK
<1> QED BY <1>1, <1>2, <1>3 DEF Step, IInv, Keeps

\* The reads.
LEMMA ReadSteps ==
  ASSUME IInv, ReadT1CL \/ ReadT1CH \/ ReadT2CL \/ ReadT2CH \/ ReadORA \/ ReadORB
  PROVE  Step
<1> USE DEF Write
<1>1. Sound(via) /\ loaded \in BOOLEAN BY DEF IInv
<1>2. ASSUME NEW flags PROVE Keeps(via, ClearInterrupt(via, flags)) BY <1>1, ClearKeeps
<1>3. ASSUME NEW v, Keeps(via, v) PROVE Keeps(via, GetT1(v)) /\ Keeps(via, GetT2(v))
  BY <1>3, GetT1Keeps, GetT2Keeps, KeepsOn DEF Keeps
<1>4. CASE ReadT1CL BY <1>1, <1>2, <1>3, <1>4, AccessSteps DEF ReadT1CL
<1>5. CASE ReadT1CH BY <1>1, <1>5, GetT1Keeps, AccessSteps DEF ReadT1CH
<1>6. CASE ReadT2CL BY <1>1, <1>2, <1>3, <1>6, AccessSteps DEF ReadT2CL
<1>7. CASE ReadT2CH BY <1>1, <1>7, GetT2Keeps, AccessSteps DEF ReadT2CH
<1>8. CASE ReadORA BY <1>1, <1>2, <1>8, AccessSteps DEF ReadORA
<1>9. CASE ReadORB BY <1>1, <1>2, <1>9, AccessSteps DEF ReadORB
<1> QED BY <1>4, <1>5, <1>6, <1>7, <1>8, <1>9

\* The writes to the timers and their latches.
LEMMA TimerSteps ==
  ASSUME IInv, NEW byte \in Bytes,
         WriteT1CL(byte) \/ WriteT1LH(byte) \/ WriteT1CH(byte) \/ WriteT2CL(byte) \/ WriteT2CH(byte)
  PROVE  Step
<1> USE DEF Write
<1>1. Sound(via) /\ loaded \in BOOLEAN /\ byte \in 0..(Base - 1) BY ViaAssumption DEF IInv
<1>2. ASSUME NEW v, Keeps(via, v), NEW flags PROVE Keeps(via, ClearInterrupt(v, flags))
  BY <1>2, ClearKeeps, KeepsOn DEF Keeps
<1>3. ASSUME NEW v, Keeps(via, v)
      PROVE  /\ Keeps(via, [v EXCEPT !.T1L.low = byte]) /\ Keeps(via, [v EXCEPT !.T1L.high = byte])
             /\ Keeps(via, [v EXCEPT !.T2L.low = byte]) /\ Keeps(via, [v EXCEPT !.T2L.high = byte])
  BY <1>1, <1>3, LatchesKeep, KeepsOn DEF Keeps
<1>4. ASSUME NEW v, Keeps(via, v)
      PROVE  Keeps(via, Reloaded(v)) /\ Keeps(via, [LoadT1(v) EXCEPT !.t1.firing = TRUE, !.pb7 = FALSE])
  BY <1>4, LoadT1Keeps, KeepsOn DEF Keeps
<1>5. Keeps(via, via) /\ Keeps(via, GetT1(via)) BY <1>1, GetT1Keeps DEF Keeps
<1>6. CASE WriteT1CL(byte)
  <2>1. Keeps(via, [GetT1(via) EXCEPT !.T1L.low = byte]) BY <1>3, <1>5
  <2> QED BY <1>1, <1>4, <1>6, <2>1, AccessSteps DEF WriteT1CL
<1>7. CASE WriteT1LH(byte)
  <2> DEFINE v == ClearInterrupt([GetT1(via) EXCEPT !.T1L.high = byte], {"T1"} \ JustFired(via))
  <2>1. Keeps(via, [GetT1(via) EXCEPT !.T1L.high = byte]) BY <1>3, <1>5
  <2>2. Keeps(via, v) BY <1>2, <2>1
  <2> QED BY <1>1, <1>4, <1>7, <2>2, AccessSteps DEF WriteT1LH
<1>8. CASE WriteT1CH(byte)
  <2> DEFINE c == ClearInterrupt(via, {"T1"} \ JustFired(via))
             v == [c EXCEPT !.T1L.high = byte]
  <2>1. Keeps(via, c) BY <1>2, <1>5
  <2>2. Keeps(via, v) BY <1>3, <2>1
  <2>3. /\ Access("T1CH", [LoadT1(v) EXCEPT !.t1.firing = TRUE, !.pb7 = FALSE])
        /\ loaded' = TRUE /\ adc' = adc
    BY <1>8 DEF WriteT1CH
  <2> HIDE DEF v
  <2> QED BY <1>4, <2>2, <2>3, AccessSteps
<1>9. CASE WriteT2CL(byte) BY <1>1, <1>3, <1>5, <1>9, AccessSteps DEF WriteT2CL
<1>10. CASE WriteT2CH(byte)
  <2> DEFINE c == ClearInterrupt(via, {"T2"} \ JustFired(via))
             v == [c EXCEPT !.T2L.high = byte]
             count == IF Pulses(v) THEN Latch2(v) ELSE Latch2(v) + 1
             w == [v EXCEPT !.t2 = [SetCount(@, count) EXCEPT !.firing = TRUE]]
  <2>1. Keeps(via, c) BY <1>2, <1>5
  <2>2. Keeps(via, v) BY <1>3, <2>1
  <2>3. Access("T2CH", w) /\ adc' = adc /\ loaded' = loaded BY <1>10 DEF WriteT2CH
  <2> HIDE DEF v
  <2>4. Keeps(v, w) BY <2>2, LoadT2Keeps DEF Keeps
  <2> HIDE DEF w
  <2>5. Keeps(via, w) BY <2>2, <2>4, KeepsOn
  <2> QED BY <1>1, <2>3, <2>5, AccessSteps
<1> QED BY <1>6, <1>7, <1>8, <1>9, <1>10

\* The writes to the control registers and those of the interrupts.
LEMMA ControlSteps ==
  ASSUME IInv,
         \/ \E bits \in SUBSET program.ACR : WriteACR(bits)
         \/ WriteIFR(program.flags)
         \/ \E enable \in BOOLEAN : WriteIER(enable)
         \/ \E pcr \in program.PCR : WritePCR(pcr)
  PROVE  Step
<1> USE DEF Write
<1>1. Sound(via) /\ loaded \in BOOLEAN /\ program \in Programs /\ via.id = program.id BY DEF IInv
<1>2. /\ program.flags \subseteq Interrupts /\ program.ACR \subseteq Modes
      /\ program.PCR \subseteq [CA1 : Edges, CB1 : Edges, CA2 : IF program.id = "system" THEN Edges ELSE Edges \cup {"low", "high"}]
  BY <1>1, ProgramsAssumption
<1>3. via \in Vias BY <1>1, SoundTypes
<1>4. ASSUME NEW bits \in SUBSET program.ACR, WriteACR(bits) PROVE Step
  <2> DEFINE w == UpdateIraCached([via EXCEPT !.ACR = bits])
             x == IF w.t1.fired /\ ~Continuous(w) THEN [w EXCEPT !.t1.firing = FALSE] ELSE w
             change == IF Pulses(x) THEN -1 ELSE 1
             y == IF x.t2.ticking = Pulses(x)
                  THEN [x EXCEPT !.t2 = [SetCount(@, Count2(x) + change) EXCEPT !.ticking = ~Pulses(x)]] ELSE x
  <2>1. bits \in SUBSET Modes BY <1>2
  <2>2. Keeps(via, y) BY <1>1, <2>1, AcrKeeps
  <2>3. Access("ACR", y) /\ adc' = adc /\ loaded' = loaded BY <1>4 DEF WriteACR
  <2> HIDE DEF y
  <2> QED BY <1>1, <2>2, <2>3, AccessSteps
<1>5. ASSUME WriteIFR(program.flags) PROVE Step
  <2> DEFINE flags == (via.IFR \ program.flags) \cup JustFired(via)
  <2>1. flags \in SUBSET (Interrupts \cup {"IRQ"}) BY <1>3 DEF Vias, JustFired, Interrupts
  <2>2. Access("IFR", SetIFR(via, flags)) /\ adc' = adc /\ loaded' = loaded BY <1>5 DEF WriteIFR
  <2> HIDE DEF flags
  <2> QED BY <1>1, <2>1, <2>2, SetIFRKeeps, AccessSteps
<1>6. ASSUME NEW enable \in BOOLEAN, WriteIER(enable) PROVE Step
  <2> DEFINE enabled == IF enable THEN via.IER \cup program.flags ELSE via.IER \ program.flags
  <2>1. enabled \in SUBSET Interrupts BY <1>2, <1>3 DEF Vias
  <2>2. Access("IER", CheckInterrupt([via EXCEPT !.IER = enabled])) /\ adc' = adc /\ loaded' = loaded
    BY <1>6 DEF WriteIER
  <2> HIDE DEF enabled
  <2> QED BY <1>1, <2>1, <2>2, EnableKeeps, AccessSteps
<1>7. ASSUME NEW pcr \in program.PCR, WritePCR(pcr) PROVE Step
  <2> DEFINE u == [via EXCEPT !.PCR = pcr]
             w == CASE pcr.CA2 = "low" -> SetCA2(u, FALSE) [] pcr.CA2 = "high" -> SetCA2(u, TRUE) [] OTHER -> u
  <2>1. pcr \in [CA1 : Edges, CB1 : Edges, CA2 : IF via.id = "system" THEN Edges ELSE Edges \cup {"low", "high"}]
    BY <1>1, <1>2
  <2>2. pcr \in Pcrs /\ (via.id = "system" => pcr.CA2 \in Edges)
    <3>1. CASE via.id = "system" BY <2>1, <3>1 DEF Pcrs
    <3>2. CASE via.id # "system" BY <2>1, <3>2 DEF Pcrs
    <3> QED BY <3>1, <3>2
  <2>3. /\ Sound(w) /\ w.id = via.id /\ w.half = via.half /\ w.CB1 = via.CB1
        /\ Missed(w) => Missed(via) \/ w.PCR # via.PCR
    BY <1>1, <2>2, PcrKeeps
  <2>4. Access("PCR", w) /\ adc' = adc /\ loaded' = loaded BY <1>7 DEF WritePCR
  <2> HIDE DEF w
  <2>5. via' = [w EXCEPT !.free = FALSE] /\ program' = program /\ (program.timed => ~via.half) BY <2>4 DEF Access
  <2>6. Keeps(w, via') BY <2>3, <2>5, FreeKeeps
  <2>7. StartOK(via', program.timed) BY <2>3, <2>5, <2>6 DEF Keeps, StartOK
  <2> QED BY <2>3, <2>4, <2>5, <2>6, <2>7 DEF Step, IInv, Keeps
<1> QED BY <1>4, <1>5, <1>6, <1>7

\* The writes to the ports.
LEMMA PortSteps ==
  ASSUME IInv,
         \/ \E bits \in PortB : WriteORB(bits) \/ WriteDDRB(bits)
         \/ \E output \in BOOLEAN : WriteDDRA(output)
         \/ \E column \in Columns \cup {NoColumn} : WriteORA(column) \/ WriteORAnh(column)
  PROVE  Step
<1> USE DEF Write
<1>1. Sound(via) /\ loaded \in BOOLEAN /\ via \in Vias BY SoundTypes DEF IInv
<1>2. ASSUME NEW v, Sound(v) PROVE Keeps(v, UpdatePortB(v)) BY <1>2, PortBKeeps
<1>3. ASSUME NEW bits \in PortB, WriteORB(bits) \/ WriteDDRB(bits) PROVE Step
  <2>1. bits \in SUBSET (0..3) BY ViaAssumption
  <2>2. Keeps(via, [via EXCEPT !.ORB = bits]) /\ Keeps(via, [via EXCEPT !.DDRB = bits]) BY <1>1, <2>1, PortBWrites
  <2>3. CASE WriteORB(bits)
    <3> DEFINE v == ClearInterrupt([via EXCEPT !.ORB = bits], {"CB1"})
    <3> DEFINE u == [via EXCEPT !.ORB = bits]
    <3>0. Keeps(via, u) BY <2>2
    <3>2. Access("ORB", UpdatePortB(v)) /\ adc' = adc /\ loaded' = loaded BY <2>3 DEF WriteORB
    <3>4. v = ClearInterrupt(u, {"CB1"}) OBVIOUS
    <3> HIDE DEF u, v
    <3>5. Keeps(u, v) BY <3>0, <3>4, ClearKeeps DEF Keeps
    <3>1. Keeps(via, v) BY <3>0, <3>5, KeepsOn
    <3>3. Keeps(via, UpdatePortB(v)) BY <1>2, <3>1, KeepsOn DEF Keeps
    <3> QED BY <1>1, <3>2, <3>3, AccessSteps
  <2>4. CASE WriteDDRB(bits)
    <3> DEFINE v == [via EXCEPT !.DDRB = bits]
    <3>1. Access("DDRB", UpdatePortB(v)) /\ adc' = adc /\ loaded' = loaded BY <2>4 DEF WriteDDRB
    <3>2. Keeps(via, v) BY <2>2
    <3> HIDE DEF v
    <3>3. Keeps(via, UpdatePortB(v)) BY <1>2, <3>2, KeepsOn DEF Keeps
    <3> QED BY <1>1, <3>1, <3>3, AccessSteps
  <2> QED BY <1>3, <2>3, <2>4
<1>4. ASSUME NEW output \in BOOLEAN, WriteDDRA(output) PROVE Step
  <2>1. Ported(via, [via EXCEPT !.DDRA = output]) BY <1>1, PortAWrites
  <2> QED BY <1>1, <1>4, <2>1, PortAKeeps, AccessSteps DEF WriteDDRA
<1>5. ASSUME NEW column \in Columns \cup {NoColumn}, WriteORAnh(column) PROVE Step
  <2>1. Ported(via, [via EXCEPT !.ORA = column]) BY <1>1, PortAWrites
  <2> QED BY <1>1, <1>5, <2>1, PortAKeeps, AccessSteps DEF WriteORAnh
<1>6. ASSUME NEW column \in Columns \cup {NoColumn}, WriteORA(column) PROVE Step
  <2> DEFINE v == ClearInterrupt(via, {"CA1", "CA2"})
  <2>1. Keeps(via, v) BY <1>1, ClearKeeps
  <2>2. Access("ORA", UpdatePortA([v EXCEPT !.ORA = column])) /\ adc' = adc /\ loaded' = loaded BY <1>6 DEF WriteORA
  <2> HIDE DEF v
  <2>3. Ported(v, [v EXCEPT !.ORA = column]) BY <2>1, PortAWrites DEF Keeps
  <2>4. Keeps(via, UpdatePortA([v EXCEPT !.ORA = column])) BY <2>1, <2>3, PortAKeeps, KeepsOn DEF Keeps
  <2> QED BY <1>1, <2>2, <2>4, AccessSteps
<1> QED BY <1>3, <1>4, <1>5, <1>6

\* What happens around the chip.
LEMMA OtherSteps ==
  ASSUME IInv,
         \/ Cycle \/ PowerOnReset \/ Vsync \/ StartConversion \/ ConversionDone
         \/ \E keys \in SUBSET Columns : KeysChange(keys)
  PROVE  Step
<1>1. /\ Sound(via) /\ loaded \in BOOLEAN /\ program \in Programs /\ via.id = program.id
      /\ adc \in [busy : BOOLEAN, ready : BOOLEAN] /\ (adc.busy => via.CB1) /\ StartOK(via, program.timed)
  BY DEF IInv
<1>2. program.timed \in BOOLEAN BY <1>1, ProgramsAssumption
<1>3. via \in Vias BY <1>1, SoundTypes
<1>4. CASE Cycle
  <2>1. program' = program /\ adc' = adc /\ loaded' = loaded BY <1>4 DEF Cycle
  <2>2. /\ Sound(via') /\ via'.id = via.id /\ via'.half = FALSE /\ via'.CB1 = via.CB1 /\ via'.PCR = via.PCR
        /\ Missed(via') => Missed(via)
    <3> DEFINE a == IF program.timed THEN Advance(via, IF via.half THEN 1 ELSE 2) ELSE via
               w == [a EXCEPT !.half = FALSE, !.free = TRUE]
    <3>1. via' = w /\ (program.timed => via.t1.value > -MaxIdle /\ via.t2.value > -MaxIdle) BY <1>4 DEF Cycle
    <3>3. \/ a = via
          \/ /\ via.half => ~via.t1.firing /\ ~via.t2.firing
             /\ via.t1.value > -MaxIdle /\ via.t2.value > -MaxIdle
             /\ a = Advance(via, IF via.half THEN 1 ELSE 2)
      BY <1>1, <3>1 DEF StartOK
    <3> HIDE DEF a
    <3>2. /\ Sound(w) /\ w.id = via.id /\ w.half = FALSE /\ w.CB1 = via.CB1 /\ w.PCR = via.PCR
          /\ Missed(w) => Missed(via)
      BY <1>1, <3>3, CycleFacts
    <3> HIDE DEF w
    <3> QED BY <3>1, <3>2
  <2> QED BY <1>1, <2>1, <2>2 DEF Step, IInv, StartOK
<1>5. CASE PowerOnReset
  <2>1. program' = program /\ adc' = [busy |-> FALSE, ready |-> FALSE] /\ loaded' = FALSE /\ via' = PowerOn(via.id, via.keys)
    BY <1>5 DEF PowerOnReset, AdcPowerOn
  <2>2. via.id \in {"system", "user"} /\ via.keys \in SUBSET Columns BY <1>3 DEF Vias
  <2>3. Sound(via') /\ via'.id = via.id /\ ~via'.t1.firing /\ ~via'.t2.firing /\ ~Missed(via')
    BY <2>1, <2>2, PowerOnFacts
  <2> QED BY <1>1, <2>1, <2>3 DEF Step, IInv, StartOK
<1>6. CASE Vsync
  <2> DEFINE level == ~via.CA1
  <2>1. program' = program /\ adc' = adc /\ loaded' = loaded /\ via' = SetCA1(via, level) BY <1>6 DEF Vsync
  <2>2. level \in BOOLEAN OBVIOUS
  <2> HIDE DEF level
  <2>3. Keeps(via, via') BY <1>1, <2>1, <2>2, SetCA1Keeps
  <2>4. RestKept(via, via') BY <1>3, <2>1, <2>2, SetCA1Facts DEF Raises
  <2> QED BY <1>1, <2>1, <2>3, <2>4 DEF Step, IInv, Keeps, StartOK, RestKept
<1>7. CASE StartConversion
  <2> DEFINE v == SetCB1(via, TRUE)
  <2>1. Access("ADC", v) /\ adc' = [busy |-> TRUE, ready |-> FALSE] /\ loaded' = loaded BY <1>7 DEF StartConversion
  <2>2. Sound(v) /\ v.id = via.id /\ v.half = via.half /\ v.PCR = via.PCR /\ v.CB1 = TRUE /\ (Missed(v) => Missed(via))
    BY <1>1, SetCB1Keeps
  <2> HIDE DEF v
  <2>3. via' = [v EXCEPT !.free = FALSE] /\ program' = program /\ (program.timed => ~via.half) BY <2>1 DEF Access
  <2>4. Keeps(v, via') BY <2>2, <2>3, FreeKeeps
  <2>5. StartOK(via', program.timed) BY <2>2, <2>3, <2>4 DEF Keeps, StartOK
  <2> QED BY <1>1, <2>1, <2>2, <2>3, <2>4, <2>5 DEF Step, IInv, Keeps
<1>8. CASE ConversionDone
  <2>1. /\ adc.busy /\ adc' = [busy |-> FALSE, ready |-> TRUE] /\ via' = SetCB1(via, FALSE)
        /\ loaded' = loaded /\ program' = program
    BY <1>8 DEF ConversionDone
  <2>2. Sound(via') /\ via'.id = via.id /\ via'.PCR = via.PCR /\ (Missed(via') => Missed(via))
    BY <1>1, <2>1, SetCB1Keeps
  <2>3. /\ Raises(via, via')
        /\ FALSE # via.CB1 /\ FALSE = (via.PCR.CB1 = "rising") => "CB1" \in via'.IFR
    BY <1>3, <2>1, SetCB1Facts
  <2>4. via.PCR.CB1 = "falling" => "CB1" \in via'.IFR BY <1>1, <2>1, <2>3
  <2>5. StartOK(via', program.timed) BY <1>1, <2>3 DEF Raises, RestKept, StartOK
  <2> QED BY <1>1, <2>1, <2>2, <2>4, <2>5 DEF Step, IInv
<1>9. ASSUME NEW keys \in SUBSET Columns, KeysChange(keys) PROVE Step
  <2>1. /\ ~program.timed /\ via' = UpdatePortA([via EXCEPT !.keys = keys])
        /\ adc' = adc /\ loaded' = loaded /\ program' = program
    BY <1>9 DEF KeysChange
  <2>2. Ported(via, [via EXCEPT !.keys = keys]) BY <1>1, PortAWrites
  <2>3. Keeps(via, via') BY <1>1, <2>1, <2>2, PortAKeeps
  <2> QED BY <1>1, <2>1, <2>3 DEF Step, IInv, Keeps, StartOK
<1> QED BY <1>4, <1>5, <1>6, <1>7, <1>8, <1>9

\* The invariant is inductive, and no step leaves an edge unnoticed.
LEMMA EveryStep == IInv /\ [Next]_vars => Step
<1> SUFFICES ASSUME IInv, [Next]_vars PROVE Step OBVIOUS
<1>1. CASE UNCHANGED vars BY <1>1 DEF vars, Step, IInv
<1>2. CASE Next BY <1>2, ReadSteps, TimerSteps, ControlSteps, PortSteps, OtherSteps DEF Next
<1> QED BY <1>1, <1>2

\* The invariant holds of the VIA as it is created.
LEMMA Initially == Init => IInv
<1> SUFFICES ASSUME Init PROVE IInv OBVIOUS
<1>1. /\ program \in Programs /\ via = PowerOn(program.id, {}) /\ adc = [busy |-> FALSE, ready |-> FALSE]
      /\ loaded = FALSE
  BY DEF Init
<1>2. program.id \in {"system", "user"} BY <1>1, ProgramsAssumption
<1>3. Sound(via) /\ via.id = program.id /\ ~via.t1.firing /\ ~via.t2.firing BY <1>1, <1>2, PowerOnFacts
<1> QED BY <1>1, <1>3 DEF IInv, StartOK

\* The invariant is what is to be shown of the chip.
LEMMA Coheres == IInv => Coherent
<1> SUFFICES ASSUME IInv PROVE Coherent OBVIOUS
<1>1. Sound(via) /\ via \in Vias BY SoundTypes DEF IInv
<1>2. IrqIsCurrent BY <1>1 DEF Sound, IrqOK, IrqIsCurrent
<1>3. BusIsCurrent BY <1>1 DEF Sound, BusOK, BusIsCurrent, KeyDown
<1>4. TypeOK
  <2>1. TimersOK(via) BY <1>1 DEF Sound
  <2>2. /\ Span(via.t1.value) /\ Span(via.t2.value)
        /\ via.t1.firing => via.t1.value >= 2
        /\ via.t2.firing => via.t2.value >= 0 /\ (via.t2.ticking => via.t2.value >= 2)
    BY <2>1 DEF TimersOK
  <2>3. via.t1.firing => via.t1.value >= 0 /\ via.t1.value # 0 BY <2>2, Widths DEF Span
  <2>4. via.t2.firing => via.t2.value >= 0 /\ (via.t2.ticking => via.t2.value # 0) BY <2>2, Widths DEF Span
  <2> QED BY <1>1, <2>2, <2>3, <2>4 DEF IInv, TypeOK, Vias, Pins, Latches, Span
<1> QED BY <1>2, <1>3, <1>4 DEF Coherent

-----------------------------------------------------------------------------
(* Whatever programs run, the line to the 6502 is what the enabled flags make *)
(* it, port A and the keyboard's line are what the pins make them, and no     *)
(* timer runs past its expiry (via.c:82, 107, 229, 533).                      *)
THEOREM ViaIsCoherent == Spec => []Coherent
<1>1. IInv /\ [Next]_vars => IInv' BY EveryStep DEF Step
<1> QED BY <1>1, Initially, Coheres, PTL DEF Spec

(* No edge of the keyboard or the converter goes unnoticed (via.c:97, adc.c:79). *)
THEOREM EdgesAreAlwaysSeen == Spec => EdgesAreSeen
<1>1. IInv /\ [Next]_vars => IInv' BY EveryStep DEF Step
<1>2. IInv /\ [Next]_vars => [KeyMissed' => KeyMissed \/ via'.PCR # via.PCR]_vars
  BY EveryStep DEF Step, Missed, KeyMissed
<1>3. IInv /\ [Next]_vars => [adc'.ready /\ ~adc.ready /\ via.PCR.CB1 = "falling" => "CB1" \in via'.IFR]_vars
  BY EveryStep DEF Step
<1> QED BY <1>1, <1>2, <1>3, Initially, PTL DEF Spec, EdgesAreSeen, KeyIsSeen, ConversionIsSeen

-----------------------------------------------------------------------------
(* The timers are those of the chip.                                         *)

\* What a count is after it has gone on to k, reloading from the latch after -1.
Rolled(k, latch) == IF k >= -1 THEN k ELSE latch - ((-k - 2) % (latch + 2))

\* One more count.
LEMMA RolledTurns ==
  ASSUME NEW k \in Int, NEW latch \in Nat
  PROVE  /\ Rolled(k - 1, latch) = IF Rolled(k, latch) = -1 THEN latch ELSE Rolled(k, latch) - 1
         /\ Rolled(k, latch) \in Int /\ Rolled(k, latch) >= -1
<1> DEFINE b == latch + 2
<1>1. b \in Int /\ b > 0 OBVIOUS
<1>2. CASE k >= 0 BY <1>2 DEF Rolled
<1>3. CASE k + 1 = 0
  <2>1. 0 % b = 0 BY <1>1, Quotient
  <2>2. -(k - 1) - 2 = 0 /\ k - 1 < -1 /\ k >= -1 BY <1>3
  <2>3. Rolled(k, latch) = -1 /\ Rolled(k, latch) = k BY <1>3, <2>2 DEF Rolled
  <2>4. Rolled(k - 1, latch) = latch BY <2>1, <2>2 DEF Rolled
  <2> QED BY <2>3, <2>4
<1>4. CASE k <= -2
  <2> DEFINE a == -k - 2
             q == a \div b
             r == a % b
  <2>1. a \in Int /\ -(k - 1) - 2 = a + 1 /\ k - 1 < -1 BY <1>4
  <2>2. q \in Int /\ r = a - b * q /\ r \in 0..(b - 1) BY <1>1, <2>1, Division
  <2>3. (a + 1) % b = IF r = b - 1 THEN 0 ELSE r + 1
    <3>1. CASE r = b - 1
      <4> DEFINE p == q + 1
                 z == 0
                 sum == a + 1
      <4>1. p \in Int /\ sum \in Int /\ z \in Int /\ z >= 0 /\ z < b /\ sum = p * b + z BY <1>1, <2>1, <2>2, <3>1
      <4> HIDE DEF p, z, sum, b
      <4>2. sum % b = z BY <1>1, <4>1, Quotient
      <4> QED BY <3>1, <4>2 DEF sum, z
    <3>2. CASE r # b - 1
      <4> DEFINE p == r + 1
      <4>1. p \in Int /\ p >= 0 /\ p < b /\ a + 1 \in Int /\ a + 1 = q * b + p BY <1>1, <2>1, <2>2, <3>2
      <4> HIDE DEF p, q, r, a, b
      <4>2. (a + 1) % b = p BY <1>1, <2>2, <4>1, Quotient
      <4> QED BY <3>2, <4>2 DEF p
    <3> QED BY <3>1, <3>2
  <2>4. Rolled(k, latch) = latch - r BY <1>4 DEF Rolled
  <2>5. Rolled(k - 1, latch) = latch - ((a + 1) % b) BY <1>4, <2>1 DEF Rolled
  <2> HIDE DEF r, a
  <2> QED BY <2>2, <2>3, <2>4, <2>5
<1> QED BY <1>2, <1>3, <1>4

\* Remainders of half cycles.
LEMMA Doubled ==
  ASSUME NEW a \in Int, NEW b \in Int, b > 0
  PROVE  (2 * a) % (2 * b) = 2 * (a % b) /\ (2 * a + 1) % (2 * b) = 2 * (a % b) + 1
<1> DEFINE q == a \div b
           r == a % b
           c == 2 * b
           x == 2 * a
           y == 2 * a + 1
           s == 2 * r
           t == 2 * r + 1
<1>1. q \in Int /\ r \in Int /\ r >= 0 /\ r < b /\ a = q * b + r BY Division
<1>2. 2 * (q * b) = q * (2 * b) BY <1>1
<1>3. c \in Int /\ x \in Int /\ y \in Int /\ s \in Int /\ t \in Int /\ s >= 0 /\ s < c /\ t >= 0 /\ t < c
  BY <1>1
<1>4. x = q * c + s /\ y = q * c + t BY <1>1, <1>2
<1> HIDE DEF q, r, c, x, y, s, t
<1>5. x % c = s /\ y % c = t BY <1>1, <1>3, <1>4, Quotient
<1> QED BY <1>5 DEF x, y, c, s, t, r

\* A count that is brought up to date after whole cycles.
LEMMA RelatchedWhole ==
  ASSUME NEW k \in Int, 2 * k >= -(2 * MaxIdle) - 2, NEW latch \in Int, latch >= 0, latch <= MaxCount
  PROVE  Relatched(2 * k, 2 * (latch + 2)) = 2 * Rolled(k, latch)
<1> DEFINE raw == 2 * k
           reload == 2 * (latch + 2)
           a == -k - 2
<1>1. raw \in Int /\ reload \in 4..(2 * MaxCount + 4) BY Widths
<1>2. CASE k >= -1
  <2>1. Relatched(raw, reload) = raw BY <1>1, <1>2, RelatchedFacts
  <2> QED BY <1>2, <2>1 DEF Rolled
<1>3. CASE k < -1
  <2>1. raw < -3 /\ -raw - 4 = 2 * a /\ a \in Int BY <1>3
  <2>2. Relatched(raw, reload) = reload - 4 - ((-raw - 4) % reload) BY <1>1, <2>1, RelatchedFacts
  <2>3. (2 * a) % reload = 2 * (a % (latch + 2)) BY <2>1, Doubled
  <2>4. Rolled(k, latch) = latch - (a % (latch + 2)) BY <1>3 DEF Rolled
  <2>5. a % (latch + 2) \in Int BY <2>1, Division
  <2> DEFINE rest == a % (latch + 2)
  <2> HIDE DEF a
  <2> QED BY <2>1, <2>2, <2>3, <2>4, <2>5
<1> QED BY <1>2, <1>3

\* A count of timer 2 that is brought up to date half a cycle later.
LEMMA RelatchedHalf ==
  ASSUME NEW k \in Int, 2 * k + 1 >= -(2 * MaxIdle) - 2
  PROVE  LET latch == MaxCount - 1
             raw == Relatched(2 * k + 1, 2 * (MaxCount + 1))
         IN  \/ raw = 2 * Rolled(k, latch) + 1
             \/ raw = -3 /\ Rolled(k, latch) = latch
<1> DEFINE raw == 2 * k + 1
           reload == 2 * (MaxCount + 1)
           latch == MaxCount - 1
           a == -k - 3
           r == a % (MaxCount + 1)
<1>1. raw \in Int /\ reload \in 4..(2 * MaxCount + 4) /\ latch \in Nat /\ latch + 2 = MaxCount + 1 BY Widths
<1>2. Wide % reload = 0 BY ViaAssumption
<1>3. CASE k >= -1
  <2>1. Relatched(raw, reload) = raw BY <1>1, <1>3, RelatchedFacts
  <2> QED BY <1>3, <2>1 DEF Rolled
<1>4. CASE k = -2
  <2>1. raw = -3 BY <1>4
  <2>2. Relatched(raw, reload) = -3 BY <1>1, <1>2, <2>1, RelatchedFacts
  <2>3. Rolled(k, latch) = IF Rolled(k + 1, latch) = -1 THEN latch ELSE Rolled(k + 1, latch) - 1
    <3>1. k + 1 \in Int /\ (k + 1) - 1 = k OBVIOUS
    <3> QED BY <1>1, <3>1, RolledTurns
  <2>4. Rolled(k + 1, latch) = -1 BY <1>4 DEF Rolled
  <2> QED BY <2>2, <2>3, <2>4
<1>5. CASE k < -2
  <2>1. raw < -3 /\ -raw - 4 = 2 * a + 1 /\ a \in Int BY <1>5
  <2>2. Relatched(raw, reload) = reload - 4 - ((-raw - 4) % reload) BY <1>1, <2>1, RelatchedFacts
  <2>3. MaxCount + 1 \in Int /\ MaxCount + 1 > 0 BY Widths
  <2>4. (2 * a + 1) % reload = 2 * r + 1 BY <2>1, <2>3, Doubled
  <2>5. r \in Int BY <2>1, <2>3, Division
  <2>6. Rolled(k + 1, latch) = latch - r
    <3>1. -(k + 1) - 2 = a /\ k + 1 < -1 BY <1>5
    <3> QED BY <1>1, <3>1 DEF Rolled
  <2>7. Rolled(k, latch) = IF Rolled(k + 1, latch) = -1 THEN latch ELSE Rolled(k + 1, latch) - 1
    <3>1. k + 1 \in Int /\ (k + 1) - 1 = k OBVIOUS
    <3> QED BY <1>1, <3>1, RolledTurns
  <2>8. Relatched(raw, reload) = 2 * MaxCount - 3 - 2 * r BY <2>1, <2>2, <2>4, <2>5, Widths
  <2> HIDE DEF r, a
  <2> QED BY <2>5, <2>6, <2>7, <2>8, Widths
<1> QED BY <1>3, <1>4, <1>5

\* The counts of the timers, with k whole cycles to go on to 0.
Shown2(v) == IF Count2(v) < -1 THEN Count2(v) % (MaxCount + 1) ELSE Count2(v)
\* The count of timer 1, k whole cycles before 0.
LEMMA Counts1 ==
  ASSUME NEW v, Sound(v), NEW k \in Int, v.t1.value = 2 * k + 2
  PROVE  Count1(v) = Rolled(k, Latch1(v)) /\ Raw1(v) = 2 * Count1(v) /\ Count1(v) \in Int /\ Count1(v) >= -1
<1>1. Latch1(v) \in Int /\ Latch1(v) >= 0 /\ Latch1(v) <= MaxCount BY SoundTypes, LatchRange, Widths
<1>2. 2 * k + 2 >= -(2 * MaxIdle) BY Widths DEF Sound, TimersOK, Span
<1>3. 2 * k >= -(2 * MaxIdle) - 2 BY <1>2, Widths
<1>4. v.t1.value - 2 = 2 * k OBVIOUS
<1>5. Raw1(v) = 2 * Rolled(k, Latch1(v)) BY <1>1, <1>3, <1>4, RelatchedWhole DEF Raw1
<1>6. Latch1(v) \in Nat BY <1>1
<1>7. Rolled(k, Latch1(v)) \in Int /\ Rolled(k, Latch1(v)) >= -1 BY <1>6, RolledTurns
<1> QED BY <1>5, <1>7 DEF Count1
\* The count of timer 2, in the first and in the second half of its cycle.
LEMMA Counts2 ==
  ASSUME NEW v, Sound(v), NEW k \in Int, v.t2.value = 2 * k + 2 \/ v.t2.value = 2 * k + 3
  PROVE  /\ Shown2(v) = Rolled(k, MaxCount - 1)
         /\ v.t2.value = 2 * k + 2 => Count2(v) = Rolled(k, MaxCount - 1) /\ Raw2(v) = 2 * Count2(v)
         /\ Count2(v) = Rolled(k, MaxCount - 1) \/ (Count2(v) = -2 /\ Rolled(k, MaxCount - 1) = MaxCount - 1)
         /\ Rolled(k, MaxCount - 1) \in Int /\ Rolled(k, MaxCount - 1) >= -1
<1> DEFINE latch == MaxCount - 1
           c == Rolled(k, latch)
<1>1. latch \in Nat /\ latch <= MaxCount /\ 2 * (latch + 2) = 2 * (MaxCount + 1) BY Widths
<1>2. v.t2.value >= -(2 * MaxIdle) BY Widths DEF Sound, TimersOK, Span
<1>3. c \in Int /\ c >= -1 BY <1>1, RolledTurns
<1>4. CASE v.t2.value = 2 * k + 2
  <2>1. 2 * k >= -(2 * MaxIdle) - 2 /\ v.t2.value - 2 = 2 * k BY <1>2, <1>4, Widths
  <2>4. latch \in Int /\ latch >= 0 BY <1>1
  <2>5. Raw2(v) = Relatched(2 * k, 2 * (latch + 2)) BY <1>1, <2>1 DEF Raw2
  <2> HIDE DEF latch
  <2>2. Raw2(v) = 2 * c BY <1>1, <2>1, <2>4, <2>5, RelatchedWhole
  <2> HIDE DEF c
  <2>3. Count2(v) = c BY <1>3, <2>2 DEF Count2
  <2> QED BY <1>3, <2>2, <2>3 DEF Shown2, c, latch
<1>5. CASE v.t2.value = 2 * k + 3
  <2>1. 2 * k + 1 >= -(2 * MaxIdle) - 2 /\ v.t2.value - 2 = 2 * k + 1 BY <1>2, <1>5, Widths
  <2>2. Raw2(v) = 2 * c + 1 \/ (Raw2(v) = -3 /\ c = latch) BY <2>1, RelatchedHalf DEF Raw2
  <2> HIDE DEF c
  <2>3. Count2(v) = c \/ (Count2(v) = -2 /\ c = latch) BY <1>3, <2>2 DEF Count2
  <2>4. -2 % (MaxCount + 1) = latch
    <3> DEFINE q == -1
               x == -2
               b == MaxCount + 1
    <3>1. x \in Int /\ q \in Int /\ b \in Int /\ latch \in Int /\ latch >= 0 /\ latch < b /\ x = q * b + latch
      BY Widths
    <3> HIDE DEF q, x, b, latch
    <3>2. x % b = latch BY <3>1, Quotient
    <3> QED BY <3>2 DEF x, b
  <2>5. Shown2(v) = c BY <1>3, <2>3, <2>4 DEF Shown2
  <2>6. ~(v.t2.value = 2 * k + 2) BY <1>5
  <2> QED BY <1>3, <2>3, <2>5, <2>6 DEF c
<1> QED BY <1>4, <1>5

\* What ties the timers to those of the chip. Timer 1 is even once it is loaded, and
\* a timer that has just fired is at 0 or has just been loaded.
Linked(v, known) ==
  /\ v.t1.fired => v.t1.value = 0 \/ (v.t1.value = 2 * Latch1(v) + 4 /\ (v.free => Continuous(v)))
  /\ JustFired(v) \subseteq v.IFR
  /\ known => Even(v.t1.value)
  /\ ~known => ~v.t1.firing /\ ~v.t1.fired
  /\ ~v.t2.ticking => Even(v.t2.value)
Started(v, timed, known) ==
  /\ timed /\ v.half => ~known /\ Even(v.t2.value)
  /\ v.t1.fired => timed

Chips ==
  [t1 : Int, latch1 : Int, armed1 : BOOLEAN, fired1 : BOOLEAN, t2 : Int, latch2 : Int, armed2 : BOOLEAN, fired2 : BOOLEAN,
   continuous : BOOLEAN, pulses : BOOLEAN, pb7 : BOOLEAN, flags : SUBSET TimerFlags]
\* A chip is what its registers are.
LEMMA SameChip ==
  ASSUME NEW c \in Chips, NEW d \in Chips,
         c.t1 = d.t1, c.latch1 = d.latch1, c.armed1 = d.armed1, c.fired1 = d.fired1,
         c.t2 = d.t2, c.latch2 = d.latch2, c.armed2 = d.armed2, c.fired2 = d.fired2,
         c.continuous = d.continuous, c.pulses = d.pulses, c.pb7 = d.pb7, c.flags = d.flags
  PROVE  c = d
BY DEF Chips

\* What the counters are made of.
LEMMA CounterFields ==
  ASSUME NEW v, Sound(v), NEW known \in BOOLEAN
  PROVE  LET c == CountersOf(v, known)
         IN  /\ c \in Chips
             /\ c.t1 = (IF ~known THEN -2 ELSE IF v.t1.fired THEN -1 ELSE Count1(v)) /\ c.latch1 = Latch1(v)
             /\ c.armed1 = v.t1.firing /\ c.fired1 = v.t1.fired
             /\ c.t2 = Shown2(v) /\ c.latch2 = Latch2(v) /\ c.armed2 = v.t2.firing /\ c.fired2 = v.t2.fired
             /\ c.continuous = Continuous(v) /\ c.pulses = Pulses(v) /\ c.pb7 = v.pb7 /\ c.flags = v.IFR \cap TimerFlags
<1> DEFINE t1 == IF ~known THEN -2 ELSE IF v.t1.fired THEN -1 ELSE Count1(v)
           t2 == Shown2(v)
           flags == v.IFR \cap TimerFlags
           continuous == Continuous(v)
           pulses == Pulses(v)
<1>1. v \in Vias /\ v.t1 \in Timer1s /\ v.t2 \in Timer2s BY SoundTypes DEF Vias
<1>2. Count1(v) \in Int /\ Count2(v) \in Int BY Raw1Facts, Raw2Facts DEF Count1, Count2
<1>3. t1 \in Int BY <1>2
<1>4. t2 \in Int BY <1>2, Division, Widths DEF Shown2
<1>5. Latch1(v) \in Int /\ Latch2(v) \in Int BY <1>1, LatchRange, Widths
<1>6. flags \in SUBSET TimerFlags OBVIOUS
<1>7. continuous \in BOOLEAN /\ pulses \in BOOLEAN BY DEF Continuous, Pulses
<1>8. v.t1.firing \in BOOLEAN /\ v.t1.fired \in BOOLEAN /\ v.t2.firing \in BOOLEAN /\ v.t2.fired \in BOOLEAN /\ v.pb7 \in BOOLEAN
  BY <1>1 DEF Vias, Timer1s, Timer2s
<1>9. CountersOf(v, known) =
        [t1 |-> t1, latch1 |-> Latch1(v), armed1 |-> v.t1.firing, fired1 |-> v.t1.fired,
         t2 |-> t2, latch2 |-> Latch2(v), armed2 |-> v.t2.firing, fired2 |-> v.t2.fired,
         continuous |-> continuous, pulses |-> pulses, pb7 |-> v.pb7, flags |-> flags]
  BY DEF CountersOf, Shown2, TimerFlags
<1> HIDE DEF t1, t2, flags, continuous, pulses
<1>10. CountersOf(v, known) \in Chips BY <1>3, <1>4, <1>5, <1>6, <1>7, <1>8, <1>9 DEF Chips
<1>11. LET c == CountersOf(v, known)
       IN  /\ c.t1 = t1 /\ c.latch1 = Latch1(v) /\ c.armed1 = v.t1.firing /\ c.fired1 = v.t1.fired
           /\ c.t2 = t2 /\ c.latch2 = Latch2(v) /\ c.armed2 = v.t2.firing /\ c.fired2 = v.t2.fired
           /\ c.continuous = continuous /\ c.pulses = pulses /\ c.pb7 = v.pb7 /\ c.flags = flags
  BY <1>9
<1> QED BY <1>10, <1>11 DEF t1, t2, flags, continuous, pulses

\* Two structs whose timers are the same.
TimersSame(v, w) ==
  /\ w.t1 = v.t1 /\ w.t2 = v.t2 /\ w.T1L = v.T1L /\ w.T2L = v.T2L /\ w.ACR = v.ACR /\ w.pb7 = v.pb7
\* Structs with the same timers count alike, whatever else they differ in.
LEMMA SameCounters ==
  ASSUME NEW v, NEW w, Sound(v), Sound(w), TimersSame(v, w), NEW known \in BOOLEAN, Linked(v, known),
         w.free => v.free, JustFired(v) \subseteq w.IFR
  PROVE  /\ Linked(w, known) /\ JustFired(w) = JustFired(v)
         /\ CountersOf(w, known) = [CountersOf(v, known) EXCEPT !.flags = w.IFR \cap TimerFlags]
<1>1. /\ Latch1(w) = Latch1(v) /\ Latch2(w) = Latch2(v) /\ Raw1(w) = Raw1(v) /\ Raw2(w) = Raw2(v)
      /\ Continuous(w) = Continuous(v) /\ Pulses(w) = Pulses(v) /\ JustFired(w) = JustFired(v)
  BY DEF TimersSame, Latch1, Latch2, Raw1, Raw2, Continuous, Pulses, JustFired
<1>2. Count1(w) = Count1(v) /\ Shown2(w) = Shown2(v) BY <1>1 DEF Count1, Count2, Shown2
<1>3. Linked(w, known) BY <1>1 DEF Linked, TimersSame
<1> DEFINE c == CountersOf(w, known)
           b == CountersOf(v, known)
           d == [b EXCEPT !.flags = w.IFR \cap TimerFlags]
<1>4. /\ c \in Chips /\ c.t1 = (IF ~known THEN -2 ELSE IF w.t1.fired THEN -1 ELSE Count1(w)) /\ c.latch1 = Latch1(w)
      /\ c.armed1 = w.t1.firing /\ c.fired1 = w.t1.fired
      /\ c.t2 = Shown2(w) /\ c.latch2 = Latch2(w) /\ c.armed2 = w.t2.firing /\ c.fired2 = w.t2.fired
      /\ c.continuous = Continuous(w) /\ c.pulses = Pulses(w) /\ c.pb7 = w.pb7 /\ c.flags = w.IFR \cap TimerFlags
  BY CounterFields
<1>5. /\ b \in Chips /\ b.t1 = (IF ~known THEN -2 ELSE IF v.t1.fired THEN -1 ELSE Count1(v)) /\ b.latch1 = Latch1(v)
      /\ b.armed1 = v.t1.firing /\ b.fired1 = v.t1.fired
      /\ b.t2 = Shown2(v) /\ b.latch2 = Latch2(v) /\ b.armed2 = v.t2.firing /\ b.fired2 = v.t2.fired
      /\ b.continuous = Continuous(v) /\ b.pulses = Pulses(v) /\ b.pb7 = v.pb7
  BY CounterFields
<1> HIDE DEF b, c
<1>6. /\ d \in Chips /\ d.flags = w.IFR \cap TimerFlags
      /\ d.t1 = b.t1 /\ d.latch1 = b.latch1 /\ d.armed1 = b.armed1 /\ d.fired1 = b.fired1
      /\ d.t2 = b.t2 /\ d.latch2 = b.latch2 /\ d.armed2 = b.armed2 /\ d.fired2 = b.fired2
      /\ d.continuous = b.continuous /\ d.pulses = b.pulses /\ d.pb7 = b.pb7
  BY <1>5 DEF Chips
<1> HIDE DEF d
<1>7. c.t1 = d.t1 BY <1>2, <1>4, <1>5, <1>6 DEF TimersSame
<1>8. c.latch1 = d.latch1 /\ c.t2 = d.t2 /\ c.latch2 = d.latch2 BY <1>1, <1>2, <1>4, <1>5, <1>6
<1>9. /\ c.armed1 = d.armed1 /\ c.fired1 = d.fired1 /\ c.armed2 = d.armed2 /\ c.fired2 = d.fired2
      /\ c.pb7 = d.pb7
  BY <1>4, <1>5, <1>6 DEF TimersSame
<1>10. c.continuous = d.continuous /\ c.pulses = d.pulses BY <1>1, <1>4, <1>5, <1>6, Zenon
<1>11. c = d BY <1>4, <1>6, <1>7, <1>8, <1>9, <1>10, SameChip
<1> QED BY <1>1, <1>3, <1>11 DEF b, c, d

\* A value is so many whole cycles more than 2, or half a cycle more.
LEMMA Halves ==
  ASSUME NEW n \in Int
  PROVE  \E k \in Int : (n = 2 * k + 2 \/ n = 2 * k + 3) /\ (Even(n) => n = 2 * k + 2)
<1> DEFINE k == n \div 2 - 1
<1>1. n \div 2 \in Int /\ n % 2 = n - 2 * (n \div 2) /\ n % 2 \in 0..1 BY Division
<1>2. k \in Int /\ n = 2 * k + 2 + (n % 2) BY <1>1
<1> HIDE DEF k
<1>3. n % 2 = 0 \/ n % 2 = 1 BY <1>1
<1> QED BY <1>2, <1>3 DEF Even

\* Bringing timer 1 up to date changes nothing that is seen.
LEMMA GetT1Counters ==
  ASSUME NEW v, Sound(v), NEW known \in BOOLEAN, Linked(v, known)
  PROVE  LET w == GetT1(v)
         IN  /\ Linked(w, known) /\ CountersOf(w, known) = CountersOf(v, known)
             /\ known => w.t1.value >= 0
             /\ w.IFR = v.IFR /\ w.free = v.free /\ w.half = v.half /\ JustFired(w) = JustFired(v)
<1> DEFINE w == GetT1(v)
           t == [v.t1 EXCEPT !.value = Raw1(v) + 2]
<1>1. v \in Vias /\ v.t1 \in Timer1s BY SoundTypes DEF Vias
<1>2. w = [v EXCEPT !.t1 = t] BY DEF GetT1
<1>3. Raw1(v) \in Int BY Raw1Facts
<1>4. t.value = Raw1(v) + 2 /\ t.firing = v.t1.firing /\ t.fired = v.t1.fired BY <1>1 DEF Timer1s
<1>5. Sound(w) BY GetT1Keeps DEF Keeps
<1> HIDE DEF w, t
<1>6. /\ w.t1 = t /\ w.t2 = v.t2 /\ w.T1L = v.T1L /\ w.T2L = v.T2L /\ w.ACR = v.ACR /\ w.pb7 = v.pb7
      /\ w.IFR = v.IFR /\ w.free = v.free /\ w.half = v.half
  BY <1>1, <1>2 DEF Vias
<1>7. /\ Latch1(w) = Latch1(v) /\ Latch2(w) = Latch2(v) /\ Raw2(w) = Raw2(v)
      /\ Continuous(w) = Continuous(v) /\ Pulses(w) = Pulses(v)
  BY <1>6 DEF Latch1, Latch2, Raw2, Continuous, Pulses
<1>8. JustFired(w) = JustFired(v)
  <2>1. w.t1.fired = v.t1.fired BY <1>4, <1>6
  <2> QED BY <1>6, <2>1 DEF JustFired
<1>9. ASSUME known PROVE w.t1.value >= 0 /\ Even(w.t1.value) /\ Count1(w) = Count1(v)
  <2>1. PICK k \in Int : v.t1.value = 2 * k + 2
    <3>1. v.t1.value \in Int /\ Even(v.t1.value) BY <1>1, <1>9 DEF Linked, Timer1s
    <3> QED BY <3>1, Halves
  <2>2. Raw1(v) = 2 * Count1(v) /\ Count1(v) \in Int /\ Count1(v) >= -1 BY <2>1, Counts1
  <2>3. w.t1.value = 2 * Count1(v) + 2 BY <1>4, <1>6, <2>2
  <2>4. Count1(w) = Rolled(Count1(v), Latch1(w)) BY <1>5, <2>2, <2>3, Counts1
  <2> QED BY <2>2, <2>3, <2>4 DEF Even, Rolled
<1>10. w.t1.fired => w.t1.value = v.t1.value
  <2> SUFFICES ASSUME w.t1.fired PROVE w.t1.value = v.t1.value OBVIOUS
  <2>1. v.t1.value = 0 \/ v.t1.value = 2 * Latch1(v) + 4 BY <1>4, <1>6 DEF Linked
  <2>2. v.t1.value >= 0 /\ v.t1.value \in Int BY <1>1, <2>1, LatchRange, Widths DEF Timer1s
  <2> QED BY <1>3, <1>4, <1>6, <2>2, Raw1Facts
<1>11. Linked(w, known) BY <1>4, <1>6, <1>7, <1>8, <1>9, <1>10 DEF Linked
<1> DEFINE c == CountersOf(w, known)
           b == CountersOf(v, known)
<1>12. /\ c \in Chips /\ c.t1 = (IF ~known THEN -2 ELSE IF w.t1.fired THEN -1 ELSE Count1(w)) /\ c.latch1 = Latch1(w)
      /\ c.armed1 = w.t1.firing /\ c.fired1 = w.t1.fired
      /\ c.t2 = Shown2(w) /\ c.latch2 = Latch2(w) /\ c.armed2 = w.t2.firing /\ c.fired2 = w.t2.fired
      /\ c.continuous = Continuous(w) /\ c.pulses = Pulses(w) /\ c.pb7 = w.pb7 /\ c.flags = w.IFR \cap TimerFlags
  BY <1>5, CounterFields
<1>13. /\ b \in Chips /\ b.t1 = (IF ~known THEN -2 ELSE IF v.t1.fired THEN -1 ELSE Count1(v)) /\ b.latch1 = Latch1(v)
      /\ b.armed1 = v.t1.firing /\ b.fired1 = v.t1.fired
      /\ b.t2 = Shown2(v) /\ b.latch2 = Latch2(v) /\ b.armed2 = v.t2.firing /\ b.fired2 = v.t2.fired
      /\ b.continuous = Continuous(v) /\ b.pulses = Pulses(v) /\ b.pb7 = v.pb7 /\ b.flags = v.IFR \cap TimerFlags
  BY CounterFields
<1> HIDE DEF b, c
<1>14. c.t1 = b.t1 /\ c.armed1 = b.armed1 /\ c.fired1 = b.fired1 BY <1>4, <1>6, <1>9, <1>12, <1>13
<1>15. c.latch1 = b.latch1 /\ c.latch2 = b.latch2 /\ c.t2 = b.t2 BY <1>7, <1>12, <1>13 DEF Shown2, Count2
<1>16. c.armed2 = b.armed2 /\ c.fired2 = b.fired2 /\ c.pb7 = b.pb7 /\ c.flags = b.flags BY <1>6, <1>12, <1>13
<1>17. c.continuous = b.continuous /\ c.pulses = b.pulses BY <1>7, <1>12, <1>13, Zenon
<1>18. c = b BY <1>12, <1>13, <1>14, <1>15, <1>16, <1>17, SameChip
<1> QED BY <1>6, <1>8, <1>9, <1>11, <1>18 DEF c, b, w

\* Bringing timer 2 up to date changes nothing that is seen.
LEMMA GetT2Counters ==
  ASSUME NEW v, Sound(v), NEW known \in BOOLEAN, Linked(v, known)
  PROVE  LET w == GetT2(v)
         IN  /\ Linked(w, known) /\ CountersOf(w, known) = CountersOf(v, known)
             /\ w.IFR = v.IFR /\ w.free = v.free /\ w.half = v.half /\ JustFired(w) = JustFired(v)
<1> DEFINE w == GetT2(v)
           t == [v.t2 EXCEPT !.value = Raw2(v) + 2]
<1>1. v \in Vias /\ v.t2 \in Timer2s BY SoundTypes DEF Vias
<1>2. w = [v EXCEPT !.t2 = t] BY DEF GetT2
<1>3. Raw2(v) \in Int BY Raw2Facts
<1>4. t.value = Raw2(v) + 2 /\ t.firing = v.t2.firing /\ t.fired = v.t2.fired /\ t.ticking = v.t2.ticking
  BY <1>1 DEF Timer2s
<1>5. Sound(w) BY GetT2Keeps DEF Keeps
<1> HIDE DEF w, t
<1>6. /\ w.t1 = v.t1 /\ w.t2 = t /\ w.T1L = v.T1L /\ w.T2L = v.T2L /\ w.ACR = v.ACR /\ w.pb7 = v.pb7
      /\ w.IFR = v.IFR /\ w.free = v.free /\ w.half = v.half
  BY <1>1, <1>2 DEF Vias
<1>7. /\ Latch1(w) = Latch1(v) /\ Latch2(w) = Latch2(v) /\ Raw1(w) = Raw1(v)
      /\ Continuous(w) = Continuous(v) /\ Pulses(w) = Pulses(v)
  BY <1>6 DEF Latch1, Latch2, Raw1, Continuous, Pulses
<1>8. JustFired(w) = JustFired(v)
  <2>1. w.t2.fired = v.t2.fired BY <1>4, <1>6
  <2> QED BY <1>6, <2>1 DEF JustFired
<1>9. Shown2(w) = Shown2(v) /\ (Even(v.t2.value) => Even(w.t2.value))
  <2>1. PICK k \in Int : (v.t2.value = 2 * k + 2 \/ v.t2.value = 2 * k + 3) /\ (Even(v.t2.value) => v.t2.value = 2 * k + 2)
    BY <1>1, Halves DEF Timer2s
  <2> DEFINE c == Rolled(k, MaxCount - 1)
  <2>2. /\ Shown2(v) = c /\ (v.t2.value = 2 * k + 2 => Raw2(v) = 2 * c)
        /\ Count2(v) = c \/ (Count2(v) = -2 /\ c = MaxCount - 1)
        /\ c \in Int /\ c >= -1
    BY <2>1, Counts2
  <2> HIDE DEF c
  <2>3. PICK j \in Int : (w.t2.value = 2 * j + 2 \/ w.t2.value = 2 * j + 3) /\ j = Count2(v)
    BY <1>3, <1>4, <1>6 DEF Count2
  <2>4. Shown2(w) = Rolled(j, MaxCount - 1) BY <1>5, <2>3, Counts2
  <2>5. Rolled(j, MaxCount - 1) = c
    <3>1. CASE j = c BY <2>2, <3>1 DEF Rolled
    <3>2. CASE j = -2 /\ c = MaxCount - 1
      <4>1. MaxCount - 1 \in Nat /\ j + 1 \in Int /\ (j + 1) - 1 = j BY <3>2, Widths
      <4>2. Rolled(j + 1, MaxCount - 1) = -1 BY <3>2 DEF Rolled
      <4>3. Rolled(j, MaxCount - 1) = MaxCount - 1 BY <4>1, <4>2, RolledTurns
      <4> QED BY <3>2, <4>3
    <3> QED BY <2>2, <2>3, <3>1, <3>2
  <2>6. Even(v.t2.value) => Even(w.t2.value) BY <1>4, <1>6, <2>1, <2>2 DEF Even
  <2> QED BY <2>2, <2>4, <2>5, <2>6
<1>10. Linked(w, known)
  <2>1. ~w.t2.ticking => ~v.t2.ticking BY <1>4, <1>6, Zenon
  <2> QED BY <1>6, <1>7, <1>8, <1>9, <2>1 DEF Linked
<1> DEFINE c == CountersOf(w, known)
           b == CountersOf(v, known)
<1>12. /\ c \in Chips /\ c.t1 = (IF ~known THEN -2 ELSE IF w.t1.fired THEN -1 ELSE Count1(w)) /\ c.latch1 = Latch1(w)
      /\ c.armed1 = w.t1.firing /\ c.fired1 = w.t1.fired
      /\ c.t2 = Shown2(w) /\ c.latch2 = Latch2(w) /\ c.armed2 = w.t2.firing /\ c.fired2 = w.t2.fired
      /\ c.continuous = Continuous(w) /\ c.pulses = Pulses(w) /\ c.pb7 = w.pb7 /\ c.flags = w.IFR \cap TimerFlags
  BY <1>5, CounterFields
<1>13. /\ b \in Chips /\ b.t1 = (IF ~known THEN -2 ELSE IF v.t1.fired THEN -1 ELSE Count1(v)) /\ b.latch1 = Latch1(v)
      /\ b.armed1 = v.t1.firing /\ b.fired1 = v.t1.fired
      /\ b.t2 = Shown2(v) /\ b.latch2 = Latch2(v) /\ b.armed2 = v.t2.firing /\ b.fired2 = v.t2.fired
      /\ b.continuous = Continuous(v) /\ b.pulses = Pulses(v) /\ b.pb7 = v.pb7 /\ b.flags = v.IFR \cap TimerFlags
  BY CounterFields
<1> HIDE DEF b, c
<1>14. c.t1 = b.t1 /\ c.armed1 = b.armed1 /\ c.fired1 = b.fired1 BY <1>6, <1>7, <1>12, <1>13 DEF Count1
<1>15. c.latch1 = b.latch1 /\ c.latch2 = b.latch2 /\ c.t2 = b.t2 BY <1>7, <1>9, <1>12, <1>13
<1>16. c.armed2 = b.armed2 /\ c.fired2 = b.fired2 /\ c.pb7 = b.pb7 /\ c.flags = b.flags BY <1>4, <1>6, <1>12, <1>13
<1>17. c.continuous = b.continuous /\ c.pulses = b.pulses BY <1>7, <1>12, <1>13, Zenon
<1>18. c = b BY <1>12, <1>13, <1>14, <1>15, <1>16, <1>17, SameChip
<1> QED BY <1>6, <1>8, <1>10, <1>18 DEF c, b, w

\* A record of the chip that has a struct's counters is what that struct shows.
LEMMA CountersAre ==
  ASSUME NEW w, Sound(w), NEW known \in BOOLEAN, NEW d \in Chips,
         d.t1 = (IF ~known THEN -2 ELSE IF w.t1.fired THEN -1 ELSE Count1(w)), d.latch1 = Latch1(w),
         d.armed1 = w.t1.firing, d.fired1 = w.t1.fired,
         d.t2 = Shown2(w), d.latch2 = Latch2(w), d.armed2 = w.t2.firing, d.fired2 = w.t2.fired,
         d.continuous = Continuous(w), d.pulses = Pulses(w), d.pb7 = w.pb7, d.flags = w.IFR \cap TimerFlags
  PROVE  CountersOf(w, known) = d
<1> DEFINE c == CountersOf(w, known)
<1>1. /\ c \in Chips /\ c.t1 = (IF ~known THEN -2 ELSE IF w.t1.fired THEN -1 ELSE Count1(w)) /\ c.latch1 = Latch1(w)
      /\ c.armed1 = w.t1.firing /\ c.fired1 = w.t1.fired
      /\ c.t2 = Shown2(w) /\ c.latch2 = Latch2(w) /\ c.armed2 = w.t2.firing /\ c.fired2 = w.t2.fired
      /\ c.continuous = Continuous(w) /\ c.pulses = Pulses(w) /\ c.pb7 = w.pb7 /\ c.flags = w.IFR \cap TimerFlags
  BY CounterFields
<1> HIDE DEF c
<1>2. c.continuous = d.continuous /\ c.pulses = d.pulses BY <1>1, Zenon
<1>3. c = d BY <1>1, <1>2, SameChip
<1> QED BY <1>3 DEF c

\* The chip when its timer 1's latch and its flags become those of a struct.
LatchedChip(was, c) == [was EXCEPT !.latch1 = Latch1(c), !.flags = c.IFR \cap TimerFlags]

\* Timer 1's latch is written, and the timer loaded again if it has just been.
LEMMA LatchCounters ==
  ASSUME NEW v, Sound(v), NEW known \in BOOLEAN, Linked(v, known), v.free, known => v.t1.value >= 0,
         NEW c, Sound(c), c.t1 = v.t1, c.t2 = v.t2, c.T2L = v.T2L, c.ACR = v.ACR, c.pb7 = v.pb7,
         JustFired(v) \subseteq c.IFR
  PROVE  LET w == [Reloaded(c) EXCEPT !.free = FALSE]
         IN  /\ Linked(w, known)
             /\ CountersOf(w, known) = LatchedChip(CountersOf(v, known), c)
<1> DEFINE r == Reloaded(c)
           w == [r EXCEPT !.free = FALSE]
           load == v.t1.fired /\ Continuous(v)
<1>1. Sound(r) BY LoadT1Keeps DEF Keeps
<1>2. Sound(w) BY <1>1, FreeKeeps DEF Keeps
<1>3. Continuous(c) = Continuous(v) BY DEF Continuous
<1>4. c \in Vias /\ v.t1 \in Timer1s BY SoundTypes DEF Vias
<1>5. Latch1(c) \in Int /\ Latch1(c) >= 0 /\ Latch1(v) \in Int /\ Latch1(v) >= 0 BY SoundTypes, LatchRange, Widths
<1>6. /\ r.t1.fired = v.t1.fired /\ r.t1.firing = v.t1.firing
      /\ r.t1.value = IF load THEN 2 * Latch1(c) + 4 ELSE v.t1.value
      /\ r.t2 = v.t2 /\ r.T1L = c.T1L /\ r.T2L = v.T2L /\ r.ACR = v.ACR /\ r.pb7 = v.pb7 /\ r.IFR = c.IFR
  <2> DEFINE t == [v.t1 EXCEPT !.value = 2 * (Latch1(c) + 1) + 2]
  <2>1. r = IF load THEN [c EXCEPT !.t1 = t] ELSE c BY <1>3 DEF Reloaded, LoadT1, SetCount
  <2>2. t.fired = v.t1.fired /\ t.firing = v.t1.firing /\ t.value = 2 * Latch1(c) + 4
    <3>1. t.value = 2 * (Latch1(c) + 1) + 2 /\ t.fired = v.t1.fired /\ t.firing = v.t1.firing BY <1>4 DEF Timer1s
    <3> QED BY <1>5, <3>1
  <2> HIDE DEF t, r
  <2>3. CASE load
    <3>1. r = [c EXCEPT !.t1 = t] BY <2>1, <2>3
    <3>2. r.t1 = t /\ r.t2 = c.t2 /\ r.T1L = c.T1L /\ r.T2L = c.T2L /\ r.ACR = c.ACR /\ r.pb7 = c.pb7 /\ r.IFR = c.IFR
      BY <1>4, <3>1 DEF Vias
    <3> QED BY <2>2, <2>3, <3>2
  <2>4. CASE ~load
    <3>1. r = c BY <2>1, <2>4
    <3> QED BY <2>4, <3>1
  <2> QED BY <2>3, <2>4
<1> HIDE DEF r
<1>7. /\ w.t1 = r.t1 /\ w.t2 = v.t2 /\ w.T1L = c.T1L /\ w.T2L = v.T2L /\ w.ACR = v.ACR /\ w.pb7 = v.pb7
      /\ w.IFR = c.IFR /\ w.free = FALSE
  BY <1>1, <1>6, SoundTypes DEF Vias
<1> HIDE DEF w
<1>8. /\ Latch1(w) = Latch1(c) /\ Latch2(w) = Latch2(v) /\ Raw2(w) = Raw2(v)
      /\ Continuous(w) = Continuous(v) /\ Pulses(w) = Pulses(v)
  BY <1>7 DEF Latch1, Latch2, Raw2, Continuous, Pulses
<1>9. JustFired(w) = JustFired(v)
  <2>1. w.t1.fired = v.t1.fired BY <1>6, <1>7
  <2> QED BY <1>7, <2>1 DEF JustFired
<1>10. w.t1.fired => known /\ (w.t1.value = 0 \/ w.t1.value = 2 * Latch1(w) + 4)
  <2> SUFFICES ASSUME w.t1.fired PROVE known /\ (w.t1.value = 0 \/ w.t1.value = 2 * Latch1(w) + 4) OBVIOUS
  <2>1. v.t1.fired /\ known BY <1>6, <1>7 DEF Linked
  <2>2. CASE load BY <1>6, <1>7, <1>8, <2>1, <2>2
  <2>3. CASE ~load
    <3>1. v.t1.value = 0 BY <2>1, <2>3 DEF Linked
    <3> QED BY <1>6, <1>7, <2>1, <2>3, <3>1
  <2> QED BY <2>2, <2>3
<1>11. known => Even(w.t1.value)
  <2> SUFFICES ASSUME known PROVE Even(w.t1.value) OBVIOUS
  <2>1. CASE load
    <3>1. w.t1.value = 2 * Latch1(c) + 4 BY <1>6, <1>7, <2>1
    <3> QED BY <1>5, <3>1 DEF Even
  <2>2. CASE ~load BY <1>6, <1>7, <2>2 DEF Linked
  <2> QED BY <2>1, <2>2
<1>12. Linked(w, known)
  <2>1. ~known => ~w.t1.firing /\ ~w.t1.fired BY <1>6, <1>7 DEF Linked
  <2>2. ~w.t2.ticking => Even(w.t2.value) BY <1>7 DEF Linked
  <2> QED BY <1>7, <1>9, <1>10, <1>11, <2>1, <2>2 DEF Linked
<1>13. known /\ ~w.t1.fired => Count1(w) = Count1(v)
  <2> SUFFICES ASSUME known, ~w.t1.fired PROVE Count1(w) = Count1(v) OBVIOUS
  <2>1. v.t1.value \in Int /\ v.t1.value >= 0 /\ Even(v.t1.value) BY <1>4 DEF Linked, Timer1s
  <2>2. PICK k \in Int : v.t1.value = 2 * k + 2 BY <2>1, Halves
  <2>3. w.t1.value = 2 * k + 2 BY <1>6, <1>7, <2>2
  <2>4. Count1(v) = Rolled(k, Latch1(v)) /\ Count1(w) = Rolled(k, Latch1(w)) BY <1>2, <2>2, <2>3, Counts1
  <2>5. k >= -1 BY <2>1, <2>2
  <2> QED BY <2>4, <2>5 DEF Rolled
<1> DEFINE b == CountersOf(v, known)
           d == [b EXCEPT !.latch1 = Latch1(c), !.flags = c.IFR \cap TimerFlags]
<1>14. /\ b \in Chips /\ b.t1 = (IF ~known THEN -2 ELSE IF v.t1.fired THEN -1 ELSE Count1(v))
      /\ b.armed1 = v.t1.firing /\ b.fired1 = v.t1.fired
      /\ b.t2 = Shown2(v) /\ b.latch2 = Latch2(v) /\ b.armed2 = v.t2.firing /\ b.fired2 = v.t2.fired
      /\ b.continuous = Continuous(v) /\ b.pulses = Pulses(v) /\ b.pb7 = v.pb7
  BY CounterFields
<1> HIDE DEF b
<1>15. /\ d \in Chips /\ d.flags = c.IFR \cap TimerFlags /\ d.latch1 = Latch1(c)
      /\ d.t1 = b.t1 /\ d.armed1 = b.armed1 /\ d.fired1 = b.fired1
      /\ d.t2 = b.t2 /\ d.latch2 = b.latch2 /\ d.armed2 = b.armed2 /\ d.fired2 = b.fired2
      /\ d.continuous = b.continuous /\ d.pulses = b.pulses /\ d.pb7 = b.pb7
  BY <1>5, <1>14 DEF Chips
<1> HIDE DEF d
<1>16. d.t1 = IF ~known THEN -2 ELSE IF w.t1.fired THEN -1 ELSE Count1(w) BY <1>6, <1>7, <1>13, <1>14, <1>15
<1>17. d.t2 = Shown2(w) /\ d.latch1 = Latch1(w) /\ d.latch2 = Latch2(w) BY <1>8, <1>14, <1>15 DEF Shown2, Count2
<1>18. /\ d.armed1 = w.t1.firing /\ d.fired1 = w.t1.fired /\ d.armed2 = w.t2.firing /\ d.fired2 = w.t2.fired
       /\ d.pb7 = w.pb7 /\ d.flags = w.IFR \cap TimerFlags
  BY <1>6, <1>7, <1>14, <1>15
<1>19. d.continuous = Continuous(w) /\ d.pulses = Pulses(w) BY <1>8, <1>14, <1>15, Zenon
<1>20. CountersOf(w, known) = d BY <1>2, <1>15, <1>16, <1>17, <1>18, <1>19, CountersAre
<1> QED BY <1>12, <1>20 DEF d, b, w, r, LatchedChip

\* Timer 1 loaded, in the struct and in the chip; a count that is just up comes first.
Loaded1(c) == [LoadT1(c) EXCEPT !.t1.firing = TRUE, !.pb7 = FALSE]
LoadedChip(was, c) ==
  [was EXCEPT !.latch1 = Latch1(c), !.t1 = IF was.fired1 THEN @ ELSE Latch1(c) + 1,
              !.armed1 = TRUE, !.pb7 = FALSE, !.flags = c.IFR \cap TimerFlags]

\* Timer 1 is loaded by the 6502: the count is seen from the next cycle on.
LEMMA LoadCounters ==
  ASSUME NEW v, Sound(v), NEW known \in BOOLEAN, Linked(v, known),
         NEW c, Sound(c), c.t1 = v.t1, c.t2 = v.t2, c.T2L = v.T2L, c.ACR = v.ACR, JustFired(v) \subseteq c.IFR
  PROVE  LET w == [Loaded1(c) EXCEPT !.free = FALSE]
         IN  /\ Linked(w, TRUE)
             /\ CountersOf(w, TRUE) = LoadedChip(CountersOf(v, known), c)
<1> DEFINE l == [LoadT1(c) EXCEPT !.t1.firing = TRUE, !.pb7 = FALSE]
           w == [l EXCEPT !.free = FALSE]
<1>1. Sound(l) BY LoadT1Keeps DEF Keeps
<1>2. Sound(w) BY <1>1, FreeKeeps DEF Keeps
<1>4. c \in Vias /\ v.t1 \in Timer1s BY SoundTypes DEF Vias
<1>5. Latch1(c) \in Int /\ Latch1(c) >= 0 BY SoundTypes, LatchRange, Widths
<1>6. /\ l.t1.fired = v.t1.fired /\ l.t1.firing = TRUE /\ l.t1.value = 2 * Latch1(c) + 4
      /\ l.t2 = v.t2 /\ l.T1L = c.T1L /\ l.T2L = v.T2L /\ l.ACR = v.ACR /\ l.pb7 = FALSE /\ l.IFR = c.IFR
  <2> DEFINE t == [v.t1 EXCEPT !.value = 2 * (Latch1(c) + 1) + 2]
             f == [t EXCEPT !.firing = TRUE]
             m == [c EXCEPT !.t1 = f]
  <2>1. l = [m EXCEPT !.pb7 = FALSE]
    <3>1. LoadT1(c) = [c EXCEPT !.t1 = t] BY DEF LoadT1, SetCount
    <3> QED BY <1>4, <3>1 DEF Vias
  <2>2. t.value = 2 * (Latch1(c) + 1) + 2 /\ t.fired = v.t1.fired /\ DOMAIN t = {"value", "firing", "fired"}
    BY <1>4 DEF Timer1s
  <2> HIDE DEF t
  <2>3. f.value = t.value /\ f.fired = t.fired /\ f.firing = TRUE BY <2>2
  <2> HIDE DEF f
  <2>4. m.t1 = f /\ m.t2 = c.t2 /\ m.T1L = c.T1L /\ m.T2L = c.T2L /\ m.ACR = c.ACR /\ m.IFR = c.IFR
        /\ DOMAIN m = DOMAIN c
    BY <1>4 DEF Vias
  <2>5. "pb7" \in DOMAIN m BY <1>4, <2>4 DEF Vias
  <2> HIDE DEF l, m
  <2>6. l.t1 = f /\ l.t2 = c.t2 /\ l.T1L = c.T1L /\ l.T2L = c.T2L /\ l.ACR = c.ACR /\ l.IFR = c.IFR /\ l.pb7 = FALSE
    BY <2>1, <2>4, <2>5
  <2> QED BY <1>5, <2>2, <2>3, <2>6
<1> HIDE DEF l
<1>7. /\ w.t1 = l.t1 /\ w.t2 = v.t2 /\ w.T1L = c.T1L /\ w.T2L = v.T2L /\ w.ACR = v.ACR /\ w.pb7 = FALSE
      /\ w.IFR = c.IFR /\ w.free = FALSE
  BY <1>1, <1>6, SoundTypes DEF Vias
<1> HIDE DEF w
<1>8. /\ Latch1(w) = Latch1(c) /\ Latch2(w) = Latch2(v) /\ Raw2(w) = Raw2(v)
      /\ Continuous(w) = Continuous(v) /\ Pulses(w) = Pulses(v)
  BY <1>7 DEF Latch1, Latch2, Raw2, Continuous, Pulses
<1>9. JustFired(w) = JustFired(v)
  <2>1. w.t1.fired = v.t1.fired BY <1>6, <1>7
  <2> QED BY <1>7, <2>1 DEF JustFired
<1>10. Linked(w, TRUE)
  <2>1. Even(w.t1.value) BY <1>5, <1>6, <1>7 DEF Even
  <2>2. ~w.t2.ticking => Even(w.t2.value) BY <1>7 DEF Linked
  <2> QED BY <1>6, <1>7, <1>8, <1>9, <2>1, <2>2 DEF Linked
<1>11. Count1(w) = Latch1(c) + 1
  <2> DEFINE k == Latch1(c) + 1
  <2>1. k \in Int /\ w.t1.value = 2 * k + 2 /\ k >= -1 BY <1>5, <1>6, <1>7
  <2> HIDE DEF k
  <2>2. Count1(w) = Rolled(k, Latch1(w)) BY <1>2, <2>1, Counts1
  <2> QED BY <2>1, <2>2 DEF Rolled, k
<1> DEFINE b == CountersOf(v, known)
           t1 == IF b.fired1 THEN b.t1 ELSE Latch1(c) + 1
           d == [b EXCEPT !.latch1 = Latch1(c), !.t1 = t1, !.armed1 = TRUE, !.pb7 = FALSE, !.flags = c.IFR \cap TimerFlags]
<1>12. /\ b \in Chips /\ b.t1 = (IF ~known THEN -2 ELSE IF v.t1.fired THEN -1 ELSE Count1(v))
      /\ b.fired1 = v.t1.fired
      /\ b.t2 = Shown2(v) /\ b.latch2 = Latch2(v) /\ b.armed2 = v.t2.firing /\ b.fired2 = v.t2.fired
      /\ b.continuous = Continuous(v) /\ b.pulses = Pulses(v)
  BY CounterFields
<1>13. d = LoadedChip(b, c) BY DEF LoadedChip
<1> HIDE DEF b
<1>14. t1 \in Int /\ t1 = IF w.t1.fired THEN -1 ELSE Count1(w)
  <2>1. w.t1.fired = v.t1.fired BY <1>6, <1>7
  <2>2. v.t1.fired => known BY DEF Linked
  <2> QED BY <1>5, <1>11, <1>12, <2>1, <2>2
<1> HIDE DEF t1
<1>15. /\ d \in Chips /\ d.flags = c.IFR \cap TimerFlags /\ d.latch1 = Latch1(c)
      /\ d.t1 = t1 /\ d.armed1 = TRUE /\ d.fired1 = b.fired1
      /\ d.t2 = b.t2 /\ d.latch2 = b.latch2 /\ d.armed2 = b.armed2 /\ d.fired2 = b.fired2
      /\ d.continuous = b.continuous /\ d.pulses = b.pulses /\ d.pb7 = FALSE
  BY <1>5, <1>12, <1>14 DEF Chips
<1> HIDE DEF d
<1>16. d.t1 = IF ~TRUE THEN -2 ELSE IF w.t1.fired THEN -1 ELSE Count1(w) BY <1>14, <1>15
<1>17. d.t2 = Shown2(w) /\ d.latch1 = Latch1(w) /\ d.latch2 = Latch2(w) BY <1>8, <1>12, <1>15 DEF Shown2, Count2
<1>18. /\ d.armed1 = w.t1.firing /\ d.fired1 = w.t1.fired /\ d.armed2 = w.t2.firing /\ d.fired2 = w.t2.fired
       /\ d.pb7 = w.pb7 /\ d.flags = w.IFR \cap TimerFlags
  BY <1>6, <1>7, <1>12, <1>15
<1>19. d.continuous = Continuous(w) /\ d.pulses = Pulses(w) BY <1>8, <1>12, <1>15, Zenon
<1>20. CountersOf(w, TRUE) = d BY <1>2, <1>15, <1>16, <1>17, <1>18, <1>19, CountersAre
<1> QED BY <1>10, <1>13, <1>20 DEF b, w, l, Loaded1

\* Timer 2's latch is written.
LEMMA Latch2Counters ==
  ASSUME NEW v, Sound(v), NEW known \in BOOLEAN, Linked(v, known),
         NEW w, Sound(w), w.t1 = v.t1, w.t2 = v.t2, w.T1L = v.T1L, w.ACR = v.ACR, w.pb7 = v.pb7,
         w.IFR = v.IFR, w.free => v.free
  PROVE  Linked(w, known) /\ CountersOf(w, known) = [CountersOf(v, known) EXCEPT !.latch2 = Latch2(w)]
<1>1. /\ Latch1(w) = Latch1(v) /\ Raw1(w) = Raw1(v) /\ Raw2(w) = Raw2(v)
      /\ Continuous(w) = Continuous(v) /\ Pulses(w) = Pulses(v) /\ JustFired(w) = JustFired(v)
  BY DEF Latch1, Raw1, Raw2, Continuous, Pulses, JustFired
<1>2. Count1(w) = Count1(v) /\ Shown2(w) = Shown2(v) BY <1>1 DEF Count1, Count2, Shown2
<1>3. Linked(w, known) BY <1>1 DEF Linked
<1>4. Latch2(w) \in Int BY SoundTypes, LatchRange, Widths
<1> DEFINE b == CountersOf(v, known)
           d == [b EXCEPT !.latch2 = Latch2(w)]
<1>5. /\ b \in Chips /\ b.t1 = (IF ~known THEN -2 ELSE IF v.t1.fired THEN -1 ELSE Count1(v)) /\ b.latch1 = Latch1(v)
      /\ b.armed1 = v.t1.firing /\ b.fired1 = v.t1.fired
      /\ b.t2 = Shown2(v) /\ b.armed2 = v.t2.firing /\ b.fired2 = v.t2.fired
      /\ b.continuous = Continuous(v) /\ b.pulses = Pulses(v) /\ b.pb7 = v.pb7 /\ b.flags = v.IFR \cap TimerFlags
  BY CounterFields
<1> HIDE DEF b
<1>6. /\ d \in Chips /\ d.latch2 = Latch2(w) /\ d.latch1 = b.latch1
      /\ d.t1 = b.t1 /\ d.armed1 = b.armed1 /\ d.fired1 = b.fired1
      /\ d.t2 = b.t2 /\ d.armed2 = b.armed2 /\ d.fired2 = b.fired2
      /\ d.continuous = b.continuous /\ d.pulses = b.pulses /\ d.pb7 = b.pb7 /\ d.flags = b.flags
  BY <1>4, <1>5 DEF Chips
<1> HIDE DEF d
<1>7. d.t1 = IF ~known THEN -2 ELSE IF w.t1.fired THEN -1 ELSE Count1(w) BY <1>2, <1>5, <1>6
<1>8. d.t2 = Shown2(w) /\ d.latch1 = Latch1(w) BY <1>1, <1>2, <1>5, <1>6
<1>9. /\ d.armed1 = w.t1.firing /\ d.fired1 = w.t1.fired /\ d.armed2 = w.t2.firing /\ d.fired2 = w.t2.fired
      /\ d.pb7 = w.pb7 /\ d.flags = w.IFR \cap TimerFlags
  BY <1>5, <1>6
<1>10. d.continuous = Continuous(w) /\ d.pulses = Pulses(w) BY <1>1, <1>5, <1>6, Zenon
<1>11. CountersOf(w, known) = d BY <1>6, <1>7, <1>8, <1>9, <1>10, CountersAre
<1> QED BY <1>3, <1>11 DEF d, b

\* And timer 2, which takes the latch a cycle late while it counts cycles.
Loaded2(c) ==
  LET count == IF Pulses(c) THEN Latch2(c) ELSE Latch2(c) + 1
  IN  [c EXCEPT !.t2 = [SetCount(@, count) EXCEPT !.firing = TRUE]]
Loaded2Chip(was, c) ==
  [was EXCEPT !.latch2 = Latch2(c), !.armed2 = TRUE,
              !.t2 = IF was.pulses THEN Latch2(c) ELSE Latch2(c) + 1, !.flags = c.IFR \cap TimerFlags]

\* Timer 2 is loaded.
LEMMA Load2Counters ==
  ASSUME NEW v, Sound(v), NEW known \in BOOLEAN, Linked(v, known),
         NEW c, Sound(c), c.t1 = v.t1, c.t2 = v.t2, c.T1L = v.T1L, c.ACR = v.ACR, c.pb7 = v.pb7, c.free => v.free,
         JustFired(v) \subseteq c.IFR
  PROVE  LET w == [Loaded2(c) EXCEPT !.free = FALSE]
         IN  /\ Linked(w, known)
             /\ CountersOf(w, known) = Loaded2Chip(CountersOf(v, known), c)
<1> DEFINE count == IF Pulses(c) THEN Latch2(c) ELSE Latch2(c) + 1
           l == [c EXCEPT !.t2 = [SetCount(@, count) EXCEPT !.firing = TRUE]]
           w == [l EXCEPT !.free = FALSE]
<1>1. Sound(l) BY LoadT2Keeps DEF Keeps
<1>2. Sound(w) BY <1>1, FreeKeeps DEF Keeps
<1>3. c \in Vias /\ v.t2 \in Timer2s BY SoundTypes DEF Vias
<1>4. Latch2(c) \in Int /\ Latch2(c) >= 0 BY SoundTypes, LatchRange, Widths
<1>5. count \in Int /\ count >= 0 /\ count = IF Pulses(v) THEN Latch2(c) ELSE Latch2(c) + 1 BY <1>4 DEF Pulses
<1> HIDE DEF count
<1>6. /\ l.t2.fired = v.t2.fired /\ l.t2.firing = TRUE /\ l.t2.value = 2 * count + 2
      /\ l.t1 = v.t1 /\ l.T1L = v.T1L /\ l.T2L = c.T2L /\ l.ACR = v.ACR /\ l.pb7 = v.pb7 /\ l.IFR = c.IFR
  <2> DEFINE t == [v.t2 EXCEPT !.value = 2 * count + 2]
             f == [t EXCEPT !.firing = TRUE]
  <2>1. l = [c EXCEPT !.t2 = f] BY DEF SetCount
  <2>2. t.value = 2 * count + 2 /\ t.fired = v.t2.fired /\ DOMAIN t = {"ticking", "value", "firing", "fired"}
    BY <1>3 DEF Timer2s
  <2> HIDE DEF t
  <2>3. f.value = t.value /\ f.fired = t.fired /\ f.firing = TRUE BY <2>2
  <2> HIDE DEF f, l
  <2>4. l.t2 = f /\ l.t1 = c.t1 /\ l.T1L = c.T1L /\ l.T2L = c.T2L /\ l.ACR = c.ACR /\ l.IFR = c.IFR /\ l.pb7 = c.pb7
    BY <1>3, <2>1 DEF Vias
  <2> QED BY <2>2, <2>3, <2>4
<1> HIDE DEF l
<1>7. /\ w.t2 = l.t2 /\ w.t1 = v.t1 /\ w.T1L = v.T1L /\ w.T2L = c.T2L /\ w.ACR = v.ACR /\ w.pb7 = v.pb7
      /\ w.IFR = c.IFR /\ w.free = FALSE
  BY <1>1, <1>6, SoundTypes DEF Vias
<1> HIDE DEF w
<1>8. /\ Latch1(w) = Latch1(v) /\ Latch2(w) = Latch2(c) /\ Raw1(w) = Raw1(v)
      /\ Continuous(w) = Continuous(v) /\ Pulses(w) = Pulses(v)
  BY <1>7 DEF Latch1, Latch2, Raw1, Continuous, Pulses
<1>9. JustFired(w) = JustFired(v)
  <2>1. w.t2.fired = v.t2.fired BY <1>6, <1>7
  <2> QED BY <1>7, <2>1 DEF JustFired
<1>10. Linked(w, known)
  <2>1. Even(w.t2.value) BY <1>5, <1>6, <1>7 DEF Even
  <2> QED BY <1>7, <1>8, <1>9, <2>1 DEF Linked
<1>11. Shown2(w) = count
  <2>1. w.t2.value = 2 * count + 2 BY <1>6, <1>7
  <2>2. Shown2(w) = Rolled(count, MaxCount - 1) BY <1>2, <1>5, <2>1, Counts2
  <2> QED BY <1>5, <2>2 DEF Rolled
<1> DEFINE b == CountersOf(v, known)
           t2 == IF b.pulses THEN Latch2(c) ELSE Latch2(c) + 1
           d == [b EXCEPT !.latch2 = Latch2(c), !.armed2 = TRUE, !.t2 = t2, !.flags = c.IFR \cap TimerFlags]
<1>12. /\ b \in Chips /\ b.t1 = (IF ~known THEN -2 ELSE IF v.t1.fired THEN -1 ELSE Count1(v)) /\ b.latch1 = Latch1(v)
      /\ b.armed1 = v.t1.firing /\ b.fired1 = v.t1.fired /\ b.fired2 = v.t2.fired
      /\ b.continuous = Continuous(v) /\ b.pulses = Pulses(v) /\ b.pb7 = v.pb7
  BY CounterFields
<1>13. d = Loaded2Chip(b, c) BY DEF Loaded2Chip
<1> HIDE DEF b
<1>14. t2 = count BY <1>5, <1>12
<1> HIDE DEF t2
<1>15. /\ d \in Chips /\ d.flags = c.IFR \cap TimerFlags /\ d.latch2 = Latch2(c)
      /\ d.t1 = b.t1 /\ d.armed1 = b.armed1 /\ d.fired1 = b.fired1
      /\ d.t2 = t2 /\ d.latch1 = b.latch1 /\ d.armed2 = TRUE /\ d.fired2 = b.fired2
      /\ d.continuous = b.continuous /\ d.pulses = b.pulses /\ d.pb7 = b.pb7
  BY <1>4, <1>5, <1>12, <1>14 DEF Chips
<1> HIDE DEF d
<1>16. d.t1 = IF ~known THEN -2 ELSE IF w.t1.fired THEN -1 ELSE Count1(w) BY <1>7, <1>8, <1>12, <1>15 DEF Count1
<1>17. d.t2 = Shown2(w) /\ d.latch1 = Latch1(w) /\ d.latch2 = Latch2(w) BY <1>8, <1>11, <1>12, <1>14, <1>15
<1>18. /\ d.armed1 = w.t1.firing /\ d.fired1 = w.t1.fired /\ d.armed2 = w.t2.firing /\ d.fired2 = w.t2.fired
       /\ d.pb7 = w.pb7 /\ d.flags = w.IFR \cap TimerFlags
  BY <1>6, <1>7, <1>12, <1>15
<1>19. d.continuous = Continuous(w) /\ d.pulses = Pulses(w) BY <1>8, <1>12, <1>15, Zenon
<1>20. CountersOf(w, known) = d BY <1>2, <1>15, <1>16, <1>17, <1>18, <1>19, CountersAre
<1> QED BY <1>10, <1>13, <1>20 DEF b, w, l, count, Loaded2

\* What writing the modes does to the fields.
AcrWritten(v, bits) ==
  LET w == UpdateIraCached([v EXCEPT !.ACR = bits])
      x == IF w.t1.fired /\ ~Continuous(w) THEN [w EXCEPT !.t1.firing = FALSE] ELSE w
      change == IF Pulses(x) THEN -1 ELSE 1
  IN  IF x.t2.ticking = Pulses(x)
      THEN [x EXCEPT !.t2 = [SetCount(@, Count2(x) + change) EXCEPT !.ticking = ~Pulses(x)]] ELSE x
AcrChange(v, bits, y) ==
  /\ y.ACR = bits /\ y.T1L = v.T1L /\ y.T2L = v.T2L /\ y.pb7 = v.pb7 /\ y.IFR = v.IFR
  /\ y.free = v.free /\ y.half = v.half
  /\ y.t1.value = v.t1.value /\ y.t1.fired = v.t1.fired
  /\ y.t1.firing <=> v.t1.firing /\ (v.t1.fired => "continuous" \in bits)
  /\ y.t2.firing = v.t2.firing /\ y.t2.fired = v.t2.fired
  /\ (v.t2.ticking <=> "pulses" \in bits) =>
       /\ y.t2.value = 2 * (Count2(v) + (IF "pulses" \in bits THEN -1 ELSE 1)) + 2
       /\ y.t2.ticking <=> "pulses" \notin bits
  /\ ~(v.t2.ticking <=> "pulses" \in bits) => y.t2 = v.t2

\* The modes, timer 1's one shot and timer 2's start or stop.
LEMMA AcrFields ==
  ASSUME NEW v \in Vias, NEW bits \in SUBSET Modes
  PROVE  AcrChange(v, bits, AcrWritten(v, bits))
<1> DEFINE a == [v EXCEPT !.ACR = bits]
           w == [a EXCEPT !.cached = Cached(a)]
           t1 == [v.t1 EXCEPT !.firing = FALSE]
           x == IF w.t1.fired /\ ~Continuous(w) THEN [w EXCEPT !.t1 = t1] ELSE w
           value == 2 * (Count2(x) + (IF Pulses(x) THEN -1 ELSE 1)) + 2
           stop == ~Pulses(x)
           t2 == [[x.t2 EXCEPT !.value = value] EXCEPT !.ticking = stop]
           y == IF x.t2.ticking = Pulses(x) THEN [x EXCEPT !.t2 = t2] ELSE x
<1>2. v.t1 \in Timer1s /\ v.t2 \in Timer2s BY DEF Vias
<1>4. a \in Vias /\ a.ACR = bits BY DEF Vias
<1>5. /\ a.T1L = v.T1L /\ a.T2L = v.T2L /\ a.pb7 = v.pb7 /\ a.IFR = v.IFR
      /\ a.free = v.free /\ a.half = v.half /\ a.t1 = v.t1 /\ a.t2 = v.t2
  BY DEF Vias
<1>6. Cached(a) \in Pins BY <1>4 DEF Cached, Vias
<1>7. UpdateIraCached(a) = w BY DEF UpdateIraCached
<1> HIDE DEF a
<1>8. w \in Vias BY <1>4, <1>6 DEF Vias
<1>9. /\ w.ACR = bits /\ w.T1L = v.T1L /\ w.T2L = v.T2L /\ w.pb7 = v.pb7 /\ w.IFR = v.IFR
      /\ w.free = v.free /\ w.half = v.half /\ w.t1 = v.t1 /\ w.t2 = v.t2
  BY <1>4, <1>5 DEF Vias
<1>11. [w EXCEPT !.t1.firing = FALSE] = [w EXCEPT !.t1 = t1] BY <1>9
<1>12. t1 \in Timer1s /\ t1.value = v.t1.value /\ t1.firing = FALSE /\ t1.fired = v.t1.fired BY <1>2 DEF Timer1s
<1> HIDE DEF w, t1
<1>13. Continuous(w) <=> "continuous" \in bits BY <1>9 DEF Continuous
<1>14. /\ x \in Vias /\ x.ACR = bits /\ x.T1L = v.T1L /\ x.T2L = v.T2L /\ x.pb7 = v.pb7 /\ x.IFR = v.IFR
       /\ x.free = v.free /\ x.half = v.half /\ x.t2 = v.t2
       /\ x.t1.value = v.t1.value /\ x.t1.fired = v.t1.fired
       /\ x.t1.firing <=> v.t1.firing /\ (v.t1.fired => "continuous" \in bits)
  <2>1. CASE w.t1.fired /\ ~Continuous(w)
    <3>1. x = [w EXCEPT !.t1 = t1] BY <2>1
    <3> HIDE DEF x
    <3>2. x \in Vias BY <1>8, <1>12, <3>1 DEF Vias
    <3>3. /\ x.t1 = t1 /\ x.ACR = w.ACR /\ x.T1L = w.T1L /\ x.T2L = w.T2L /\ x.pb7 = w.pb7 /\ x.IFR = w.IFR
          /\ x.free = w.free /\ x.half = w.half /\ x.t2 = w.t2
      BY <1>8, <3>1 DEF Vias
    <3>4. ~(v.t1.fired => "continuous" \in bits) BY <1>9, <1>13, <2>1
    <3> QED BY <1>9, <1>12, <3>2, <3>3, <3>4
  <2>2. CASE ~(w.t1.fired /\ ~Continuous(w))
    <3>1. x = w BY <2>2
    <3>2. v.t1.fired => "continuous" \in bits BY <1>9, <1>13, <2>2
    <3> HIDE DEF x
    <3> QED BY <1>8, <1>9, <3>1, <3>2
  <2> QED BY <2>1, <2>2
<1>15. Count2(x) = Count2(v) /\ (Pulses(x) <=> "pulses" \in bits) BY <1>14 DEF Raw2, Count2, Pulses
<1>26. w = UpdateIraCached([v EXCEPT !.ACR = bits]) BY <1>7 DEF w, a
<1>27. y = IF x.t2.ticking = Pulses(x)
           THEN [x EXCEPT !.t2 = [SetCount(@, Count2(x) + (IF Pulses(x) THEN -1 ELSE 1)) EXCEPT !.ticking = ~Pulses(x)]]
           ELSE x
  BY DEF SetCount
<1>28. x = IF w.t1.fired /\ ~Continuous(w) THEN [w EXCEPT !.t1.firing = FALSE] ELSE w BY <1>11
<1>23. y = AcrWritten(v, bits)
  <2> HIDE DEF y, x
  <2> QED BY <1>26, <1>27, <1>28 DEF AcrWritten
<1>16. v.t2.ticking \in BOOLEAN /\ Pulses(x) \in BOOLEAN BY <1>2 DEF Timer2s, Pulses
<1> HIDE DEF x
<1>17. ASSUME x.t2.ticking = Pulses(x)
       PROVE  /\ y.ACR = x.ACR /\ y.T1L = x.T1L /\ y.T2L = x.T2L /\ y.pb7 = x.pb7 /\ y.IFR = x.IFR
              /\ y.free = x.free /\ y.half = x.half /\ y.t1 = x.t1
              /\ y.t2.value = value /\ y.t2.ticking = stop /\ y.t2.firing = v.t2.firing /\ y.t2.fired = v.t2.fired
  <2>1. y = [x EXCEPT !.t2 = t2] BY <1>17
  <2> DEFINE z == [x.t2 EXCEPT !.value = value]
  <2>2. t2 = [z EXCEPT !.ticking = stop] OBVIOUS
  <2> HIDE DEF value, stop, y, t2
  <2>3. /\ z.value = value /\ z.firing = v.t2.firing /\ z.fired = v.t2.fired
        /\ DOMAIN z = {"ticking", "value", "firing", "fired"}
    BY <1>2, <1>14 DEF Timer2s
  <2> HIDE DEF z
  <2>4. t2.value = value /\ t2.firing = v.t2.firing /\ t2.fired = v.t2.fired /\ t2.ticking = stop BY <2>2, <2>3
  <2>5. /\ y.ACR = x.ACR /\ y.T1L = x.T1L /\ y.T2L = x.T2L /\ y.pb7 = x.pb7 /\ y.IFR = x.IFR
        /\ y.free = x.free /\ y.half = x.half /\ y.t1 = x.t1 /\ y.t2 = t2
    BY <1>14, <2>1 DEF Vias
  <2> QED BY <2>4, <2>5
<1>18. ~(x.t2.ticking = Pulses(x)) => y = x OBVIOUS
<1>19. value = 2 * (Count2(v) + (IF "pulses" \in bits THEN -1 ELSE 1)) + 2 BY <1>15
<1>24. Pulses(x) <=> "pulses" \in bits BY <1>14 DEF Pulses
<1>20. stop <=> "pulses" \notin bits
  <2>1. stop = ~Pulses(x) OBVIOUS
  <2> HIDE DEF stop
  <2> QED BY <1>24, <2>1
<1> HIDE DEF value, stop, y
<1>21. ASSUME x.t2.ticking = Pulses(x) PROVE AcrChange(v, bits, y)
  <2>1. v.t2.ticking <=> "pulses" \in bits BY <1>14, <1>16, <1>21, <1>24
  <2>2. /\ y.ACR = bits /\ y.T1L = v.T1L /\ y.T2L = v.T2L /\ y.pb7 = v.pb7 /\ y.IFR = v.IFR
        /\ y.free = v.free /\ y.half = v.half
        /\ y.t1.value = v.t1.value /\ y.t1.fired = v.t1.fired
        /\ y.t1.firing <=> v.t1.firing /\ (v.t1.fired => "continuous" \in bits)
        /\ y.t2.firing = v.t2.firing /\ y.t2.fired = v.t2.fired
    BY <1>14, <1>17, <1>21
  <2>3. y.t2.value = 2 * (Count2(v) + (IF "pulses" \in bits THEN -1 ELSE 1)) + 2 BY <1>17, <1>19, <1>21
  <2>4. y.t2.ticking <=> "pulses" \notin bits BY <1>17, <1>20, <1>21
  <2> QED BY <2>1, <2>2, <2>3, <2>4 DEF AcrChange
<1>22. ASSUME ~(x.t2.ticking = Pulses(x)) PROVE AcrChange(v, bits, y)
  <2>1. ~(v.t2.ticking <=> "pulses" \in bits) BY <1>14, <1>16, <1>22, <1>24
  <2>2. y = x BY <1>18, <1>22
  <2> QED BY <1>14, <2>1, <2>2 DEF AcrChange
<1>25. AcrChange(v, bits, y) BY <1>21, <1>22
<1> QED BY <1>23, <1>25

\* What they do to the chip: a stopped timer 2 counts once more, a started one later.
AcrChip(was, v, bits) ==
  [was EXCEPT !.continuous = "continuous" \in bits, !.pulses = "pulses" \in bits,
              !.armed1 = @ /\ (v.t1.fired => "continuous" \in bits),
              !.t2 = IF ("pulses" \in bits) = Pulses(v) THEN @
                     ELSE IF "pulses" \in bits THEN (IF @ = -1 THEN MaxCount - 1 ELSE @ - 1) ELSE @ + 1]

\* The modes are written: timer 2 that is stopped counts once more.
LEMMA AcrCounters ==
  ASSUME NEW v, Sound(v), NEW known \in BOOLEAN, Linked(v, known), NEW bits \in SUBSET Modes
  PROVE  LET w == [AcrWritten(v, bits) EXCEPT !.free = FALSE]
         IN  /\ Linked(w, known)
             /\ CountersOf(w, known) = AcrChip(CountersOf(v, known), v, bits)
<1> DEFINE y == AcrWritten(v, bits)
           w == [y EXCEPT !.free = FALSE]
           p == "pulses" \in bits
           latch == MaxCount - 1
<1>1. v \in Vias /\ v.t1 \in Timer1s /\ v.t2 \in Timer2s BY SoundTypes DEF Vias
<1>2. AcrChange(v, bits, y) BY <1>1, AcrFields
<1>3. Sound(y) BY AcrKeeps DEF Keeps, AcrWritten
<1>4. Sound(w) BY <1>3, FreeKeeps DEF Keeps
<1> HIDE DEF y
<1>5. /\ w.t1 = y.t1 /\ w.t2 = y.t2 /\ w.T1L = y.T1L /\ w.T2L = y.T2L /\ w.ACR = y.ACR /\ w.pb7 = y.pb7
      /\ w.IFR = y.IFR /\ w.free = FALSE
  BY <1>3, SoundTypes DEF Vias
<1> HIDE DEF w
<1>6. /\ w.t1.value = v.t1.value /\ w.t1.fired = v.t1.fired /\ w.t2.firing = v.t2.firing /\ w.t2.fired = v.t2.fired
      /\ w.t1.firing <=> v.t1.firing /\ (v.t1.fired => "continuous" \in bits)
      /\ w.T1L = v.T1L /\ w.T2L = v.T2L /\ w.pb7 = v.pb7 /\ w.IFR = v.IFR /\ w.ACR = bits
  BY <1>2, <1>5 DEF AcrChange
<1>7. /\ Latch1(w) = Latch1(v) /\ Latch2(w) = Latch2(v) /\ Raw1(w) = Raw1(v) /\ Count1(w) = Count1(v)
      /\ JustFired(w) = JustFired(v)
  BY <1>6 DEF Latch1, Latch2, Raw1, Count1, JustFired
<1>8. (Continuous(w) <=> "continuous" \in bits) /\ (Pulses(w) <=> p) BY <1>6 DEF Continuous, Pulses
<1>9. v.t2.ticking <=> ~Pulses(v) BY <1>1 DEF Sound, TimersOK, Timer2s, Pulses
<1>10. PICK k \in Int : (v.t2.value = 2 * k + 2 \/ v.t2.value = 2 * k + 3) /\ (Even(v.t2.value) => v.t2.value = 2 * k + 2)
  BY <1>1, Halves DEF Timer2s
<1> DEFINE r == Rolled(k, latch)
           c == Count2(v)
           t2 == IF p = Pulses(v) THEN r ELSE IF p THEN (IF r = -1 THEN latch ELSE r - 1) ELSE r + 1
<1>11. /\ Shown2(v) = r /\ (v.t2.value = 2 * k + 2 => c = r) /\ (c = r \/ (c = -2 /\ r = latch))
       /\ r \in Int /\ r >= -1
  BY <1>10, Counts2
<1>12. latch \in Nat /\ c \in Int BY <1>11, Widths
<1>13. p \in BOOLEAN /\ Pulses(v) \in BOOLEAN BY DEF Pulses
<1> HIDE DEF r, c, p
<1>14. Shown2(w) = t2 /\ (~w.t2.ticking => Even(w.t2.value))
  <2>1. CASE p <=> Pulses(v)
    <3>1. w.t2 = v.t2 BY <1>2, <1>5, <1>9, <2>1 DEF AcrChange, p
    <3>2. Shown2(w) = r BY <1>11, <3>1 DEF Shown2, Count2, Raw2
    <3>3. t2 = r BY <1>13, <2>1
    <3>4. ~v.t2.ticking => Even(v.t2.value) BY DEF Linked
    <3> QED BY <3>1, <3>2, <3>3, <3>4
  <2>2. CASE p /\ ~Pulses(v)
    <3>1. w.t2.value = 2 * (c - 1) + 2 BY <1>2, <1>5, <1>9, <1>12, <2>2 DEF AcrChange, p, c
    <3>2. Shown2(w) = Rolled(c - 1, latch) BY <1>4, <1>12, <3>1, Counts2
    <3>3. Rolled(c, latch) = r
      <4>1. CASE c = r BY <1>11, <4>1 DEF Rolled
      <4>2. CASE c = -2 /\ r = latch
        <5>1. c + 1 \in Int /\ (c + 1) - 1 = c BY <1>12
        <5>2. Rolled(c + 1, latch) = -1 BY <4>2 DEF Rolled
        <5>3. Rolled(c, latch) = latch BY <1>12, <5>1, <5>2, RolledTurns
        <5> QED BY <4>2, <5>3
      <4> QED BY <1>11, <4>1, <4>2
    <3>4. Rolled(c - 1, latch) = IF r = -1 THEN latch ELSE r - 1 BY <1>12, <3>3, RolledTurns
    <3>5. t2 = IF r = -1 THEN latch ELSE r - 1 BY <2>2
    <3>6. Even(w.t2.value) BY <1>12, <3>1 DEF Even
    <3> QED BY <3>2, <3>4, <3>5, <3>6
  <2>3. CASE ~p /\ Pulses(v)
    <3>1. w.t2.value = 2 * (c + 1) + 2 BY <1>2, <1>5, <1>9, <1>12, <2>3 DEF AcrChange, p, c
    <3>2. Shown2(w) = Rolled(c + 1, latch) BY <1>4, <1>12, <3>1, Counts2
    <3>3. Even(v.t2.value) BY <1>9, <2>3 DEF Linked
    <3>4. c = r BY <1>10, <1>11, <3>3
    <3>5. Rolled(c + 1, latch) = c + 1 BY <1>11, <3>4 DEF Rolled
    <3>6. t2 = r + 1 BY <2>3
    <3>7. Even(w.t2.value) BY <1>12, <3>1 DEF Even
    <3> QED BY <3>2, <3>4, <3>5, <3>6, <3>7
  <2> QED BY <1>13, <2>1, <2>2, <2>3
<1>15. Linked(w, known) BY <1>5, <1>6, <1>7, <1>14 DEF Linked
<1> DEFINE b == CountersOf(v, known)
           armed == v.t1.firing /\ (v.t1.fired => "continuous" \in bits)
           continuous == "continuous" \in bits
           d == [b EXCEPT !.continuous = continuous, !.pulses = p, !.armed1 = armed, !.t2 = t2]
<1>16. /\ b \in Chips /\ b.t1 = (IF ~known THEN -2 ELSE IF v.t1.fired THEN -1 ELSE Count1(v)) /\ b.latch1 = Latch1(v)
      /\ b.armed1 = v.t1.firing /\ b.fired1 = v.t1.fired
      /\ b.t2 = Shown2(v) /\ b.latch2 = Latch2(v) /\ b.armed2 = v.t2.firing /\ b.fired2 = v.t2.fired
      /\ b.pb7 = v.pb7 /\ b.flags = v.IFR \cap TimerFlags
  BY CounterFields
<1> HIDE DEF b
<1>17. d = [b EXCEPT !.continuous = "continuous" \in bits, !.pulses = p,
                     !.armed1 = @ /\ (v.t1.fired => "continuous" \in bits),
                     !.t2 = IF p = Pulses(v) THEN @
                            ELSE IF p THEN (IF @ = -1 THEN MaxCount - 1 ELSE @ - 1) ELSE @ + 1]
  BY <1>11, <1>16
<1>28. d = AcrChip(b, v, bits) BY <1>17 DEF AcrChip, p
<1>18. t2 \in Int BY <1>11, <1>12
<1>19. armed \in BOOLEAN /\ (armed <=> w.t1.firing) BY <1>6
<1>20. continuous \in BOOLEAN OBVIOUS
<1> HIDE DEF t2, armed, continuous
<1>21. /\ d \in Chips /\ d.flags = b.flags /\ d.latch1 = b.latch1
      /\ d.t1 = b.t1 /\ d.armed1 = armed /\ d.fired1 = b.fired1
      /\ d.t2 = t2 /\ d.latch2 = b.latch2 /\ d.armed2 = b.armed2 /\ d.fired2 = b.fired2
      /\ d.continuous = continuous /\ d.pulses = p /\ d.pb7 = b.pb7
  <2> DEFINE e == [b EXCEPT !.continuous = continuous]
             f == [e EXCEPT !.pulses = p]
             g == [f EXCEPT !.armed1 = armed]
  <2>1. d = [g EXCEPT !.t2 = t2] OBVIOUS
  <2>2. /\ e \in Chips /\ e.flags = b.flags /\ e.latch1 = b.latch1 /\ e.t1 = b.t1 /\ e.fired1 = b.fired1
        /\ e.latch2 = b.latch2 /\ e.armed2 = b.armed2 /\ e.fired2 = b.fired2 /\ e.continuous = continuous /\ e.pb7 = b.pb7
    BY <1>16, <1>20 DEF Chips
  <2> HIDE DEF e
  <2>3. /\ f \in Chips /\ f.flags = e.flags /\ f.latch1 = e.latch1 /\ f.t1 = e.t1 /\ f.fired1 = e.fired1
        /\ f.latch2 = e.latch2 /\ f.armed2 = e.armed2 /\ f.fired2 = e.fired2 /\ f.continuous = e.continuous
        /\ f.pulses = p /\ f.pb7 = e.pb7
    BY <1>13, <2>2 DEF Chips
  <2> HIDE DEF f
  <2>4. /\ g \in Chips /\ g.flags = f.flags /\ g.latch1 = f.latch1 /\ g.t1 = f.t1 /\ g.fired1 = f.fired1
        /\ g.latch2 = f.latch2 /\ g.armed2 = f.armed2 /\ g.fired2 = f.fired2 /\ g.continuous = f.continuous
        /\ g.pulses = f.pulses /\ g.armed1 = armed /\ g.pb7 = f.pb7
    BY <1>19, <2>3 DEF Chips
  <2> HIDE DEF g, d
  <2>5. /\ d \in Chips /\ d.flags = g.flags /\ d.latch1 = g.latch1 /\ d.t1 = g.t1 /\ d.fired1 = g.fired1
        /\ d.latch2 = g.latch2 /\ d.armed2 = g.armed2 /\ d.fired2 = g.fired2 /\ d.continuous = g.continuous
        /\ d.pulses = g.pulses /\ d.armed1 = g.armed1 /\ d.pb7 = g.pb7 /\ d.t2 = t2
    BY <1>18, <2>1, <2>4 DEF Chips
  <2> QED BY <2>2, <2>3, <2>4, <2>5
<1> HIDE DEF d
<1>22. d.t1 = IF ~known THEN -2 ELSE IF w.t1.fired THEN -1 ELSE Count1(w) BY <1>6, <1>7, <1>16, <1>21
<1>23. d.t2 = Shown2(w) /\ d.latch1 = Latch1(w) /\ d.latch2 = Latch2(w) BY <1>7, <1>14, <1>16, <1>21
<1>24. /\ d.fired1 = w.t1.fired /\ d.armed2 = w.t2.firing /\ d.fired2 = w.t2.fired
       /\ d.pb7 = w.pb7 /\ d.flags = w.IFR \cap TimerFlags
  BY <1>6, <1>16, <1>21
<1>25. d.armed1 = w.t1.firing
  <2>1. w.t1.firing \in BOOLEAN BY <1>4, SoundTypes DEF Vias, Timer1s
  <2> QED BY <1>19, <1>21, <2>1
<1>26. d.continuous = Continuous(w) /\ d.pulses = Pulses(w)
  <2>1. Continuous(w) \in BOOLEAN /\ Pulses(w) \in BOOLEAN BY DEF Continuous, Pulses
  <2>2. continuous = Continuous(w) /\ p = Pulses(w) BY <1>8, <1>13, <1>20, <2>1 DEF continuous
  <2> QED BY <1>21, <2>2, Zenon
<1>27. CountersOf(w, known) = d BY <1>4, <1>21, <1>22, <1>23, <1>24, <1>25, <1>26, CountersAre
<1> QED BY <1>15, <1>28, <1>27 DEF b, w, y, p

\* A cycle of the chip.
Next1(c) == IF c.t1 = -2 THEN -2 ELSE IF c.t1 = -1 THEN c.latch1 ELSE c.t1 - 1
Next2(c) == IF c.pulses THEN c.t2 ELSE IF c.t2 = -1 THEN MaxCount - 1 ELSE c.t2 - 1
Hit1(c) == c.armed1 /\ Next1(c) = -1
Hit2(c) == c.armed2 /\ ~c.pulses /\ Next2(c) = -1
CycledChip(c) ==
  [c EXCEPT !.t1 = Next1(c), !.t2 = Next2(c), !.fired1 = Hit1(c), !.fired2 = Hit2(c),
            !.armed1 = @ /\ (Hit1(c) => c.continuous), !.armed2 = @ /\ ~Hit2(c),
            !.pb7 = IF Hit1(c) THEN ~@ ELSE @,
            !.flags = @ \cup (IF Hit1(c) THEN {"T1"} ELSE {}) \cup (IF Hit2(c) THEN {"T2"} ELSE {})]

\* The fields after it.
LEMMA CycledFields ==
  ASSUME NEW c \in Chips
  PROVE  LET d == CycledChip(c)
         IN  /\ d \in Chips /\ d.t1 = Next1(c) /\ d.t2 = Next2(c)
             /\ d.latch1 = c.latch1 /\ d.latch2 = c.latch2 /\ d.continuous = c.continuous /\ d.pulses = c.pulses
             /\ (d.fired1 <=> Hit1(c)) /\ (d.fired2 <=> Hit2(c))
             /\ (d.armed1 <=> c.armed1 /\ (Hit1(c) => c.continuous)) /\ (d.armed2 <=> c.armed2 /\ ~Hit2(c))
             /\ d.pb7 = (IF Hit1(c) THEN ~c.pb7 ELSE c.pb7)
             /\ d.flags = c.flags \cup (IF Hit1(c) THEN {"T1"} ELSE {}) \cup (IF Hit2(c) THEN {"T2"} ELSE {})
<1> DEFINE t1 == Next1(c)
           t2 == Next2(c)
           fired1 == Hit1(c)
           fired2 == Hit2(c)
           armed1 == c.armed1 /\ (Hit1(c) => c.continuous)
           armed2 == c.armed2 /\ ~Hit2(c)
           pb7 == IF Hit1(c) THEN ~c.pb7 ELSE c.pb7
           flags == c.flags \cup (IF Hit1(c) THEN {"T1"} ELSE {}) \cup (IF Hit2(c) THEN {"T2"} ELSE {})
           e == [c EXCEPT !.t1 = t1, !.t2 = t2]
           f == [e EXCEPT !.fired1 = fired1, !.fired2 = fired2]
           g == [f EXCEPT !.armed1 = armed1, !.armed2 = armed2]
           d == [g EXCEPT !.pb7 = pb7, !.flags = flags]
<1>1. t1 \in Int /\ t2 \in Int BY Widths DEF Chips, Next1, Next2
<1>2. fired1 \in BOOLEAN /\ fired2 \in BOOLEAN BY DEF Chips, Hit1, Hit2
<1>3. armed1 \in BOOLEAN /\ armed2 \in BOOLEAN BY DEF Chips
<1>4. pb7 \in BOOLEAN BY DEF Chips
<1>5. flags \in SUBSET TimerFlags BY DEF Chips, TimerFlags
<1>6. CycledChip(c) = d
  <2> HIDE DEF t1, t2, fired1, fired2
  <2> QED BY DEF CycledChip, Chips, t1, t2, fired1, fired2
<1> HIDE DEF t1, t2, fired1, fired2, armed1, armed2, pb7, flags
<1>7. /\ e \in Chips /\ e.t1 = t1 /\ e.t2 = t2 /\ e.latch1 = c.latch1 /\ e.latch2 = c.latch2
      /\ e.continuous = c.continuous /\ e.pulses = c.pulses
  BY <1>1 DEF Chips
<1> HIDE DEF e
<1>8. /\ f \in Chips /\ f.fired1 = fired1 /\ f.fired2 = fired2 /\ f.t1 = e.t1 /\ f.t2 = e.t2
      /\ f.latch1 = e.latch1 /\ f.latch2 = e.latch2 /\ f.continuous = e.continuous /\ f.pulses = e.pulses
  BY <1>2, <1>7 DEF Chips
<1> HIDE DEF f
<1>9. /\ g \in Chips /\ g.armed1 = armed1 /\ g.armed2 = armed2 /\ g.fired1 = f.fired1 /\ g.fired2 = f.fired2
      /\ g.t1 = f.t1 /\ g.t2 = f.t2
      /\ g.latch1 = f.latch1 /\ g.latch2 = f.latch2 /\ g.continuous = f.continuous /\ g.pulses = f.pulses
  BY <1>3, <1>8 DEF Chips
<1> HIDE DEF g
<1>10. /\ d \in Chips /\ d.pb7 = pb7 /\ d.flags = flags /\ d.armed1 = g.armed1 /\ d.armed2 = g.armed2
       /\ d.fired1 = g.fired1 /\ d.fired2 = g.fired2 /\ d.t1 = g.t1 /\ d.t2 = g.t2
       /\ d.latch1 = g.latch1 /\ d.latch2 = g.latch2 /\ d.continuous = g.continuous /\ d.pulses = g.pulses
  BY <1>4, <1>5, <1>9 DEF Chips
<1> HIDE DEF d
<1>11. /\ d \in Chips /\ d.t1 = t1 /\ d.t2 = t2 /\ d.fired1 = fired1 /\ d.fired2 = fired2
       /\ d.armed1 = armed1 /\ d.armed2 = armed2 /\ d.pb7 = pb7 /\ d.flags = flags
       /\ d.latch1 = c.latch1 /\ d.latch2 = c.latch2 /\ d.continuous = c.continuous /\ d.pulses = c.pulses
  BY <1>7, <1>8, <1>9, <1>10
<1>12. /\ (d.fired1 <=> Hit1(c)) /\ (d.fired2 <=> Hit2(c))
       /\ (d.armed1 <=> c.armed1 /\ (Hit1(c) => c.continuous)) /\ (d.armed2 <=> c.armed2 /\ ~Hit2(c))
  BY <1>11 DEF fired1, fired2, armed1, armed2
<1>13. d.t1 = Next1(c) /\ d.t2 = Next2(c) /\ d.pb7 = (IF Hit1(c) THEN ~c.pb7 ELSE c.pb7)
  BY <1>11 DEF t1, t2, pb7
<1>14. d.flags = c.flags \cup (IF Hit1(c) THEN {"T1"} ELSE {}) \cup (IF Hit2(c) THEN {"T2"} ELSE {})
  BY <1>11 DEF flags
<1> QED BY <1>6, <1>11, <1>12, <1>13, <1>14

\* The timers go on, to the middle of the next cycle.
Goes(v, ticks, w) == w = [Advance(v, ticks) EXCEPT !.half = FALSE, !.free = TRUE]

\* The timers go on: what is seen is a cycle of the chip.
LEMMA AdvanceCounters ==
  ASSUME NEW v, Sound(v), NEW known \in BOOLEAN, Linked(v, known), NEW ticks \in {1, 2},
         ticks = 1 => ~v.t1.firing /\ ~v.t2.firing /\ ~known /\ Even(v.t2.value),
         v.t1.value > -MaxIdle, v.t2.value > -MaxIdle,
         NEW w, Sound(w), Goes(v, ticks, w)
  PROVE  Linked(w, known) /\ CountersOf(w, known) = CycledChip(CountersOf(v, known))
<1> DEFINE a == Advance(v, ticks)
           hit1 == v.t1.firing /\ v.t1.value = ticks
           hit2 == v.t2.ticking /\ v.t2.firing /\ v.t2.value = ticks
           i1 == IF hit1 THEN {"T1"} ELSE {}
           i2 == IF hit2 THEN {"T2"} ELSE {}
           latch == MaxCount - 1
<1>1. v \in Vias /\ w \in Vias /\ v.t1 \in Timer1s /\ v.t2 \in Timer2s /\ w.t1 \in Timer1s /\ w.t2 \in Timer2s
  <2>1. v \in Vias /\ w \in Vias BY SoundTypes
  <2> QED BY <2>1 DEF Vias
<1>2. /\ a \in Vias /\ Expires(v, a)
      /\ (a.t1.fired <=> hit1) /\ (a.t1.firing <=> v.t1.firing /\ (hit1 => Continuous(v)))
      /\ a.t1.value = (IF hit1 /\ Continuous(v) THEN 2 * (Latch1(v) + 2) ELSE v.t1.value - ticks)
      /\ (a.t2.fired <=> hit2) /\ (a.t2.firing <=> v.t2.firing /\ ~hit2) /\ a.t2.ticking = v.t2.ticking
      /\ a.t2.value = (IF v.t2.ticking THEN v.t2.value - ticks ELSE v.t2.value)
      /\ a.pb7 = (IF hit1 THEN ~v.pb7 ELSE v.pb7)
      /\ a.IFR \ {"IRQ"} = (v.IFR \cup i1 \cup i2) \ {"IRQ"}
  BY AdvanceFacts
<1> HIDE DEF a
<1>3. /\ w.t1 = a.t1 /\ w.t2 = a.t2 /\ w.T1L = a.T1L /\ w.T2L = a.T2L /\ w.ACR = a.ACR /\ w.pb7 = a.pb7
      /\ w.IFR = a.IFR /\ w.free = TRUE
  BY <1>2 DEF Vias, a, Goes
<1>4. w.T1L = v.T1L /\ w.T2L = v.T2L /\ w.ACR = v.ACR BY <1>2, <1>3 DEF Expires
<1>5. /\ Latch1(w) = Latch1(v) /\ Latch2(w) = Latch2(v) /\ Continuous(w) = Continuous(v) /\ Pulses(w) = Pulses(v)
  BY <1>4 DEF Latch1, Latch2, Continuous, Pulses
<1>6. Latch1(v) \in Nat /\ latch \in Nat BY <1>1, LatchRange, Widths
<1>7. v.t2.ticking <=> ~Pulses(v) BY <1>1 DEF Sound, TimersOK, Timer2s, Pulses
<1>8. hit1 \in BOOLEAN /\ hit2 \in BOOLEAN BY <1>1 DEF Timer1s, Timer2s
<1>9. v.t1.firing => v.t1.value >= 2 /\ known BY DEF Sound, TimersOK, Linked
<1>10. v.t2.firing => v.t2.value >= 0 /\ Even(v.t2.value) BY DEF Sound, TimersOK
<1>11. v.t1.value \in Int /\ v.t2.value \in Int /\ ticks \in Int BY <1>1 DEF Timer1s, Timer2s
<1>12. known => ticks = 2 BY <1>1
<1> DEFINE b == CountersOf(v, known)
           t1 == Next1(b)
           t2 == Next2(b)
<1>13. /\ b \in Chips /\ b.t1 = (IF ~known THEN -2 ELSE IF v.t1.fired THEN -1 ELSE Count1(v)) /\ b.latch1 = Latch1(v)
       /\ b.armed1 = v.t1.firing /\ b.fired1 = v.t1.fired
       /\ b.t2 = Shown2(v) /\ b.latch2 = Latch2(v) /\ b.armed2 = v.t2.firing /\ b.fired2 = v.t2.fired
       /\ b.continuous = Continuous(v) /\ b.pulses = Pulses(v) /\ b.pb7 = v.pb7 /\ b.flags = v.IFR \cap TimerFlags
  BY CounterFields
<1> HIDE DEF b
<1>31. t1 = (IF b.t1 = -2 THEN -2 ELSE IF b.t1 = -1 THEN b.latch1 ELSE b.t1 - 1) BY DEF Next1
<1>32. t2 = (IF b.pulses THEN b.t2 ELSE IF b.t2 = -1 THEN MaxCount - 1 ELSE b.t2 - 1) BY DEF Next2
<1> HIDE DEF t1, t2
<1>14. (t1 = IF ~known THEN -2 ELSE IF w.t1.fired THEN -1 ELSE Count1(w)) /\ (hit1 <=> b.armed1 /\ t1 = -1)
  <2>1. CASE ~known BY <1>31, <1>2, <1>3, <1>9, <1>13, <2>1
  <2>2. CASE known
    <3>1. Even(v.t1.value) /\ ticks = 2 BY <1>12, <2>2 DEF Linked
    <3>2. PICK k \in Int : v.t1.value = 2 * k + 2 BY <1>11, <3>1, Halves
    <3>3. Count1(v) = Rolled(k, Latch1(v)) /\ Count1(v) \in Int /\ Count1(v) >= -1 BY <3>2, Counts1
    <3>4. k - 1 \in Int /\ (~hit1 => w.t1.value = 2 * (k - 1) + 2) BY <1>2, <1>3, <3>1, <3>2
    <3>5. ~hit1 => Count1(w) = Rolled(k - 1, Latch1(v)) BY <1>5, <3>4, Counts1
    <3>6. w.t1.fired <=> hit1 BY <1>2, <1>3
    <3>7. CASE v.t1.fired
      <4>1. b.t1 = -1 /\ t1 = Latch1(v) BY <1>31, <1>13, <2>2, <3>7
      <4>2. v.t1.value = 0 \/ v.t1.value = 2 * Latch1(v) + 4 BY <3>7 DEF Linked
      <4>3. ~hit1 BY <1>6, <1>9, <3>1, <4>2
      <4>4. Rolled(k - 1, Latch1(v)) = Latch1(v)
        <5>1. CASE v.t1.value = 0
          <6>1. k + 1 = 0 BY <3>2, <5>1
          <6>2. Rolled(k, Latch1(v)) = -1 BY <6>1 DEF Rolled
          <6> QED BY <1>6, <6>2, RolledTurns
        <5>2. CASE v.t1.value = 2 * Latch1(v) + 4
          <6>1. k - 1 = Latch1(v) BY <1>6, <3>2, <5>2
          <6> QED BY <1>6, <6>1 DEF Rolled
        <5> QED BY <4>2, <5>1, <5>2
      <4> QED BY <1>6, <2>2, <3>5, <3>6, <4>1, <4>3, <4>4
    <3>8. CASE ~v.t1.fired
      <4>1. b.t1 = Count1(v) BY <1>13, <2>2, <3>8
      <4>6. Rolled(k - 1, Latch1(v)) = IF Count1(v) = -1 THEN Latch1(v) ELSE Count1(v) - 1 BY <1>6, <3>3, RolledTurns
      <4>2. t1 = Rolled(k - 1, Latch1(v)) BY <1>13, <1>31, <3>3, <4>1, <4>6
      <4>3. v.t1.firing => (v.t1.value = 2 <=> t1 = -1)
        <5> SUFFICES ASSUME v.t1.firing PROVE v.t1.value = 2 <=> t1 = -1 OBVIOUS
        <5>1. k - 1 >= -1 BY <1>9, <3>2
        <5>2. t1 = k - 1 BY <4>2, <5>1 DEF Rolled
        <5> QED BY <3>2, <5>2
      <4>4. hit1 <=> b.armed1 /\ t1 = -1
        <5>1. hit1 <=> v.t1.firing /\ v.t1.value = 2 BY <3>1
        <5> HIDE DEF hit1
        <5> QED BY <1>13, <4>3, <5>1
      <4>5. hit1 => t1 = -1 BY <4>4
      <4> HIDE DEF hit1
      <4> QED BY <2>2, <3>5, <3>6, <4>2, <4>4, <4>5
    <3> QED BY <3>7, <3>8
  <2> QED BY <2>1, <2>2
<1>15. t2 = Shown2(w) /\ (hit2 <=> b.armed2 /\ ~b.pulses /\ t2 = -1)
  <2>1. CASE Pulses(v)
    <3>1. ~v.t2.ticking BY <1>7, <2>1
    <3>2. b.pulses BY <1>13, <2>1
    <3>3. Raw2(w) = Raw2(v) BY <1>2, <1>3, <3>1 DEF Raw2
    <3> QED BY <1>32, <1>13, <3>1, <3>2, <3>3 DEF Shown2, Count2
  <2>2. CASE ~Pulses(v)
    <3>1. v.t2.ticking BY <1>7, <2>2
    <3>2. ~b.pulses BY <1>13, <2>2
    <3>3. PICK k \in Int : (v.t2.value = 2 * k + 2 \/ v.t2.value = 2 * k + 3) /\ (Even(v.t2.value) => v.t2.value = 2 * k + 2)
      BY <1>11, Halves
    <3>4. Shown2(v) = Rolled(k, latch) BY <3>3, Counts2
    <3>5. k - 1 \in Int /\ (w.t2.value = 2 * (k - 1) + 2 \/ w.t2.value = 2 * (k - 1) + 3)
      <4>1. w.t2.value = v.t2.value - ticks BY <1>2, <1>3, <3>1
      <4> QED BY <3>3, <4>1
    <3>6. Shown2(w) = Rolled(k - 1, latch) BY <3>5, Counts2
    <3>7. t2 = Rolled(k - 1, latch) BY <1>32, <1>6, <1>13, <3>2, <3>4, RolledTurns
    <3>8. v.t2.firing => (v.t2.value = ticks <=> t2 = -1)
      <4> SUFFICES ASSUME v.t2.firing PROVE v.t2.value = ticks <=> t2 = -1 OBVIOUS
      <4>1. v.t2.value = 2 * k + 2 /\ ticks = 2 /\ k - 1 >= -2 BY <1>10, <3>3
      <4>2. v.t2.value >= 2 BY <3>1 DEF Sound, TimersOK
      <4>3. k - 1 >= -1 BY <4>1, <4>2
      <4>4. t2 = k - 1 BY <3>7, <4>3 DEF Rolled
      <4> QED BY <4>1, <4>4
    <3>9. hit2 <=> b.armed2 /\ ~b.pulses /\ t2 = -1 BY <1>13, <3>1, <3>2, <3>8
    <3> QED BY <3>6, <3>7, <3>9
  <2> QED BY <2>1, <2>2
<1>16. w.IFR \cap TimerFlags = (v.IFR \cap TimerFlags) \cup i1 \cup i2
  <2>1. i1 \subseteq TimerFlags /\ i2 \subseteq TimerFlags /\ "IRQ" \notin TimerFlags BY DEF TimerFlags
  <2>2. w.IFR \ {"IRQ"} = (v.IFR \cup i1 \cup i2) \ {"IRQ"} BY <1>2, <1>3
  <2> HIDE DEF i1, i2
  <2> QED BY <2>1, <2>2
<1>17. Linked(w, known)
  <2>1. w.t1.fired => w.t1.value = 0 \/ (w.t1.value = 2 * Latch1(w) + 4 /\ (w.free => Continuous(w)))
    BY <1>2, <1>3, <1>5, <1>6, <1>11
  <2>2. JustFired(w) \subseteq w.IFR
    <3>1. w.t1.fired => "T1" \in i1 BY <1>2, <1>3
    <3>2. w.t2.fired => "T2" \in i2 BY <1>2, <1>3
    <3> HIDE DEF i1, i2
    <3> QED BY <1>16, <3>1, <3>2 DEF JustFired
  <2>3. known => Even(w.t1.value)
    <3> SUFFICES ASSUME known PROVE Even(w.t1.value) OBVIOUS
    <3>1. PICK k \in Int : v.t1.value = 2 * k + 2 BY <1>11, Halves DEF Linked
    <3>2. w.t1.value = 2 * (Latch1(v) + 2) \/ w.t1.value = v.t1.value - ticks BY <1>2, <1>3
    <3>3. w.t1.value = 2 * (Latch1(v) + 2) \/ w.t1.value = 2 * k BY <1>12, <3>1, <3>2
    <3> QED BY <1>6, <3>3 DEF Even
  <2>4. ~known => ~w.t1.firing /\ ~w.t1.fired BY <1>2, <1>3, <1>9
  <2>5. ~w.t2.ticking => Even(w.t2.value) BY <1>2, <1>3 DEF Linked
  <2> QED BY <2>1, <2>2, <2>3, <2>4, <2>5 DEF Linked
<1> DEFINE d == CycledChip(b)
<1>18. (hit1 <=> Hit1(b)) /\ (hit2 <=> Hit2(b))
  <2> HIDE DEF hit1, hit2
  <2> QED BY <1>14, <1>15 DEF Hit1, Hit2, t1, t2
<1>19. /\ d \in Chips /\ d.t1 = t1 /\ d.t2 = t2
       /\ d.latch1 = b.latch1 /\ d.latch2 = b.latch2 /\ d.continuous = b.continuous /\ d.pulses = b.pulses
       /\ (d.fired1 <=> Hit1(b)) /\ (d.fired2 <=> Hit2(b))
       /\ (d.armed1 <=> b.armed1 /\ (Hit1(b) => b.continuous)) /\ (d.armed2 <=> b.armed2 /\ ~Hit2(b))
       /\ d.pb7 = (IF Hit1(b) THEN ~b.pb7 ELSE b.pb7)
       /\ d.flags = b.flags \cup (IF Hit1(b) THEN {"T1"} ELSE {}) \cup (IF Hit2(b) THEN {"T2"} ELSE {})
  BY <1>13, CycledFields DEF t1, t2
<1> HIDE DEF d
<1>20. d.flags = w.IFR \cap TimerFlags
  <2>1. (IF Hit1(b) THEN {"T1"} ELSE {}) = i1 /\ (IF Hit2(b) THEN {"T2"} ELSE {}) = i2
    <3> HIDE DEF hit1, hit2
    <3> QED BY <1>18 DEF i1, i2
  <2> HIDE DEF i1, i2, hit1, hit2
  <2> QED BY <1>13, <1>16, <1>19, <2>1
<1>21. (w.t1.fired <=> hit1) /\ (w.t2.fired <=> hit2) BY <1>2, <1>3
<1>22. (w.t1.firing <=> v.t1.firing /\ (hit1 => Continuous(v))) /\ (w.t2.firing <=> v.t2.firing /\ ~hit2) BY <1>2, <1>3
<1>23. w.pb7 = (IF hit1 THEN ~v.pb7 ELSE v.pb7) BY <1>2, <1>3
<1> HIDE DEF hit1, hit2
<1>24. d.fired1 = w.t1.fired /\ d.fired2 = w.t2.fired BY <1>1, <1>18, <1>19, <1>21 DEF Chips, Timer1s, Timer2s
<1>25. d.armed1 = w.t1.firing /\ d.armed2 = w.t2.firing
  BY <1>1, <1>13, <1>18, <1>19, <1>22 DEF Chips, Timer1s, Timer2s
<1>26. d.pb7 = w.pb7 BY <1>13, <1>18, <1>19, <1>23
<1>27. d.t1 = IF ~known THEN -2 ELSE IF w.t1.fired THEN -1 ELSE Count1(w) BY <1>14, <1>19
<1>28. d.t2 = Shown2(w) /\ d.latch1 = Latch1(w) /\ d.latch2 = Latch2(w) BY <1>5, <1>13, <1>15, <1>19
<1>29. d.continuous = Continuous(w) /\ d.pulses = Pulses(w) BY <1>5, <1>13, <1>19, Zenon
<1>30. CountersOf(w, known) = d BY <1>19, <1>20, <1>24, <1>25, <1>26, <1>27, <1>28, <1>29, CountersAre
<1> QED BY <1>17, <1>30 DEF b, d

\* What the timers need of the state as it is.
Timely == IInv /\ Linked(via, loaded) /\ Started(via, program.timed, loaded)
\* What a step makes of them.
ChipStep == Linked(via', loaded') /\ Started(via', program'.timed, loaded') /\ [Chip!Next]_Counters

\* The chip's view of the state.
LEMMA ChipView ==
  ASSUME IInv
  PROVE  /\ Counters \in Chips /\ Counters = CountersOf(via, loaded) /\ Chip!Fresh = JustFired(via)
         /\ Counters.flags = via.IFR \cap TimerFlags /\ JustFired(via) \subseteq TimerFlags
         /\ Counters.latch1 = Latch1(via) /\ Counters.latch2 = Latch2(via) /\ Counters.fired1 = via.t1.fired
         /\ Counters.pulses = Pulses(via)
<1>1. Sound(via) /\ loaded \in BOOLEAN BY DEF IInv
<1> DEFINE c == CountersOf(via, loaded)
<1>2. /\ c \in Chips /\ c.fired1 = via.t1.fired /\ c.fired2 = via.t2.fired /\ c.flags = via.IFR \cap TimerFlags
      /\ c.latch1 = Latch1(via) /\ c.latch2 = Latch2(via)
  BY <1>1, CounterFields
<1>3. c.pulses = Pulses(via) BY <1>1, CounterFields, Zenon
<1>4. Counters = c BY DEF Counters
<1> HIDE DEF c
<1>5. Chip!Fresh = JustFired(via) BY <1>2, <1>4 DEF Chip!Fresh, JustFired
<1>6. JustFired(via) \subseteq TimerFlags BY DEF JustFired, TimerFlags
<1> QED BY <1>2, <1>3, <1>4, <1>5, <1>6 DEF c

\* A byte of a latch.
LEMMA LatchBytes ==
  ASSUME NEW l \in Latches, NEW byte \in 0..(Base - 1)
  PROVE  /\ Chip!WithLow(l.high * Base + l.low, byte) = l.high * Base + byte
         /\ Chip!WithHigh(l.high * Base + l.low, byte) = byte * Base + l.low
<1> DEFINE x == l.high * Base + l.low
           h == l.high
           z == l.low
<1>1. Base \in Int /\ Base > 0 /\ h \in Int /\ z \in Int /\ z >= 0 /\ z < Base /\ x \in Int /\ x = h * Base + z
  BY ViaAssumption DEF Latches
<1> HIDE DEF x, h, z
<1>2. x \div Base = h /\ x % Base = z BY <1>1, Quotient
<1>3. Chip!WithLow(x, byte) = h * Base + byte /\ Chip!WithHigh(x, byte) = byte * Base + z
  BY <1>2 DEF Chip!WithLow, Chip!WithHigh
<1> QED BY <1>3 DEF x, h, z

\* A step that leaves the timers alone, and the flags that it leaves.
Quiet(flags) ==
  /\ TimersSame(via, via') /\ via'.IFR \cap TimerFlags = flags /\ via'.half = via.half /\ (via'.free => via.free)
  /\ loaded' = loaded /\ program' = program

\* It is a step that changes the flags alone.
LEMMA QuietSteps ==
  ASSUME Timely, Sound(via'), NEW flags, Quiet(flags), JustFired(via) \subseteq flags
  PROVE  /\ Linked(via', loaded') /\ Started(via', program'.timed, loaded')
         /\ Counters' = [Counters EXCEPT !.flags = flags]
<1>1. Sound(via) /\ loaded \in BOOLEAN /\ Linked(via, loaded) BY DEF Timely, IInv
<1>2. TimersSame(via, via') /\ (via'.free => via.free) /\ loaded' = loaded /\ JustFired(via) \subseteq via'.IFR
  BY DEF Quiet
<1>3. /\ Linked(via', loaded)
      /\ CountersOf(via', loaded) = [CountersOf(via, loaded) EXCEPT !.flags = via'.IFR \cap TimerFlags]
  BY <1>1, <1>2, SameCounters
<1>4. Started(via', program'.timed, loaded') BY DEF Timely, Quiet, Started, TimersSame
<1> QED BY <1>2, <1>3, <1>4 DEF Quiet, Counters

\* One that changes nothing that is seen, or clears some of the flags.
LEMMA QuietKeeps ==
  ASSUME Timely, Sound(via'), NEW flags, Quiet((via.IFR \ (flags \ JustFired(via))) \cap TimerFlags), flags \subseteq TimerFlags
  PROVE  ChipStep
<1> DEFINE left == (via.IFR \ (flags \ JustFired(via))) \cap TimerFlags
<1>1. JustFired(via) \subseteq left
  <2>1. JustFired(via) \subseteq via.IFR BY DEF Timely, Linked
  <2> QED BY <2>1, ChipView DEF Timely
<1>2. Linked(via', loaded') /\ Started(via', program'.timed, loaded') /\ Counters' = [Counters EXCEPT !.flags = left]
  BY <1>1, QuietSteps
<1>3. Counters' = [Counters EXCEPT !.flags = @ \ (flags \ Chip!Fresh)]
  <2>1. left = Counters.flags \ (flags \ Chip!Fresh) BY ChipView DEF Timely
  <2> HIDE DEF left
  <2> QED BY <1>2, <2>1
<1>4. Chip!ClearFlags(flags) BY <1>3 DEF Chip!ClearFlags
<1>5. flags \in SUBSET {"T1", "T2"} BY DEF TimerFlags
<1> QED BY <1>2, <1>4, <1>5 DEF ChipStep, Chip!Next

\* An access finds the timers in the second half of a cycle.
LEMMA AccessStarts ==
  ASSUME Timely, NEW register, NEW v \in Vias, Access(register, v), v.half = via.half, v.t1.fired = via.t1.fired, NEW known
  PROVE  Started(via', program'.timed, known)
<1>1. via' = [v EXCEPT !.free = FALSE] /\ program' = program /\ (program.timed => ~via.half) BY DEF Access
<1>2. via'.half = v.half /\ via'.t1 = v.t1 BY <1>1 DEF Vias
<1> QED BY <1>1, <1>2 DEF Timely, Started

\* A latch of a struct in which one byte is another.
LEMMA LatchWritten ==
  ASSUME NEW v \in Vias, NEW byte \in 0..(Base - 1)
  PROVE  /\ LET w == [v EXCEPT !.T1L.low = byte]
            IN  /\ w.T2L = v.T2L /\ w.t1 = v.t1 /\ w.t2 = v.t2 /\ w.ACR = v.ACR /\ w.pb7 = v.pb7 /\ w.IFR = v.IFR
                /\ w.half = v.half /\ w.free = v.free /\ Latch1(w) = Chip!WithLow(Latch1(v), byte)
         /\ LET w == [v EXCEPT !.T1L.high = byte]
            IN  /\ w.T2L = v.T2L /\ w.t1 = v.t1 /\ w.t2 = v.t2 /\ w.ACR = v.ACR /\ w.pb7 = v.pb7 /\ w.IFR = v.IFR
                /\ w.half = v.half /\ w.free = v.free /\ Latch1(w) = Chip!WithHigh(Latch1(v), byte)
         /\ LET w == [v EXCEPT !.T2L.low = byte]
            IN  /\ w.T1L = v.T1L /\ w.t1 = v.t1 /\ w.t2 = v.t2 /\ w.ACR = v.ACR /\ w.pb7 = v.pb7 /\ w.IFR = v.IFR
                /\ w.half = v.half /\ w.free = v.free /\ Latch2(w) = Chip!WithLow(Latch2(v), byte)
         /\ LET w == [v EXCEPT !.T2L.high = byte]
            IN  /\ w.T1L = v.T1L /\ w.t1 = v.t1 /\ w.t2 = v.t2 /\ w.ACR = v.ACR /\ w.pb7 = v.pb7 /\ w.IFR = v.IFR
                /\ w.half = v.half /\ w.free = v.free /\ Latch2(w) = Chip!WithHigh(Latch2(v), byte)
<1>1. v.T1L \in Latches /\ v.T2L \in Latches BY DEF Vias
<1>2. ASSUME NEW l \in Latches
      PROVE  /\ [l EXCEPT !.low = byte].low = byte /\ [l EXCEPT !.low = byte].high = l.high
             /\ [l EXCEPT !.high = byte].high = byte /\ [l EXCEPT !.high = byte].low = l.low
  BY DEF Latches
<1> DEFINE lows == [v.T1L EXCEPT !.low = byte]
           highs == [v.T1L EXCEPT !.high = byte]
           lows2 == [v.T2L EXCEPT !.low = byte]
           highs2 == [v.T2L EXCEPT !.high = byte]
<1>3. /\ lows.low = byte /\ lows.high = v.T1L.high /\ highs.high = byte /\ highs.low = v.T1L.low
      /\ lows2.low = byte /\ lows2.high = v.T2L.high /\ highs2.high = byte /\ highs2.low = v.T2L.low
  BY <1>1, <1>2
<1> HIDE DEF lows, highs, lows2, highs2
<1> DEFINE same(w) ==
             /\ w.t1 = v.t1 /\ w.t2 = v.t2 /\ w.ACR = v.ACR /\ w.pb7 = v.pb7 /\ w.IFR = v.IFR
             /\ w.half = v.half /\ w.free = v.free
<1>4. ASSUME NEW l PROVE same([v EXCEPT !.T1L = l]) /\ [v EXCEPT !.T1L = l].T1L = l /\ [v EXCEPT !.T1L = l].T2L = v.T2L
  BY DEF Vias
<1>5. ASSUME NEW l PROVE same([v EXCEPT !.T2L = l]) /\ [v EXCEPT !.T2L = l].T2L = l /\ [v EXCEPT !.T2L = l].T1L = v.T1L
  BY DEF Vias
<1>6. /\ Latch1([v EXCEPT !.T1L = lows]) = Chip!WithLow(Latch1(v), byte)
      /\ Latch1([v EXCEPT !.T1L = highs]) = Chip!WithHigh(Latch1(v), byte)
  BY <1>1, <1>3, <1>4, LatchBytes DEF Latch1
<1>7. /\ Latch2([v EXCEPT !.T2L = lows2]) = Chip!WithLow(Latch2(v), byte)
      /\ Latch2([v EXCEPT !.T2L = highs2]) = Chip!WithHigh(Latch2(v), byte)
  BY <1>1, <1>3, <1>5, LatchBytes DEF Latch2
<1> QED BY <1>4, <1>5, <1>6, <1>7 DEF lows, highs, lows2, highs2

\* Clearing interrupts leaves the timers alone.
LEMMA ClearTimers ==
  ASSUME NEW v, Sound(v), NEW flags
  PROVE  LET w == ClearInterrupt(v, flags)
         IN  /\ Sound(w) /\ w.t1 = v.t1 /\ w.t2 = v.t2 /\ w.T1L = v.T1L /\ w.T2L = v.T2L /\ w.ACR = v.ACR /\ w.pb7 = v.pb7
             /\ w.half = v.half /\ w.free = v.free /\ w.IFR \cap TimerFlags = (v.IFR \ flags) \cap TimerFlags
<1>1. v \in Vias BY SoundTypes
<1> QED BY <1>1, ClearKeeps, ClearInterruptFacts DEF Keeps, RestKept

\* Loading a timer again leaves the rest alone.
LEMMA ReloadedRest ==
  ASSUME NEW c, Sound(c)
  PROVE  Reloaded(c).half = c.half /\ Reloaded(c).t1.fired = c.t1.fired
<1> DEFINE t == [c.t1 EXCEPT !.value = 2 * (Latch1(c) + 1) + 2]
<1>1. c \in Vias /\ c.t1 \in Timer1s BY SoundTypes DEF Vias
<1>2. Reloaded(c) = [c EXCEPT !.t1 = t] \/ Reloaded(c) = c BY DEF Reloaded, LoadT1, SetCount
<1>3. t.fired = c.t1.fired BY <1>1 DEF Timer1s
<1> HIDE DEF t
<1>4. [c EXCEPT !.t1 = t].half = c.half /\ [c EXCEPT !.t1 = t].t1 = t BY <1>1 DEF Vias
<1> QED BY <1>2, <1>3, <1>4

\* As does loading timer 1.
LEMMA LoadedRest ==
  ASSUME NEW c, Sound(c)
  PROVE  LET l == [LoadT1(c) EXCEPT !.t1.firing = TRUE, !.pb7 = FALSE] IN l.half = c.half /\ l.t1.fired = c.t1.fired
<1> DEFINE t == [c.t1 EXCEPT !.value = 2 * (Latch1(c) + 1) + 2]
           f == [t EXCEPT !.firing = TRUE]
           m == [c EXCEPT !.t1 = f]
           l == [m EXCEPT !.pb7 = FALSE]
<1>1. c \in Vias /\ c.t1 \in Timer1s BY SoundTypes DEF Vias
<1>2. LoadT1(c) = [c EXCEPT !.t1 = t] BY DEF LoadT1, SetCount
<1>3. [LoadT1(c) EXCEPT !.t1.firing = TRUE, !.pb7 = FALSE] = l BY <1>1, <1>2 DEF Vias
<1>4. t.fired = c.t1.fired /\ DOMAIN t = {"value", "firing", "fired"} BY <1>1 DEF Timer1s
<1> HIDE DEF t
<1>5. f.fired = c.t1.fired BY <1>4
<1> HIDE DEF f
<1>6. m.t1 = f /\ m.half = c.half /\ DOMAIN m = DOMAIN c BY <1>1 DEF Vias
<1> HIDE DEF m
<1>7. l.t1 = f /\ l.half = c.half BY <1>6
<1> QED BY <1>3, <1>5, <1>7

\* What keeps everything true is sound.
LEMMA KeptSound == ASSUME NEW v, NEW w, Keeps(v, w) PROVE Sound(w)
BY DEF Keeps

\* The writes to timer 1 are those of the chip.
LEMMA Timer1Writes ==
  ASSUME Timely, NEW byte \in Bytes, WriteT1CL(byte) \/ WriteT1LH(byte) \/ WriteT1CH(byte)
  PROVE  ChipStep
<1>1. /\ Sound(via) /\ via \in Vias /\ loaded \in BOOLEAN /\ Linked(via, loaded) /\ byte \in 0..(Base - 1)
      /\ JustFired(via) \subseteq via.IFR
  BY ViaAssumption, SoundTypes DEF Timely, IInv, Linked
<1>2. /\ Counters \in Chips /\ Counters = CountersOf(via, loaded) /\ Chip!Fresh = JustFired(via)
      /\ Counters.flags = via.IFR \cap TimerFlags /\ JustFired(via) \subseteq TimerFlags
      /\ Counters.latch1 = Latch1(via) /\ Counters.fired1 = via.t1.fired
  BY ChipView DEF Timely
<1> DEFINE v == GetT1(via)
           kept == {"T1"} \ JustFired(via)
<1>3. /\ Sound(v) /\ Linked(v, loaded) /\ CountersOf(v, loaded) = Counters /\ (loaded => v.t1.value >= 0)
      /\ v.IFR = via.IFR /\ v.free = via.free /\ v.half = via.half /\ JustFired(v) = JustFired(via)
  BY <1>1, <1>2, GetT1Keeps, GetT1Counters DEF Keeps
<1>4. v \in Vias /\ Latch1(v) = Latch1(via) /\ v.t1.fired = via.t1.fired
  <2>1. v = [via EXCEPT !.t1.value = Raw1(via) + 2] BY DEF GetT1
  <2>2. v.T1L = via.T1L BY <1>1, <2>1 DEF Vias
  <2>3. v.t1.fired = via.t1.fired BY <1>1, <2>1 DEF Vias, Timer1s
  <2> QED BY <1>3, <2>2, <2>3, SoundTypes DEF Latch1
<1> HIDE DEF v
<1>5. CASE WriteT1CL(byte)
  <2> DEFINE c == [v EXCEPT !.T1L.low = byte]
             w == [Reloaded(c) EXCEPT !.free = FALSE]
  <2>1. /\ Access("T1CL", Reloaded(c)) /\ loaded' = loaded BY <1>5 DEF WriteT1CL, Write, v
  <2>15. Keeps(v, c) BY <1>1, <1>3, LatchesKeep
  <2>4. /\ c.T2L = v.T2L /\ c.t1 = v.t1 /\ c.t2 = v.t2 /\ c.ACR = v.ACR /\ c.pb7 = v.pb7 /\ c.IFR = v.IFR
        /\ c.half = v.half /\ Latch1(c) = Chip!WithLow(Latch1(v), byte)
    BY <1>1, <1>4, LatchWritten
  <2> HIDE DEF c
  <2>2. via' = w /\ via.free BY <2>1 DEF Access
  <2>16. Sound(c) BY <2>15, KeptSound
  <2>17. Keeps(c, Reloaded(c)) BY <2>16, LoadT1Keeps, Zenon
  <2>3. Sound(c) /\ Sound(Reloaded(c)) BY <2>16, <2>17, KeptSound
  <2>5. JustFired(v) \subseteq c.IFR BY <1>1, <1>3, <2>4
  <2>6. /\ Linked(w, loaded)
        /\ CountersOf(w, loaded) = LatchedChip(Counters, c)
    BY <1>1, <1>3, <2>2, <2>3, <2>4, <2>5, LatchCounters
  <2>7. Reloaded(c).half = via.half /\ Reloaded(c).t1.fired = via.t1.fired BY <1>3, <1>4, <2>3, <2>4, ReloadedRest
  <2>8. Started(via', program'.timed, loaded') BY <2>1, <2>3, <2>7, SoundTypes, AccessStarts
  <2>9. Counters' = [Counters EXCEPT !.latch1 = Chip!WithLow(@, byte)]
    <3>1. Counters' = [Counters EXCEPT !.latch1 = Latch1(c), !.flags = Counters.flags]
      BY <1>2, <1>3, <2>1, <2>2, <2>4, <2>6 DEF Counters, LatchedChip
    <3>2. Latch1(c) = Chip!WithLow(Counters.latch1, byte) BY <1>2, <1>4, <2>4
    <3> QED BY <1>2, <3>1, <3>2 DEF Chips
  <2>10. Chip!WriteT1CL(byte) BY <2>9 DEF Chip!WriteT1CL
  <2> QED BY <2>1, <2>2, <2>6, <2>8, <2>10 DEF ChipStep, Chip!Next
<1>6. CASE WriteT1LH(byte)
  <2> DEFINE u == [v EXCEPT !.T1L.high = byte]
             c == ClearInterrupt(u, kept)
             w == [Reloaded(c) EXCEPT !.free = FALSE]
  <2>1. /\ Access("T1LH", Reloaded(c)) /\ loaded' = loaded BY <1>6 DEF WriteT1LH, Write, v
  <2>2. via' = w /\ via.free BY <2>1 DEF Access
  <2>3. Sound(u) BY <1>1, <1>3, LatchesKeep DEF Keeps
  <2>4. /\ u.T2L = v.T2L /\ u.t1 = v.t1 /\ u.t2 = v.t2 /\ u.ACR = v.ACR /\ u.pb7 = v.pb7 /\ u.IFR = v.IFR
        /\ u.half = v.half /\ Latch1(u) = Chip!WithHigh(Latch1(v), byte)
    BY <1>1, <1>4, LatchWritten
  <2> HIDE DEF u
  <2>5. /\ Sound(c) /\ c.t1 = u.t1 /\ c.t2 = u.t2 /\ c.T1L = u.T1L /\ c.T2L = u.T2L /\ c.ACR = u.ACR /\ c.pb7 = u.pb7
        /\ c.half = u.half /\ c.IFR \cap TimerFlags = (u.IFR \ kept) \cap TimerFlags
    BY <2>3, ClearTimers
  <2> HIDE DEF c, kept
  <2>15. Sound(c) BY <2>5
  <2>16. Keeps(c, Reloaded(c)) BY <2>15, LoadT1Keeps, Zenon
  <2>6. Sound(Reloaded(c)) BY <2>16, KeptSound
  <2>7. Latch1(c) = Latch1(u) BY <2>5 DEF Latch1
  <2>8. c.IFR \cap TimerFlags = Counters.flags \ kept BY <1>2, <1>3, <2>4, <2>5
  <2>9. JustFired(v) \subseteq c.IFR BY <1>1, <1>2, <1>3, <2>4, <2>5 DEF kept
  <2>10. /\ Linked(w, loaded)
         /\ CountersOf(w, loaded) = LatchedChip(Counters, c)
    BY <1>1, <1>3, <2>2, <2>4, <2>5, <2>9, LatchCounters
  <2>11. Reloaded(c).half = via.half /\ Reloaded(c).t1.fired = via.t1.fired BY <1>3, <1>4, <2>4, <2>5, ReloadedRest
  <2>12. Started(via', program'.timed, loaded') BY <2>1, <2>6, <2>11, SoundTypes, AccessStarts
  <2>13. Counters' = [Counters EXCEPT !.latch1 = Chip!WithHigh(@, byte), !.flags = @ \ ({"T1"} \ Chip!Fresh)]
    <3>1. Counters' = [Counters EXCEPT !.latch1 = Latch1(c), !.flags = Counters.flags \ kept]
      BY <2>1, <2>2, <2>8, <2>10 DEF Counters, LatchedChip
    <3>2. Latch1(c) = Chip!WithHigh(Counters.latch1, byte) BY <1>2, <1>4, <2>4, <2>7
    <3>3. kept = {"T1"} \ Chip!Fresh BY <1>2 DEF kept
    <3> QED BY <1>2, <3>1, <3>2, <3>3 DEF Chips
  <2>14. Chip!WriteT1LH(byte) BY <2>13 DEF Chip!WriteT1LH
  <2> QED BY <2>1, <2>2, <2>10, <2>12, <2>14 DEF ChipStep, Chip!Next
<1>7. CASE WriteT1CH(byte)
  <2> DEFINE u == ClearInterrupt(via, kept)
             c == [u EXCEPT !.T1L.high = byte]
             l == [LoadT1(c) EXCEPT !.t1.firing = TRUE, !.pb7 = FALSE]
             w == [l EXCEPT !.free = FALSE]
  <2>1. Access("T1CH", l) /\ loaded' = TRUE BY <1>7 DEF WriteT1CH
  <2>2. via' = w BY <2>1 DEF Access
  <2>3. /\ Sound(u) /\ u.t1 = via.t1 /\ u.t2 = via.t2 /\ u.T1L = via.T1L /\ u.T2L = via.T2L /\ u.ACR = via.ACR
        /\ u.half = via.half /\ u.IFR \cap TimerFlags = (via.IFR \ kept) \cap TimerFlags
    BY <1>1, ClearTimers
  <2> HIDE DEF u, kept
  <2>15. u \in Vias BY <2>3, SoundTypes
  <2>4. Sound(c) BY <1>1, <2>3, LatchesKeep DEF Keeps
  <2>5. /\ c.T2L = u.T2L /\ c.t1 = u.t1 /\ c.t2 = u.t2 /\ c.ACR = u.ACR /\ c.IFR = u.IFR
        /\ c.half = u.half /\ Latch1(c) = Chip!WithHigh(Latch1(u), byte)
    BY <1>1, <2>15, LatchWritten
  <2> HIDE DEF c
  <2>16. Keeps(c, l) BY <2>4, LoadT1Keeps, Zenon
  <2>6. Sound(l) BY <2>16, KeptSound
  <2>11. l.half = via.half /\ l.t1.fired = via.t1.fired BY <2>3, <2>4, <2>5, LoadedRest
  <2>17. w = [Loaded1(c) EXCEPT !.free = FALSE] BY DEF Loaded1
  <2> HIDE DEF l, w
  <2>7. Latch1(u) = Latch1(via) BY <2>3 DEF Latch1
  <2>8. c.IFR \cap TimerFlags = Counters.flags \ kept BY <1>2, <2>3, <2>5
  <2>9. JustFired(via) \subseteq c.IFR BY <1>1, <1>2, <2>3, <2>5 DEF kept
  <2>10. /\ Linked(w, TRUE)
         /\ CountersOf(w, TRUE) = LoadedChip(Counters, c)
    BY <1>1, <1>2, <2>3, <2>4, <2>5, <2>9, <2>17, LoadCounters
  <2>12. Started(via', program'.timed, loaded') BY <2>1, <2>6, <2>11, SoundTypes, AccessStarts
  <2>13. LET latch == Chip!WithHigh(Counters.latch1, byte)
         IN  Counters' = [Counters EXCEPT !.latch1 = latch, !.t1 = IF Counters.fired1 THEN @ ELSE latch + 1,
                                          !.armed1 = TRUE, !.pb7 = FALSE, !.flags = @ \ ({"T1"} \ Chip!Fresh)]
    <3> DEFINE t1 == IF Counters.fired1 THEN Counters.t1 ELSE Latch1(c) + 1
    <3>1. Counters' = [Counters EXCEPT !.latch1 = Latch1(c), !.t1 = t1,
                                       !.armed1 = TRUE, !.pb7 = FALSE, !.flags = Counters.flags \ kept]
      <4>1. Counters' = CountersOf(w, TRUE) BY <2>1, <2>2 DEF Counters
      <4> QED BY <1>2, <2>8, <2>10, <4>1 DEF Chips, LoadedChip
    <3>2. Latch1(c) = Chip!WithHigh(Counters.latch1, byte) BY <1>2, <2>5, <2>7
    <3>3. kept = {"T1"} \ Chip!Fresh BY <1>2 DEF kept
    <3>4. t1 = IF Counters.fired1 THEN Counters.t1 ELSE Latch1(c) + 1 OBVIOUS
    <3> HIDE DEF t1
    <3> QED BY <1>2, <3>1, <3>2, <3>3, <3>4 DEF Chips
  <2>14. Chip!WriteT1CH(byte) BY <2>13 DEF Chip!WriteT1CH
  <2> QED BY <2>1, <2>2, <2>10, <2>12, <2>14 DEF ChipStep, Chip!Next
<1> QED BY <1>5, <1>6, <1>7

\* The writes to timer 2 are those of the chip.
LEMMA Timer2Writes ==
  ASSUME Timely, NEW byte \in Bytes, WriteT2CL(byte) \/ WriteT2CH(byte)
  PROVE  ChipStep
<1>1. /\ Sound(via) /\ via \in Vias /\ loaded \in BOOLEAN /\ Linked(via, loaded) /\ byte \in 0..(Base - 1)
      /\ JustFired(via) \subseteq via.IFR
  BY ViaAssumption, SoundTypes DEF Timely, IInv, Linked
<1>2. /\ Counters \in Chips /\ Counters = CountersOf(via, loaded) /\ Chip!Fresh = JustFired(via)
      /\ Counters.flags = via.IFR \cap TimerFlags /\ JustFired(via) \subseteq TimerFlags
      /\ Counters.latch2 = Latch2(via) /\ Counters.pulses = Pulses(via)
  BY ChipView DEF Timely
<1>3. CASE WriteT2CL(byte)
  <2> DEFINE c == [via EXCEPT !.T2L.low = byte]
             w == [c EXCEPT !.free = FALSE]
  <2>1. Access("T2CL", c) /\ loaded' = loaded BY <1>3 DEF WriteT2CL, Write
  <2>2. Keeps(via, c) BY <1>1, LatchesKeep
  <2>3. /\ c.T1L = via.T1L /\ c.t1 = via.t1 /\ c.t2 = via.t2 /\ c.ACR = via.ACR /\ c.pb7 = via.pb7 /\ c.IFR = via.IFR
        /\ c.half = via.half /\ Latch2(c) = Chip!WithLow(Latch2(via), byte)
    BY <1>1, LatchWritten
  <2> HIDE DEF c
  <2>4. via' = w /\ via.free BY <2>1 DEF Access
  <2>5. Sound(c) BY <2>2, KeptSound
  <2>6. c \in Vias BY <2>5, SoundTypes
  <2>7. Keeps(c, w) BY <2>5, FreeKeeps
  <2>8. Sound(w) BY <2>7, KeptSound
  <2>9. /\ w.T1L = c.T1L /\ w.t1 = c.t1 /\ w.t2 = c.t2 /\ w.ACR = c.ACR /\ w.pb7 = c.pb7 /\ w.IFR = c.IFR /\ w.T2L = c.T2L
    BY <2>6 DEF Vias
  <2> HIDE DEF w
  <2>10. /\ w.t1 = via.t1 /\ w.t2 = via.t2 /\ w.T1L = via.T1L /\ w.ACR = via.ACR /\ w.pb7 = via.pb7 /\ w.IFR = via.IFR
         /\ (w.free => via.free)
    BY <2>3, <2>4, <2>9
  <2>11. Linked(w, loaded) /\ CountersOf(w, loaded) = [CountersOf(via, loaded) EXCEPT !.latch2 = Latch2(w)]
    BY <1>1, <2>8, <2>10, Latch2Counters
  <2>12. c.t1.fired = via.t1.fired BY <2>3
  <2>13. Started(via', program'.timed, loaded') BY <2>1, <2>3, <2>6, <2>12, AccessStarts
  <2>14. Counters' = [Counters EXCEPT !.latch2 = Chip!WithLow(@, byte)]
    <3>1. Latch2(w) = Chip!WithLow(Counters.latch2, byte) BY <1>2, <2>3, <2>9 DEF Latch2
    <3>2. Counters' = [Counters EXCEPT !.latch2 = Latch2(w)] BY <1>2, <2>1, <2>4, <2>11 DEF Counters
    <3> QED BY <3>1, <3>2
  <2>15. Chip!WriteT2CL(byte) BY <2>14 DEF Chip!WriteT2CL
  <2> QED BY <2>1, <2>4, <2>11, <2>13, <2>15 DEF ChipStep, Chip!Next
<1>4. CASE WriteT2CH(byte)
  <2> DEFINE kept == {"T2"} \ JustFired(via)
             u == ClearInterrupt(via, kept)
             c == [u EXCEPT !.T2L.high = byte]
             count == IF Pulses(c) THEN Latch2(c) ELSE Latch2(c) + 1
             l == [c EXCEPT !.t2 = [SetCount(@, count) EXCEPT !.firing = TRUE]]
             w == [l EXCEPT !.free = FALSE]
  <2>1. Access("T2CH", l) /\ loaded' = loaded BY <1>4 DEF WriteT2CH, Write
  <2>2. via' = w BY <2>1 DEF Access
  <2>3. /\ Sound(u) /\ u.t1 = via.t1 /\ u.t2 = via.t2 /\ u.T1L = via.T1L /\ u.T2L = via.T2L /\ u.ACR = via.ACR
        /\ u.pb7 = via.pb7 /\ u.half = via.half /\ u.free = via.free
        /\ u.IFR \cap TimerFlags = (via.IFR \ kept) \cap TimerFlags
    BY <1>1, ClearTimers
  <2> HIDE DEF u, kept
  <2>4. u \in Vias BY <2>3, SoundTypes
  <2>5. Keeps(u, c) BY <1>1, <2>3, LatchesKeep
  <2>6. /\ c.T1L = u.T1L /\ c.t1 = u.t1 /\ c.t2 = u.t2 /\ c.ACR = u.ACR /\ c.pb7 = u.pb7 /\ c.IFR = u.IFR
        /\ c.half = u.half /\ c.free = u.free /\ Latch2(c) = Chip!WithHigh(Latch2(u), byte)
    BY <1>1, <2>4, LatchWritten
  <2> HIDE DEF c
  <2>7. Sound(c) BY <2>5, KeptSound
  <2>8. c \in Vias BY <2>7, SoundTypes
  <2>9. Keeps(c, l) BY <2>7, LoadT2Keeps, Zenon
  <2>10. Sound(l) BY <2>9, KeptSound
  <2>11. l \in Vias BY <2>10, SoundTypes
  <2>12. Latch2(u) = Latch2(via) BY <2>3 DEF Latch2
  <2>13. c.IFR \cap TimerFlags = Counters.flags \ kept BY <1>2, <2>3, <2>6
  <2>14. JustFired(via) \subseteq c.IFR BY <1>1, <1>2, <2>3, <2>6 DEF kept
  <2>15. c.t1 = via.t1 /\ c.t2 = via.t2 /\ c.T1L = via.T1L /\ c.ACR = via.ACR /\ c.pb7 = via.pb7 /\ (c.free => via.free)
    BY <2>3, <2>6
  <2>17. l.half = c.half /\ l.t1 = c.t1 BY <2>8 DEF Vias
  <2>22. w = [Loaded2(c) EXCEPT !.free = FALSE] BY DEF Loaded2
  <2> HIDE DEF l, w
  <2>16. Linked(w, loaded) /\ CountersOf(w, loaded) = Loaded2Chip(Counters, c)
    BY <1>1, <1>2, <2>7, <2>14, <2>15, <2>22, Load2Counters
  <2>18. l.half = via.half /\ l.t1.fired = via.t1.fired BY <2>3, <2>6, <2>17
  <2>19. Started(via', program'.timed, loaded') BY <2>1, <2>11, <2>18, AccessStarts
  <2>20. LET latch == Chip!WithHigh(Counters.latch2, byte)
         IN  Counters' = [Counters EXCEPT !.latch2 = latch, !.armed2 = TRUE,
                                          !.t2 = IF Counters.pulses THEN latch ELSE latch + 1,
                                          !.flags = @ \ ({"T2"} \ Chip!Fresh)]
    <3> DEFINE t2 == IF Counters.pulses THEN Latch2(c) ELSE Latch2(c) + 1
    <3>1. Counters' = [Counters EXCEPT !.latch2 = Latch2(c), !.armed2 = TRUE, !.t2 = t2, !.flags = Counters.flags \ kept]
      <4>1. Counters' = CountersOf(w, loaded) BY <2>1, <2>2 DEF Counters
      <4> QED BY <1>2, <2>13, <2>16, <4>1 DEF Loaded2Chip
    <3>2. Latch2(c) = Chip!WithHigh(Counters.latch2, byte) BY <1>2, <2>6, <2>12
    <3>3. kept = {"T2"} \ Chip!Fresh BY <1>2 DEF kept
    <3>4. t2 = IF Counters.pulses THEN Latch2(c) ELSE Latch2(c) + 1 OBVIOUS
    <3> HIDE DEF t2
    <3> QED BY <3>1, <3>2, <3>3, <3>4
  <2>21. Chip!WriteT2CH(byte) BY <2>20 DEF Chip!WriteT2CH
  <2> QED BY <2>1, <2>2, <2>16, <2>19, <2>21 DEF ChipStep, Chip!Next
<1> QED BY <1>3, <1>4

\* The flags that are left when some are cleared, but for those just set.
Left(flags) == (via.IFR \ (flags \ JustFired(via))) \cap TimerFlags

\* That a cycle has had its access is nothing to the counters.
LEMMA FreedCounters ==
  ASSUME NEW x, Sound(x), NEW known \in BOOLEAN, Linked(x, known), NEW w, Sound(w), TimersSame(x, w), w.IFR = x.IFR, ~w.free
  PROVE  /\ Linked(w, known)
         /\ CountersOf(w, known) = [CountersOf(x, known) EXCEPT !.flags = w.IFR \cap TimerFlags]
<1>1. (w.free => x.free) /\ JustFired(x) \subseteq w.IFR BY DEF Linked
<1> QED BY <1>1, SameCounters

\* A struct with the counters of the state, and flags of its own.
Flagged(x) ==
  /\ Linked(x, loaded) /\ CountersOf(x, loaded) = [Counters EXCEPT !.flags = x.IFR \cap TimerFlags]
  /\ JustFired(x) = JustFired(via)

\* An access that does no more to the counters than to clear flags.
LEMMA FlagsAccess ==
  ASSUME Timely, NEW register, NEW x, Sound(x), Access(register, x), loaded' = loaded,
         Flagged(x), x.half = via.half,
         NEW flags, flags \subseteq TimerFlags, x.IFR \cap TimerFlags = Left(flags)
  PROVE  ChipStep
<1> DEFINE w == [x EXCEPT !.free = FALSE]
           left == Left(flags)
<1>1. /\ Sound(via) /\ via \in Vias /\ loaded \in BOOLEAN /\ x \in Vias
      /\ JustFired(x) \subseteq x.IFR /\ JustFired(via) \subseteq via.IFR
  BY SoundTypes DEF Timely, IInv, Linked, Flagged
<1>2. /\ Counters \in Chips /\ Chip!Fresh = JustFired(via) /\ Counters.flags = via.IFR \cap TimerFlags
      /\ JustFired(via) \subseteq TimerFlags
  BY ChipView DEF Timely
<1>3. via' = w BY DEF Access
<1>4. Keeps(x, w) BY FreeKeeps
<1>5. Sound(w) BY <1>4, KeptSound
<1>6. TimersSame(x, w) /\ w.IFR = x.IFR /\ ~w.free BY <1>1 DEF TimersSame, Vias
<1> HIDE DEF w
<1>7. /\ Linked(w, loaded)
      /\ CountersOf(w, loaded) = [CountersOf(x, loaded) EXCEPT !.flags = w.IFR \cap TimerFlags]
  <2>1. Linked(x, loaded) BY DEF Flagged
  <2> QED BY <1>1, <1>5, <1>6, <2>1, FreedCounters
<1>8. CountersOf(w, loaded) = [Counters EXCEPT !.flags = left]
  <2> DEFINE now == x.IFR \cap TimerFlags
  <2>1. CountersOf(x, loaded) = [Counters EXCEPT !.flags = now] BY DEF Flagged
  <2>2. w.IFR \cap TimerFlags = left BY <1>6
  <2>3. CountersOf(w, loaded) = [CountersOf(x, loaded) EXCEPT !.flags = left] BY <1>7, <2>2
  <2> HIDE DEF now, left
  <2> QED BY <1>2, <2>1, <2>3 DEF Chips
<1>9. left = Counters.flags \ (flags \ Chip!Fresh) BY <1>2 DEF Left
<1> HIDE DEF left
<1>10. Counters' = [Counters EXCEPT !.flags = @ \ (flags \ Chip!Fresh)] BY <1>3, <1>8, <1>9 DEF Counters
<1>11. Chip!ClearFlags(flags) BY <1>10 DEF Chip!ClearFlags
<1>12. x.t1.fired = via.t1.fired
  <2>1. x.t1.fired <=> via.t1.fired BY DEF JustFired, Flagged
  <2> QED BY <1>1, <2>1 DEF Vias, Timer1s
<1>13. Started(via', program'.timed, loaded') BY <1>1, <1>12, AccessStarts
<1>14. flags \in SUBSET {"T1", "T2"} BY DEF TimerFlags
<1> QED BY <1>3, <1>7, <1>11, <1>13, <1>14 DEF ChipStep, Chip!Next

\* A struct whose timers are those of the state, and whose flags are what is left.
Cleared(v, flags) ==
  /\ Sound(v) /\ TimersSame(via, v) /\ v.half = via.half /\ (v.free => via.free)
  /\ v.IFR \cap TimerFlags = Left(flags)

\* Clearing flags changes the flags of the counters and nothing else.
LEMMA ClearedCounters ==
  ASSUME Timely, NEW v, NEW flags, Cleared(v, flags)
  PROVE  Flagged(v)
<1>1. /\ Sound(via) /\ loaded \in BOOLEAN /\ Linked(via, loaded) /\ JustFired(via) \subseteq via.IFR
  BY DEF Timely, IInv, Linked
<1>2. JustFired(via) \subseteq TimerFlags /\ Counters = CountersOf(via, loaded) BY ChipView DEF Timely
<1>3. JustFired(via) \subseteq v.IFR BY <1>1, <1>2 DEF Cleared, Left
<1>4. Sound(v) /\ TimersSame(via, v) /\ (v.free => via.free) BY DEF Cleared
<1> QED BY <1>1, <1>2, <1>3, <1>4, SameCounters DEF Flagged

\* An access that leaves the timers alone.
LEMMA QuietAccess ==
  ASSUME Timely, NEW register, NEW v, NEW flags, flags \subseteq TimerFlags, Cleared(v, flags),
         Access(register, v), loaded' = loaded
  PROVE  ChipStep
<1>1. Flagged(v) BY ClearedCounters
<1> QED BY <1>1, FlagsAccess DEF Cleared

\* One that looks at a count too.
LEMMA LookingAccess ==
  ASSUME Timely, NEW register, NEW v, NEW flags, flags \subseteq TimerFlags, Cleared(v, flags),
         Access(register, GetT1(v)) \/ Access(register, GetT2(v)), loaded' = loaded
  PROVE  ChipStep
<1>1. Flagged(v) BY ClearedCounters
<1>2. Sound(v) /\ loaded \in BOOLEAN /\ v.half = via.half /\ v.IFR \cap TimerFlags = Left(flags)
  BY DEF Cleared, Timely, IInv
<1>3. ASSUME NEW x, Sound(x), Linked(x, loaded), CountersOf(x, loaded) = CountersOf(v, loaded),
             x.IFR = v.IFR, x.half = v.half, JustFired(x) = JustFired(v), Access(register, x)
      PROVE  ChipStep
  <2>1. Flagged(x) BY <1>1, <1>3 DEF Flagged
  <2> QED BY <1>2, <1>3, <2>1, FlagsAccess
<1>4. CASE Access(register, GetT1(v))
  <2>1. Keeps(v, GetT1(v)) BY <1>2, GetT1Keeps
  <2>2. Sound(GetT1(v)) BY <2>1, KeptSound
  <2>3. /\ Linked(GetT1(v), loaded) /\ CountersOf(GetT1(v), loaded) = CountersOf(v, loaded)
        /\ GetT1(v).IFR = v.IFR /\ GetT1(v).half = v.half /\ JustFired(GetT1(v)) = JustFired(v)
    BY <1>1, <1>2, GetT1Counters DEF Flagged
  <2> QED BY <1>3, <1>4, <2>2, <2>3
<1>5. CASE Access(register, GetT2(v))
  <2>1. Keeps(v, GetT2(v)) BY <1>2, GetT2Keeps
  <2>2. Sound(GetT2(v)) BY <2>1, KeptSound
  <2>3. /\ Linked(GetT2(v), loaded) /\ CountersOf(GetT2(v), loaded) = CountersOf(v, loaded)
        /\ GetT2(v).IFR = v.IFR /\ GetT2(v).half = v.half /\ JustFired(GetT2(v)) = JustFired(v)
    BY <1>1, <1>2, GetT2Counters DEF Flagged
  <2> QED BY <1>3, <1>5, <2>2, <2>3
<1> QED BY <1>4, <1>5

\* A struct whose timers, and their flags, are those of another.
Untouched(v, w) == TimersSame(v, w) /\ w.half = v.half /\ w.IFR \cap TimerFlags = v.IFR \cap TimerFlags

\* Timers untouched by two updates are untouched by both together.
LEMMA UntouchedOn == ASSUME NEW u, NEW v, NEW w, Untouched(u, v), Untouched(v, w) PROVE Untouched(u, w)
BY DEF Untouched, TimersSame

\* An interrupt of a line's edge leaves the timers untouched.
LEMMA RaisesUntouched == ASSUME NEW v, NEW w, Raises(v, w) PROVE Untouched(v, w) /\ (w.free = v.free)
BY DEF Raises, RestKept, Untouched, TimersSame

\* An access that leaves them untouched is a stutter of the chip, or as good as one.
LEMMA UntouchedAccess ==
  ASSUME Timely, NEW register, NEW w, Sound(w), Untouched(via, w), Access(register, w), loaded' = loaded
  PROVE  ChipStep
<1>1. via.free BY DEF Access
<1>2. w.IFR \cap TimerFlags = Left({}) BY DEF Untouched, Left
<1>3. Cleared(w, {}) BY <1>1, <1>2 DEF Untouched, Cleared
<1> QED BY <1>3, QuietAccess

\* And so is any other step that does.
LEMMA UntouchedStep ==
  ASSUME Timely, Sound(via'), Untouched(via, via'), via'.free => via.free, loaded' = loaded, program' = program
  PROVE  ChipStep
<1>1. via'.IFR \cap TimerFlags = (via.IFR \ ({} \ JustFired(via))) \cap TimerFlags BY DEF Untouched
<1>2. Quiet((via.IFR \ ({} \ JustFired(via))) \cap TimerFlags) BY <1>1 DEF Quiet, Untouched
<1> QED BY <1>2, QuietKeeps

\* What is left when interrupts are cleared.
LEMMA ClearUntouched ==
  ASSUME NEW v, Sound(v), NEW flags, flags \cap TimerFlags = {}
  PROVE  Sound(ClearInterrupt(v, flags)) /\ Untouched(v, ClearInterrupt(v, flags))
<1> DEFINE w == ClearInterrupt(v, flags)
<1>1. /\ Sound(w) /\ w.t1 = v.t1 /\ w.t2 = v.t2 /\ w.T1L = v.T1L /\ w.T2L = v.T2L /\ w.ACR = v.ACR /\ w.pb7 = v.pb7
      /\ w.half = v.half /\ w.IFR \cap TimerFlags = (v.IFR \ flags) \cap TimerFlags
  BY ClearTimers
<1> HIDE DEF w
<1>2. w.IFR \cap TimerFlags = v.IFR \cap TimerFlags BY <1>1
<1> QED BY <1>1, <1>2 DEF Untouched, TimersSame, w

\* via_clear_interrupt clears the timers' flags that it is given, and sets none.
LEMMA ClearsTimer ==
  ASSUME Timely, via.free, NEW flags
  PROVE  Cleared(ClearInterrupt(via, flags \ JustFired(via)), flags)
<1> DEFINE w == ClearInterrupt(via, flags \ JustFired(via))
<1>1. Sound(via) BY DEF Timely, IInv
<1>2. /\ Sound(w) /\ w.t1 = via.t1 /\ w.t2 = via.t2 /\ w.T1L = via.T1L /\ w.T2L = via.T2L /\ w.ACR = via.ACR
      /\ w.pb7 = via.pb7 /\ w.half = via.half /\ w.IFR \cap TimerFlags = (via.IFR \ (flags \ JustFired(via))) \cap TimerFlags
  BY <1>1, ClearTimers
<1> QED BY <1>2 DEF Cleared, Left, TimersSame

\* The reads are those of the chip: they clear a flag, or nothing that a timer has.
LEMMA ChipReads ==
  ASSUME Timely, ReadT1CL \/ ReadT1CH \/ ReadT2CL \/ ReadT2CH \/ ReadORA \/ ReadORB
  PROVE  ChipStep
<1> USE DEF Write
<1>1. Sound(via) BY DEF Timely, IInv
<1>2. via.free BY DEF ReadT1CL, ReadT1CH, ReadT2CL, ReadT2CH, ReadORA, ReadORB, Access
<1>3. Cleared(via, {}) BY <1>1, <1>2 DEF Cleared, Left, TimersSame
<1>4. CASE ReadT1CL
  <2>1. Cleared(ClearInterrupt(via, {"T1"} \ JustFired(via)), {"T1"}) BY <1>2, ClearsTimer
  <2> QED BY <1>4, <2>1, LookingAccess DEF ReadT1CL, TimerFlags
<1>5. CASE ReadT1CH BY <1>3, <1>5, LookingAccess DEF ReadT1CH
<1>6. CASE ReadT2CL
  <2>1. Cleared(ClearInterrupt(via, {"T2"} \ JustFired(via)), {"T2"}) BY <1>2, ClearsTimer
  <2> QED BY <1>6, <2>1, LookingAccess DEF ReadT2CL, TimerFlags
<1>7. CASE ReadT2CH BY <1>3, <1>7, LookingAccess DEF ReadT2CH
<1>8. CASE ReadORA
  <2>1. {"CA1", "CA2"} \cap TimerFlags = {} BY DEF TimerFlags
  <2>2. Access("ORA", ClearInterrupt(via, {"CA1", "CA2"})) /\ loaded' = loaded BY <1>8 DEF ReadORA
  <2> QED BY <1>1, <2>1, <2>2, ClearUntouched, UntouchedAccess
<1>9. CASE ReadORB
  <2>1. {"CB1"} \cap TimerFlags = {} BY DEF TimerFlags
  <2>2. Access("ORB", ClearInterrupt(via, {"CB1"})) /\ loaded' = loaded BY <1>9 DEF ReadORB
  <2> QED BY <1>1, <2>1, <2>2, ClearUntouched, UntouchedAccess
<1> QED BY <1>4, <1>5, <1>6, <1>7, <1>8, <1>9

\* The writes to the interrupt registers and to the lines' control.
LEMMA ChipControls ==
  ASSUME Timely,
         \/ WriteIFR(program.flags)
         \/ \E enable \in BOOLEAN : WriteIER(enable)
         \/ \E pcr \in program.PCR : WritePCR(pcr)
  PROVE  ChipStep
<1> USE DEF Write
<1>1. Sound(via) /\ via \in Vias /\ program \in Programs /\ via.id = program.id BY SoundTypes DEF Timely, IInv
<1>2. /\ program.flags \subseteq Interrupts
      /\ program.PCR \subseteq [CA1 : Edges, CB1 : Edges, CA2 : IF program.id = "system" THEN Edges ELSE Edges \cup {"low", "high"}]
  BY <1>1, ProgramsAssumption
<1>3. JustFired(via) \subseteq via.IFR /\ JustFired(via) \subseteq TimerFlags BY ChipView DEF Timely, Linked
<1>4. ASSUME WriteIFR(program.flags) PROVE ChipStep
  <2> DEFINE flags == (via.IFR \ program.flags) \cup JustFired(via)
             v == SetIFR(via, flags)
             timers == program.flags \cap TimerFlags
  <2>1. flags \in SUBSET (Interrupts \cup {"IRQ"}) BY <1>1 DEF Vias, JustFired, Interrupts
  <2>2. Access("IFR", v) /\ loaded' = loaded BY <1>4 DEF WriteIFR
  <2>3. via.free BY <2>2 DEF Access
  <2>4. flags \cap TimerFlags = Left(timers) BY <1>3 DEF Left
  <2> HIDE DEF flags
  <2>5. RestKept(via, v) /\ v.IFR \cap TimerFlags = flags \cap TimerFlags BY <1>1, <2>1, SetIFRFacts
  <2>6. Keeps(via, v) BY <1>1, <2>1, SetIFRKeeps
  <2> HIDE DEF v
  <2>7. Sound(v) BY <2>6, KeptSound
  <2>8. timers \subseteq TimerFlags OBVIOUS
  <2> HIDE DEF timers
  <2>9. Cleared(v, timers) BY <2>3, <2>4, <2>5, <2>7 DEF Cleared, RestKept, TimersSame
  <2> QED BY <2>2, <2>8, <2>9, QuietAccess
<1>5. ASSUME NEW enable \in BOOLEAN, WriteIER(enable) PROVE ChipStep
  <2> DEFINE enabled == IF enable THEN via.IER \cup program.flags ELSE via.IER \ program.flags
             u == [via EXCEPT !.IER = enabled]
             v == CheckInterrupt(u)
  <2>1. enabled \in SUBSET Interrupts BY <1>1, <1>2 DEF Vias
  <2>2. Access("IER", v) /\ loaded' = loaded BY <1>5 DEF WriteIER
  <2> HIDE DEF enabled
  <2>3. Keeps(via, v) BY <1>1, <2>1, EnableKeeps
  <2>4. /\ u \in Vias /\ u.t1 = via.t1 /\ u.t2 = via.t2 /\ u.T1L = via.T1L /\ u.T2L = via.T2L /\ u.ACR = via.ACR
        /\ u.pb7 = via.pb7 /\ u.half = via.half /\ u.IFR = via.IFR
    BY <1>1, <2>1 DEF Vias
  <2> HIDE DEF u
  <2>5. RestKept(u, v) /\ v.IFR \ {"IRQ"} = u.IFR \ {"IRQ"} BY <2>4, CheckInterruptFacts
  <2> HIDE DEF v
  <2>6. Sound(v) BY <2>3, KeptSound
  <2>7. "IRQ" \notin TimerFlags BY DEF TimerFlags
  <2>8. Untouched(via, v) BY <2>4, <2>5, <2>7 DEF Untouched, RestKept, TimersSame
  <2> QED BY <2>2, <2>6, <2>8, UntouchedAccess
<1>6. ASSUME NEW pcr \in program.PCR, WritePCR(pcr) PROVE ChipStep
  <2> DEFINE u == [via EXCEPT !.PCR = pcr]
             w == CASE pcr.CA2 = "low" -> SetCA2(u, FALSE) [] pcr.CA2 = "high" -> SetCA2(u, TRUE) [] OTHER -> u
  <2>1. pcr \in [CA1 : Edges, CB1 : Edges, CA2 : IF via.id = "system" THEN Edges ELSE Edges \cup {"low", "high"}]
    BY <1>1, <1>2
  <2>2. pcr \in Pcrs /\ (via.id = "system" => pcr.CA2 \in Edges)
    <3>1. CASE via.id = "system" BY <2>1, <3>1 DEF Pcrs
    <3>2. CASE via.id # "system" BY <2>1, <3>2 DEF Pcrs
    <3> QED BY <3>1, <3>2
  <2>3. Sound(w) BY <1>1, <2>2, PcrKeeps
  <2>4. Access("PCR", w) /\ loaded' = loaded BY <1>6 DEF WritePCR
  <2>5. u \in Vias /\ Untouched(via, u) BY <1>1, <2>2 DEF Vias, Untouched, TimersSame
  <2> HIDE DEF u
  <2>6. Untouched(u, u) BY DEF Untouched, TimersSame
  <2>7. Untouched(u, SetCA2(u, FALSE)) /\ Untouched(u, SetCA2(u, TRUE)) BY <2>5, SetCA2Facts, RaisesUntouched
  <2>8. Untouched(u, w) BY <2>6, <2>7
  <2> HIDE DEF w
  <2>9. Untouched(via, w) BY <2>5, <2>8, UntouchedOn
  <2> QED BY <2>3, <2>4, <2>9, UntouchedAccess
<1> QED BY <1>4, <1>5, <1>6

\* The writes to the ports.
LEMMA ChipPorts ==
  ASSUME Timely,
         \/ \E bits \in PortB : WriteORB(bits) \/ WriteDDRB(bits)
         \/ \E output \in BOOLEAN : WriteDDRA(output)
         \/ \E column \in Columns \cup {NoColumn} : WriteORA(column) \/ WriteORAnh(column)
  PROVE  ChipStep
<1> USE DEF Write
<1>1. Sound(via) /\ via \in Vias BY SoundTypes DEF Timely, IInv
<1>2. ASSUME NEW v, Sound(v) PROVE Sound(UpdatePortB(v)) /\ Untouched(v, UpdatePortB(v))
  <2>1. Keeps(v, UpdatePortB(v)) BY <1>2, PortBKeeps
  <2>2. v \in Vias BY <1>2, SoundTypes
  <2>3. Frame(v, UpdatePortB(v)) /\ UpdatePortB(v).IFR \cap TimerFlags = v.IFR \cap TimerFlags BY <2>2, UpdatePortBFacts
  <2> QED BY <2>1, <2>3, KeptSound DEF Untouched, Frame, TimersSame
<1>3. ASSUME NEW bits \in PortB, WriteORB(bits) \/ WriteDDRB(bits) PROVE ChipStep
  <2>1. bits \in SUBSET (0..3) BY ViaAssumption
  <2>2. Keeps(via, [via EXCEPT !.ORB = bits]) /\ Keeps(via, [via EXCEPT !.DDRB = bits]) BY <1>1, <2>1, PortBWrites
  <2>3. CASE WriteORB(bits)
    <3> DEFINE u == [via EXCEPT !.ORB = bits]
               v == ClearInterrupt(u, {"CB1"})
    <3>1. Access("ORB", UpdatePortB(v)) /\ loaded' = loaded BY <2>3 DEF WriteORB
    <3>2. Sound(u) BY <2>2, KeptSound
    <3>3. Untouched(via, u) BY <1>1 DEF Vias, Untouched, TimersSame
    <3> HIDE DEF u
    <3>4. {"CB1"} \cap TimerFlags = {} BY DEF TimerFlags
    <3>5. Sound(v) /\ Untouched(u, v) BY <3>2, <3>4, ClearUntouched
    <3> HIDE DEF v
    <3>6. Sound(UpdatePortB(v)) /\ Untouched(v, UpdatePortB(v)) BY <1>2, <3>5
    <3>7. Untouched(via, UpdatePortB(v)) BY <3>3, <3>5, <3>6, UntouchedOn
    <3> QED BY <3>1, <3>6, <3>7, UntouchedAccess
  <2>4. CASE WriteDDRB(bits)
    <3> DEFINE u == [via EXCEPT !.DDRB = bits]
    <3>1. Access("DDRB", UpdatePortB(u)) /\ loaded' = loaded BY <2>4 DEF WriteDDRB
    <3>2. Sound(u) BY <2>2, KeptSound
    <3>3. Untouched(via, u) BY <1>1 DEF Vias, Untouched, TimersSame
    <3> HIDE DEF u
    <3>4. Sound(UpdatePortB(u)) /\ Untouched(u, UpdatePortB(u)) BY <1>2, <3>2
    <3>5. Untouched(via, UpdatePortB(u)) BY <3>3, <3>4, UntouchedOn
    <3> QED BY <3>1, <3>4, <3>5, UntouchedAccess
  <2> QED BY <1>3, <2>3, <2>4
<1>4. ASSUME NEW v, Sound(v), NEW u, Ported(v, u), Untouched(v, u)
      PROVE  Sound(UpdatePortA(u)) /\ Untouched(v, UpdatePortA(u))
  <2>1. Keeps(v, UpdatePortA(u)) BY <1>4, PortAKeeps
  <2>2. Raises(u, UpdatePortA(u)) BY <1>4, UpdatePortAFacts DEF Ported
  <2> QED BY <1>4, <2>1, <2>2, KeptSound, RaisesUntouched, UntouchedOn
<1>5. ASSUME NEW output \in BOOLEAN, WriteDDRA(output) PROVE ChipStep
  <2> DEFINE u == [via EXCEPT !.DDRA = output]
  <2>1. Ported(via, u) BY <1>1, PortAWrites
  <2>2. Untouched(via, u) BY <1>1 DEF Vias, Untouched, TimersSame
  <2>3. Access("DDRA", UpdatePortA(u)) /\ loaded' = loaded BY <1>5 DEF WriteDDRA
  <2> HIDE DEF u
  <2> QED BY <1>1, <1>4, <2>1, <2>2, <2>3, UntouchedAccess
<1>6. ASSUME NEW column \in Columns \cup {NoColumn}, WriteORAnh(column) PROVE ChipStep
  <2> DEFINE u == [via EXCEPT !.ORA = column]
  <2>1. Ported(via, u) BY <1>1, PortAWrites
  <2>2. Untouched(via, u) BY <1>1 DEF Vias, Untouched, TimersSame
  <2>3. Access("ORAnh", UpdatePortA(u)) /\ loaded' = loaded BY <1>6 DEF WriteORAnh
  <2> HIDE DEF u
  <2> QED BY <1>1, <1>4, <2>1, <2>2, <2>3, UntouchedAccess
<1>7. ASSUME NEW column \in Columns \cup {NoColumn}, WriteORA(column) PROVE ChipStep
  <2> DEFINE v == ClearInterrupt(via, {"CA1", "CA2"})
             u == [v EXCEPT !.ORA = column]
  <2>1. {"CA1", "CA2"} \cap TimerFlags = {} BY DEF TimerFlags
  <2>2. Sound(v) /\ Untouched(via, v) BY <1>1, <2>1, ClearUntouched
  <2>3. Access("ORA", UpdatePortA(u)) /\ loaded' = loaded BY <1>7 DEF WriteORA
  <2> HIDE DEF v
  <2>4. v \in Vias BY <2>2, SoundTypes
  <2>5. Ported(v, u) BY <2>2, PortAWrites
  <2>6. Untouched(v, u) BY <2>4 DEF Vias, Untouched, TimersSame
  <2> HIDE DEF u
  <2>7. Sound(UpdatePortA(u)) /\ Untouched(v, UpdatePortA(u)) BY <1>4, <2>2, <2>5, <2>6
  <2>8. Untouched(via, UpdatePortA(u)) BY <2>2, <2>7, UntouchedOn
  <2> QED BY <2>3, <2>7, <2>8, UntouchedAccess
<1> QED BY <1>3, <1>5, <1>6, <1>7

\* The write to the auxiliary control register is that of the chip.
LEMMA ChipAcr ==
  ASSUME Timely, NEW bits \in SUBSET program.ACR, WriteACR(bits)
  PROVE  ChipStep
<1> USE DEF Write
<1> DEFINE y == AcrWritten(via, bits)
           w == [y EXCEPT !.free = FALSE]
           c == "continuous" \in bits
           p == "pulses" \in bits
           armed == Counters.armed1 /\ (via.t1.fired => c)
           t2 == IF p = Pulses(via) THEN Counters.t2
                 ELSE IF p THEN (IF Counters.t2 = -1 THEN MaxCount - 1 ELSE Counters.t2 - 1) ELSE Counters.t2 + 1
<1>1. Sound(via) /\ via \in Vias /\ program \in Programs /\ loaded \in BOOLEAN /\ Linked(via, loaded)
  BY SoundTypes DEF Timely, IInv
<1>2. bits \in SUBSET Modes BY <1>1, ProgramsAssumption
<1>3. Access("ACR", y) /\ loaded' = loaded BY DEF WriteACR, AcrWritten
<1>4. Keeps(via, y) BY <1>1, <1>2, AcrKeeps DEF AcrWritten
<1>5. AcrChange(via, bits, y) BY <1>1, <1>2, AcrFields
<1>6. /\ Linked(w, loaded)
      /\ CountersOf(w, loaded) = AcrChip(CountersOf(via, loaded), via, bits)
  BY <1>1, <1>2, AcrCounters
<1>7. /\ Counters \in Chips /\ Counters = CountersOf(via, loaded) /\ Counters.fired1 = via.t1.fired
      /\ Counters.pulses = Pulses(via)
  BY ChipView DEF Timely
<1> HIDE DEF y
<1>8. via' = w BY <1>3 DEF Access
<1> HIDE DEF w
<1>9. y \in Vias /\ y.half = via.half /\ y.t1.fired = via.t1.fired
  <2>1. Sound(y) BY <1>4, KeptSound
  <2> QED BY <1>5, <2>1, SoundTypes DEF AcrChange
<1>10. Started(via', program'.timed, loaded') BY <1>3, <1>9, AccessStarts
<1>11. CountersOf(w, loaded) = [Counters EXCEPT !.continuous = c, !.pulses = p, !.armed1 = armed, !.t2 = t2]
  BY <1>6, <1>7 DEF AcrChip
<1>12. c \in BOOLEAN /\ p \in BOOLEAN /\ Counters.pulses \in BOOLEAN BY <1>7 DEF Chips
<1>13. t2 = CASE p = Counters.pulses -> Counters.t2
              [] p /\ ~Counters.pulses -> Chip!CountT2(Counters.t2)
              [] ~p /\ Counters.pulses -> Counters.t2 + 1
  <2> HIDE DEF p
  <2>1. CASE p = Counters.pulses BY <1>7, <1>12, <2>1
  <2>2. CASE p /\ ~Counters.pulses BY <1>7, <1>12, <2>2 DEF Chip!CountT2
  <2>3. CASE ~p /\ Counters.pulses BY <1>7, <1>12, <2>3
  <2> QED BY <1>12, <2>1, <2>2, <2>3
<1>14. armed = (Counters.armed1 /\ (Counters.fired1 => c)) BY <1>7
<1>15. Counters' = CountersOf(w, loaded) BY <1>3, <1>8 DEF Counters
<1> HIDE DEF c, p, t2, armed
<1>16. Chip!WriteACR(c, p) BY <1>7, <1>11, <1>13, <1>14, <1>15 DEF Chip!WriteACR, Chips
<1> QED BY <1>3, <1>6, <1>8, <1>10, <1>12, <1>16 DEF ChipStep, Chip!Next

\* What happens around the chip is nothing to the timers.
LEMMA ChipSurroundings ==
  ASSUME Timely,
         \/ Vsync \/ StartConversion \/ ConversionDone
         \/ \E keys \in SUBSET Columns : KeysChange(keys)
  PROVE  ChipStep
<1>1. Sound(via) /\ via \in Vias BY SoundTypes DEF Timely, IInv
<1>2. CASE Vsync
  <2> DEFINE level == ~via.CA1
  <2>1. program' = program /\ loaded' = loaded /\ via' = SetCA1(via, level) /\ level \in BOOLEAN BY <1>2 DEF Vsync
  <2> HIDE DEF level
  <2>2. Keeps(via, via') BY <1>1, <2>1, SetCA1Keeps
  <2>3. Raises(via, via') BY <1>1, <2>1, SetCA1Facts
  <2>4. Sound(via') BY <2>2, KeptSound
  <2>5. Untouched(via, via') /\ via'.free = via.free BY <2>3, RaisesUntouched
  <2> QED BY <2>1, <2>4, <2>5, UntouchedStep
<1>3. CASE StartConversion
  <2> DEFINE v == SetCB1(via, TRUE)
  <2>1. Access("ADC", v) /\ loaded' = loaded BY <1>3 DEF StartConversion
  <2>2. Sound(v) BY <1>1, SetCB1Keeps
  <2>3. Raises(via, v) BY <1>1, SetCB1Facts
  <2> HIDE DEF v
  <2>4. Untouched(via, v) BY <2>3, RaisesUntouched
  <2> QED BY <2>1, <2>2, <2>4, UntouchedAccess
<1>4. CASE ConversionDone
  <2>1. via' = SetCB1(via, FALSE) /\ loaded' = loaded /\ program' = program BY <1>4 DEF ConversionDone
  <2>2. Sound(via') BY <1>1, <2>1, SetCB1Keeps
  <2>3. Raises(via, via') BY <1>1, <2>1, SetCB1Facts
  <2>4. Untouched(via, via') /\ via'.free = via.free BY <2>3, RaisesUntouched
  <2> QED BY <2>1, <2>2, <2>4, UntouchedStep
<1>5. ASSUME NEW keys \in SUBSET Columns, KeysChange(keys) PROVE ChipStep
  <2> DEFINE u == [via EXCEPT !.keys = keys]
  <2>1. via' = UpdatePortA(u) /\ loaded' = loaded /\ program' = program BY <1>5 DEF KeysChange
  <2>2. Ported(via, u) BY <1>1, PortAWrites
  <2>3. Untouched(via, u) /\ u.free = via.free BY <1>1 DEF Vias, Untouched, TimersSame
  <2> HIDE DEF u
  <2>4. Keeps(via, via') BY <1>1, <2>1, <2>2, PortAKeeps
  <2>5. Raises(u, via') BY <2>1, <2>2, UpdatePortAFacts DEF Ported
  <2>6. Untouched(u, via') /\ via'.free = u.free BY <2>5, RaisesUntouched
  <2>7. Untouched(via, via') BY <2>3, <2>6, UntouchedOn
  <2>8. Sound(via') BY <2>4, KeptSound
  <2> QED BY <2>1, <2>3, <2>6, <2>7, <2>8, UntouchedStep
<1> QED BY <1>2, <1>3, <1>4, <1>5

\* A cycle is one of the chip's, if the program is one to which time matters.
LEMMA ChipCycles ==
  ASSUME Timely, Cycle
  PROVE  ChipStep
<1>1. /\ Sound(via) /\ via \in Vias /\ program \in Programs /\ loaded \in BOOLEAN /\ Linked(via, loaded)
      /\ StartOK(via, program.timed) /\ Started(via, program.timed, loaded)
  BY SoundTypes DEF Timely, IInv
<1>2. program.timed \in BOOLEAN /\ via.half \in BOOLEAN BY <1>1, ProgramsAssumption DEF Vias
<1>3. program' = program /\ loaded' = loaded BY DEF Cycle
<1>4. Sound(via') /\ via'.half = FALSE
  <2>1. IInv BY DEF Timely
  <2>2. Step BY <2>1, OtherSteps
  <2>3. via' = [(IF program.timed THEN Advance(via, IF via.half THEN 1 ELSE 2) ELSE via) EXCEPT !.half = FALSE, !.free = TRUE]
    BY DEF Cycle
  <2>4. Sound(via') BY <2>2 DEF Step, IInv
  <2> DEFINE a == IF program.timed THEN Advance(via, IF via.half THEN 1 ELSE 2) ELSE via
             h == [a EXCEPT !.half = FALSE]
  <2>5. via' = [h EXCEPT !.free = TRUE] BY <2>3
  <2> HIDE DEF a
  <2>6. DOMAIN via' = DOMAIN h /\ DOMAIN h = DOMAIN a BY <2>5
  <2>7. via' \in Vias BY <2>4, SoundTypes
  <2>8. "half" \in DOMAIN a BY <2>6, <2>7 DEF Vias
  <2>9. h.half = FALSE BY <2>8
  <2> HIDE DEF h
  <2>10. via'.half = h.half BY <2>5, <2>6, <2>8
  <2> QED BY <2>4, <2>9, <2>10
<1>5. CASE program.timed
  <2> DEFINE ticks == IF via.half THEN 1 ELSE 2
  <2>1. ticks \in {1, 2} BY <1>2
  <2>2. ticks = 1 => ~via.t1.firing /\ ~via.t2.firing /\ ~loaded /\ Even(via.t2.value)
    BY <1>1, <1>5 DEF StartOK, Started
  <2>3. via.t1.value > -MaxIdle /\ via.t2.value > -MaxIdle BY <1>5 DEF Cycle
  <2>4. Goes(via, ticks, via') BY <1>5 DEF Cycle, Goes
  <2> HIDE DEF ticks
  <2>5. Linked(via', loaded) /\ CountersOf(via', loaded) = CycledChip(CountersOf(via, loaded))
    BY <1>1, <1>4, <2>1, <2>2, <2>3, <2>4, AdvanceCounters
  <2>6. Counters' = CycledChip(Counters) BY <1>3, <2>5 DEF Counters
  <2>7. Chip!Cycle BY <2>6 DEF Chip!Cycle, CycledChip, Next1, Next2, Hit1, Hit2, Chip!CountT2, Chip!Unknown
  <2>8. Started(via', program'.timed, loaded') BY <1>3, <1>4, <1>5 DEF Started
  <2> QED BY <1>3, <2>5, <2>7, <2>8 DEF ChipStep, Chip!Next
<1>6. CASE ~program.timed
  <2>1. ~via.t1.fired BY <1>1, <1>6 DEF Started
  <2>2. via' = [via EXCEPT !.half = FALSE, !.free = TRUE] BY <1>6 DEF Cycle
  <2>3. /\ via'.t1 = via.t1 /\ via'.t2 = via.t2 /\ via'.T1L = via.T1L /\ via'.T2L = via.T2L
        /\ via'.ACR = via.ACR /\ via'.pb7 = via.pb7 /\ via'.IFR = via.IFR
    BY <1>1, <2>2 DEF Vias
  <2>4. Linked(via', loaded') BY <1>1, <1>3, <2>1, <2>3 DEF Linked, JustFired
  <2>5. Started(via', program'.timed, loaded') BY <1>3, <1>4, <2>1, <2>3 DEF Started
  <2>6. CountersOf(via', loaded') = CountersOf(via, loaded)
    BY <1>3, <2>3 DEF CountersOf, Count1, Count2, Raw1, Raw2, Latch1, Latch2, Continuous, Pulses
  <2>7. Counters' = Counters BY <2>6 DEF Counters
  <2> QED BY <2>4, <2>5, <2>7 DEF ChipStep
<1> QED BY <1>2, <1>5, <1>6

\* A chip at rest is one that has been reset.
LEMMA RestCounters ==
  ASSUME NEW v, Sound(v), AtRest(v)
  PROVE  /\ Linked(v, FALSE) /\ CountersOf(v, FALSE) = Chip!Reset
         /\ \A timed : Started(v, timed, FALSE)
<1>1. MaxCount \in Nat /\ MaxCount >= 3 BY Widths
<1>2. Even(2 * MaxCount + 2) BY <1>1 DEF Even
<1>3. Linked(v, FALSE) BY <1>2 DEF AtRest, Linked, JustFired
<1>4. \A timed : Started(v, timed, FALSE) BY <1>2 DEF AtRest, Started
<1>5. Shown2(v) = MaxCount
  <2>1. v.t2.value = 2 * MaxCount + 2 /\ MaxCount \in Int BY <1>1 DEF AtRest
  <2>2. Shown2(v) = Rolled(MaxCount, MaxCount - 1) BY <2>1, Counts2
  <2> QED BY <1>1, <2>2 DEF Rolled
<1>6. CountersOf(v, FALSE) = Chip!Reset
  <2> DEFINE d == Chip!Reset
  <2>1. /\ d.t1 = -2 /\ d.latch1 = MaxCount /\ d.armed1 = FALSE /\ d.fired1 = FALSE
        /\ d.t2 = MaxCount /\ d.latch2 = MaxCount /\ d.armed2 = FALSE /\ d.fired2 = FALSE
        /\ d.continuous = FALSE /\ d.pulses = FALSE /\ d.pb7 = TRUE /\ d.flags = {}
    BY DEF Chip!Reset, Chip!Unknown
  <2>2. d \in Chips BY <1>1 DEF Chip!Reset, Chip!Unknown, Chips
  <2> HIDE DEF d
  <2>3. Continuous(v) = FALSE /\ Pulses(v) = FALSE BY DEF AtRest, Continuous, Pulses
  <2>4. /\ d.t1 = (IF ~FALSE THEN -2 ELSE IF v.t1.fired THEN -1 ELSE Count1(v)) /\ d.latch1 = Latch1(v)
        /\ d.t2 = Shown2(v) /\ d.latch2 = Latch2(v) /\ d.flags = v.IFR \cap TimerFlags
    BY <1>5, <2>1 DEF AtRest
  <2>5. /\ d.armed1 = v.t1.firing /\ d.fired1 = v.t1.fired /\ d.armed2 = v.t2.firing /\ d.fired2 = v.t2.fired
        /\ d.continuous = Continuous(v) /\ d.pulses = Pulses(v) /\ d.pb7 = v.pb7
    BY <2>1, <2>3, Zenon DEF AtRest
  <2>6. CountersOf(v, FALSE) = d BY <2>2, <2>4, <2>5, CountersAre
  <2> QED BY <2>6 DEF d
<1> QED BY <1>3, <1>4, <1>6

\* A reset is the chip's.
LEMMA ChipResets ==
  ASSUME Timely, PowerOnReset
  PROVE  ChipStep
<1>1. via \in Vias BY SoundTypes DEF Timely, IInv
<1>2. via.id \in {"system", "user"} /\ via.keys \in SUBSET Columns BY <1>1 DEF Vias
<1>3. via' = PowerOn(via.id, via.keys) /\ loaded' = FALSE BY DEF PowerOnReset
<1>4. Sound(via') /\ AtRest(via') BY <1>2, <1>3, PowerOnFacts
<1>5. Linked(via', loaded') /\ Started(via', program'.timed, loaded') BY <1>3, <1>4, RestCounters
<1>6. Counters' = Chip!Reset BY <1>3, <1>4, RestCounters DEF Counters
<1> QED BY <1>5, <1>6 DEF ChipStep, Chip!Next

\* Every step of the model is a step of the chip, or none.
LEMMA ChipSteps ==
  ASSUME Timely, [Next]_vars
  PROVE  Timely' /\ [Chip!Next]_Counters
<1>1. IInv' BY EveryStep DEF Timely, Step
<1>2. CASE UNCHANGED vars
  <2>1. via' = via /\ loaded' = loaded /\ program' = program BY <1>2 DEF vars
  <2>2. Counters' = Counters BY <2>1 DEF Counters
  <2> QED BY <1>1, <2>1, <2>2 DEF Timely
<1>3. CASE Next
  <2>1. ChipStep
    BY <1>3, Timer1Writes, Timer2Writes, ChipReads, ChipControls, ChipPorts, ChipAcr, ChipSurroundings, ChipCycles, ChipResets
    DEF Next
  <2> QED BY <1>1, <2>1 DEF ChipStep, Timely
<1> QED BY <1>2, <1>3

\* The timers start as the chip's do.
LEMMA ChipStarts == Init => Timely /\ Chip!Init
<1> SUFFICES ASSUME Init PROVE Timely /\ Chip!Init OBVIOUS
<1>1. program \in Programs /\ via = PowerOn(program.id, {}) /\ loaded = FALSE BY DEF Init
<1>2. program.id \in {"system", "user"} BY <1>1, ProgramsAssumption
<1>3. Sound(via) /\ AtRest(via) BY <1>1, <1>2, PowerOnFacts
<1>4. /\ Linked(via, loaded) /\ Started(via, program.timed, loaded)
      /\ CountersOf(via, loaded) = Chip!Reset
  BY <1>1, <1>3, RestCounters
<1> QED BY <1>4, Initially DEF Timely, Counters, Chip!Init

(* The timers, which the program lets run and looks at only when they fire or  *)
(* are asked for, count, reload, fire and stop as the 6522's do cycle by cycle, *)
(* for every width of the counters and whatever the 6502 does (via.c:151, 185, *)
(* 755): the model implements ViaTimers.                                      *)
THEOREM TimersAreTheChips == Spec => ImplementsChip
<1>1. Init => Timely /\ Chip!Init BY ChipStarts
<1>2. Timely /\ [Next]_vars => Timely' /\ [Chip!Next]_Counters BY ChipSteps
<1> QED BY <1>1, <1>2, PTL DEF Spec, ImplementsChip, Chip!Spec
=============================================================================
