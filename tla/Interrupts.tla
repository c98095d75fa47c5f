------------------------------ MODULE Interrupts ------------------------------
(***************************************************************************)
(* The interrupt lines of the 6502, src/state_6502.c, and when they are       *)
(* looked at. A chip does so in the last cycle but one of every instruction.  *)
(* The interpreter, src/interp.c, knows how long no timer is due: only when   *)
(* one was due inside the instruction, or when it has seen a line up after    *)
(* the last poll, does it go back and poll. Code of the JIT or of inturbo      *)
(* polls never; it gives way to the interpreter in time. "chip" is the same    *)
(* program on a 6502 that always polls.                                        *)
(***************************************************************************)
EXTENDS Integers, Sequences, FiniteSets

CONSTANTS
  Levels,     \* the lines that interrupt while they are high
  Schedules,  \* what timers will do: sets of <<ticks from now, a line, "break" or "nothing">>
  Horizon     \* beyond the ticks of a schedule

VARIABLES
  cpu,   \* the CPU driver: the machine, flag I, do_irq, whether it will poll, is jammed, runs host code
  chip,  \* the 6502 that always polls
  kind   \* of 6502 and of driver
vars == <<cpu, chip, kind>>

Nmi == "nmi"

(* The machine w: what timers will do, the lines that are high, those that    *)
(* fire, and whether the countdown has been cut short.  state_6502_set_irq_level: *)
(* the NMI fires when it rises, the others as long as they are high.           *)
Raise(w, lines) == [w EXCEPT !.high = @ \cup lines, !.fire = @ \cup (lines \ (w.high \cap {Nmi}))]
Lower(w, lines) == [w EXCEPT !.high = @ \ lines, !.fire = @ \ (lines \ {Nmi})]

(* timing_advance_time, with timers that raise lines or change the NMI's. A   *)
(* countdown that has been cut short is at zero: nothing is due in no time.    *)
Due(w) ==
  LET now == {e[2] : e \in {f \in w.events : f[1] = 0}}
      rising == now \cap (Levels \cup ({Nmi} \ w.high))
  IN  [Raise(Lower(w, now \cap w.high \cap {Nmi}), rising) EXCEPT
         !.events = {f \in @ : f[1] > 0}, !.reset = @ \/ "break" \in now]
Tick(w) == Due([w EXCEPT !.events = {<<f[1] - 1, f[2]>> : f \in @}])
Advance(w, n) ==
  LET at[t \in 0 .. n] == IF t > 0 THEN Tick(at[t - 1]) ELSE IF w.stop /\ n = 0 THEN w ELSE Due(w)
  IN  [at[n] EXCEPT !.stop = @ /\ n = 0]
Countdown(w) ==
  IF w.stop THEN 0
  ELSE CHOOSE n \in 0 .. Horizon :
         /\ \A f \in w.events : n <= f[1]
         /\ n = Horizon \/ \E f \in w.events : n = f[1]

-----------------------------------------------------------------------------
(* What an instruction does, tick by tick, to a 6502 s.                       *)
Pending(s) == s.w.fire # {} /\ (Nmi \in s.w.fire \/ ~s.i)
Poll(s) == [s EXCEPT !.take = @ \/ Pending(s)]

(* The vector is chosen in the middle of the sequence, so that an NMI may take *)
(* the place of an interrupt, and on the NMOS part of a BRK.                   *)
Vector(s) ==
  LET seen == Nmi \in s.w.fire
      nmi  == seen /\ (s.take \/ ~kind.cmos)
  IN  [s EXCEPT !.w.fire = IF nmi THEN @ \ {Nmi} ELSE @, !.i = TRUE, !.take = FALSE,
                !.poll = @ \/ (seen /\ ~nmi),
                !.took = IF nmi THEN Nmi ELSE IF s.take THEN "irq" ELSE "brk"]

T(n) == <<"ticks", n>>
P == <<"poll", 0>>
Mask(i) == <<"mask", i>>
Touch(access) == <<"touch", access>>
Do(s, step) ==
  CASE step[1] = "ticks"  -> [s EXCEPT !.w = Advance(@, step[2])]
    [] step[1] = "poll"   -> Poll(s)
    [] step[1] = "mask"   -> [s EXCEPT !.i = step[2]]
    [] step[1] = "touch"  -> [s EXCEPT !.w = Raise(Lower(@, step[2].lowers), step[2].raises)]
Path(s, steps) ==
  LET after[k \in 0 .. Len(steps)] == IF k = 0 THEN s ELSE Do(after[k - 1], steps[k])
  IN  after[Len(steps)]

(* Instructions that touch no register: where they poll. A branch that is taken *)
(* polls at its beginning, and one to another page again.                      *)
Polled(cycles, branch) ==
  CASE cycles = 1                                 -> <<T(1)>>
    [] cycles = 3 /\ branch /\ ~kind.cmos         -> <<T(0), P, T(3)>>
    [] cycles = 4 /\ branch /\ ~kind.cmos         -> <<T(0), P, T(2), P, T(2)>>
    [] OTHER                                      -> <<T(cycles - 2), P, T(2)>>

(* Those that change flag I, and those that touch a register: what they do in  *)
(* order. At 2 MHz an access is a tick; at 1 MHz it is stretched, and a VIA is  *)
(* touched before the last tick of it. An access that is polled is polled       *)
(* before the last tick, too.                                                  *)
Untouched == [lowers |-> {}, raises |-> {}]
Access(at, stretch, polled, access) ==
  CASE at = "via"  -> <<T(stretch + 1)>> \o polled \o <<Touch(access), T(1)>>
    [] at = "1MHz" -> <<T(stretch + 1)>> \o polled \o <<T(1), Touch(access)>>
    [] at = "2MHz" -> polled \o <<T(1), Touch(access)>>
Ticked(k) ==
  CASE k.is = "cli"   -> <<P, Mask(FALSE), T(2)>>
    [] k.is = "sei"   -> <<P, Mask(TRUE), T(2)>>
    [] k.is = "plp"   -> <<T(2), P, Mask(k.i), T(2)>>
    [] k.is = "rti"   -> <<T(4), Mask(k.i), P, T(2)>>
    [] k.is = "touch" -> <<T(2), P, T(1)>> \o Access(k.at, k.stretch, <<>>, k.access)
    [] k.is = "modify" ->
         <<T(3)>> \o Access(k.at, k.stretch, <<>>, Untouched) \o Access(k.at, 0, <<P>>, Untouched)
           \o Access(k.at, 0, <<>>, k.access)

Changes(lines) == {[lowers |-> lines, raises |-> {}], [lowers |-> {}, raises |-> lines]}
Touches(name) ==
  [is : {name}, at : {"via"}, stretch : {0, 1}, access : Changes(Levels)]
  \cup [is : {name}, at : {"1MHz"}, stretch : {0, 1}, access : Changes({Nmi})]
  \cup [is : {name}, at : {"2MHz"}, stretch : {0}, access : Changes({Nmi})]
Brk == [is |-> "brk"]
Kinds ==
  {[is |-> "plain", cycles |-> n, branch |-> FALSE] : n \in {2, 3, 5} \cup (IF kind.cmos THEN {1} ELSE {})}
  \cup {[is |-> "plain", cycles |-> n, branch |-> TRUE] : n \in {3, 4}}
  \cup {[is |-> name, i |-> i] : name \in {"plp", "rti"}, i \in BOOLEAN}
  \cup {[is |-> "cli"], [is |-> "sei"], Brk}
  \cup Touches("touch") \cup Touches("modify")
  \cup IF kind.cmos THEN {} ELSE {[is |-> "kil"]}

-----------------------------------------------------------------------------
(* BREAK: the 6502 starts again, and all lines count as low. do_irq falls; that *)
(* the 6502 was jammed is not forgotten.                                       *)
Reset(s) ==
  IF s.w.reset THEN [s EXCEPT !.w = [@ EXCEPT !.high = {}, !.fire = {}, !.reset = FALSE], !.i = TRUE, !.take = FALSE]
  ELSE s

(* Mutant: only a line that has just been unmasked is noticed.                *)
CheckIrqUnmasked(s) == Reset([s EXCEPT !.poll = @ \/ (~s.take /\ s.w.fire \ {Nmi} # {} /\ ~s.i)])

(* The end of an instruction, when anything special is to be looked at.        *)
CheckIrq(s) == Reset([s EXCEPT !.poll = @ \/ (~s.take /\ Pending(s))])

(* Mutant: an expiry in the last instruction is processed like one at its end. *)
FinishLate(s, cycles, steps) ==
  LET left == Countdown(s.w) - cycles
  IN  IF s.poll THEN CheckIrq(Path([s EXCEPT !.poll = FALSE], steps))
      ELSE IF left > 0 /\ kind.driver = "interp" THEN [s EXCEPT !.w = Advance(@, cycles)]
      ELSE CheckIrq([s EXCEPT !.w = Advance(@, cycles)])

(* An instruction that is done, but for its ticks: if the countdown has ended  *)
(* in it, or a line is known to be up, time goes back to poll.                 *)
Finish(s, cycles, steps) ==
  LET left == Countdown(s.w) - cycles
      polls == (s.poll \/ left < 0) /\ ~s.jammed
  IN  IF polls THEN CheckIrq(Path([s EXCEPT !.poll = FALSE], steps))
      ELSE IF left > 0 /\ ~s.poll /\ kind.driver = "interp" THEN [s EXCEPT !.w = Advance(@, cycles)]
      ELSE CheckIrq([s EXCEPT !.w = Advance(@, cycles)])

Interpreted(s, k) ==
  LET fresh == [s EXCEPT !.took = "none"]
  IN  CASE k.is = "plain" -> Finish(fresh, k.cycles, Polled(k.cycles, k.branch))
        [] k.is = "kil"   -> Finish([fresh EXCEPT !.jammed = TRUE], 7, <<>>)
        [] k.is = "brk"   -> Finish(Vector([fresh EXCEPT !.w = Advance(@, 3)]), 4, Polled(4, FALSE))
        [] OTHER          -> CheckIrq(Path(fresh, Ticked(k)))

(* The 6502 that always polls.                                                *)
Executed(s, k) ==
  LET fresh == [s EXCEPT !.took = "none"]
  IN  Reset(CASE k.is = "kil" -> [fresh EXCEPT !.jammed = TRUE, !.w = Advance(@, 7)]
              [] k.is = "plain" -> Path(fresh, Polled(k.cycles, k.branch))
              [] k.is = "brk"   -> Path(Vector([fresh EXCEPT !.w = Advance(@, 3)]), Polled(4, FALSE))
              [] OTHER          -> Path(fresh, Ticked(k)))

-----------------------------------------------------------------------------
Interpret ==
  /\ ~cpu.host
  /\ \E k \in IF chip.jammed THEN {[is |-> "kil"]} ELSE IF cpu.take THEN {Brk} ELSE Kinds :
       /\ \A e \in cpu.w.events : e[2] = "break" => k.is # "kil" /\ (k.is = "brk" => e[1] > 3)
       /\ cpu' = Interpreted(cpu, k) /\ chip' = Executed(chip, k)
  /\ UNCHANGED kind

(* Mutant: the callback does not ask whether the interpreter will poll.        *)
LeaveInterpPending ==
  /\ kind.driver = "turbo" /\ ~cpu.host /\ ~cpu.take
  /\ cpu' = [cpu EXCEPT !.host = TRUE, !.jammed = FALSE, !.poll = FALSE]
  /\ UNCHANGED <<chip, kind>>

(* The instruction callback of jit.c and inturbo.c lets the interpreter end,  *)
(* though not with an interrupt it has decided on or will poll for.            *)
LeaveInterp ==
  /\ kind.driver = "turbo" /\ ~cpu.host /\ ~cpu.take /\ ~cpu.poll
  /\ cpu' = [cpu EXCEPT !.host = TRUE, !.jammed = FALSE]
  /\ UNCHANGED <<chip, kind>>

(* interp_enter_with_countdown, which is called between any two instructions.  *)
Entered(s) == CheckIrq([s EXCEPT !.host = FALSE, !.w = IF Countdown(@) = 0 THEN Advance(@, 0) ELSE @])
EnterInterp == cpu.host /\ cpu' = Entered(cpu) /\ UNCHANGED <<chip, kind>>

(* Host code runs an instruction if the countdown lasts to its end, and what   *)
(* could unmask an interrupt only if none waits.                               *)
Unmasks(k) == k.is \in {"cli", "rti"} \/ (k.is = "plp" /\ ~k.i)
Elapse(w, n) == [w EXCEPT !.events = {<<e[1] - n, e[2]>> : e \in @}]
HostCycles(k) == CASE k.is = "plain" -> k.cycles [] k.is = "brk" -> 7 [] k.is \in {"cli", "sei"} -> 2
                   [] k.is = "plp" -> 4 [] k.is = "rti" -> 6
HostCode ==
  /\ cpu.host /\ ~chip.jammed
  /\ \E k \in Kinds :
       /\ k.is \notin {"touch", "modify", "kil"}
       /\ HostCycles(k) <= Countdown(cpu.w)
       /\ Unmasks(k) => cpu.w.fire = {}
       /\ cpu' = [cpu EXCEPT !.w = Elapse(@, HostCycles(k)), !.took = "none",
                             !.i = CASE k.is = "cli" -> FALSE [] k.is \in {"sei", "brk"} -> TRUE
                                     [] k.is \in {"plp", "rti"} -> k.i [] OTHER -> @]
       /\ chip' = [Executed(chip, k) EXCEPT !.took = "none"]
  /\ UNCHANGED kind

StoreToVia(access) == [is |-> "touch", at |-> "via", stretch |-> 0, access |-> access]

(* Mutant: the interrupt is left to be found when the countdown ends.          *)
HostWriteQuietly ==
  /\ cpu.host /\ ~chip.jammed /\ 5 <= Countdown(cpu.w)
  /\ cpu' = [cpu EXCEPT !.w = Raise(Elapse(@, 5), Levels), !.took = "none"]
  /\ chip' = Executed(chip, StoreToVia([lowers |-> {}, raises |-> Levels]))
  /\ UNCHANGED kind

(* The JIT's code calls the VIA itself: via_check_new_irq ends the countdown   *)
(* if that has raised an interrupt. (No BREAK at that very tick: it would be    *)
(* seen an instruction later.)                                                 *)
HostWrite ==
  /\ cpu.host /\ ~chip.jammed /\ 5 <= Countdown(cpu.w) /\ <<5, "break">> \notin cpu.w.events
  /\ \E access \in Changes(Levels) :
       LET w == Raise(Lower(Elapse(cpu.w, 5), access.lowers), access.raises)
       IN  /\ cpu' = [cpu EXCEPT !.w = [w EXCEPT !.stop = ~cpu.i /\ w.fire # {}], !.took = "none"]
           /\ chip' = Executed(chip, StoreToVia(access))
  /\ UNCHANGED kind

Init ==
  /\ kind \in [cmos : BOOLEAN, driver : {"interp", "turbo"}]
  /\ \E events \in Schedules :
       cpu = [w |-> [events |-> events, high |-> {}, fire |-> {}, stop |-> FALSE, reset |-> FALSE],
              i |-> TRUE, take |-> FALSE, poll |-> FALSE, jammed |-> FALSE, host |-> FALSE, took |-> "none"]
  /\ chip = cpu
Next == Interpret \/ LeaveInterp \/ EnterInterp \/ HostCode \/ HostWrite
Spec == Init /\ [][Next]_vars

-----------------------------------------------------------------------------
(* An interrupt is taken after the instruction after which a 6502 takes it,    *)
(* and so is an NMI, once for each time it rises, by the same vector and with   *)
(* flag I the same: whatever the interpreter leaves out, and wherever it hands  *)
(* over to host code and back.                                                 *)
TakenInTime ==
  LET s == IF cpu.host THEN Entered(cpu) ELSE cpu
  IN  /\ s.take = chip.take /\ s.took = chip.took /\ s.i = chip.i
      /\ LET w == IF s.w.stop THEN Due(s.w) ELSE s.w
         IN  w.fire = chip.w.fire /\ w.high = chip.w.high /\ w.events = chip.w.events
=============================================================================
