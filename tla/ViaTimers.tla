----------------------------- MODULE ViaTimers -----------------------------
(***************************************************************************)
(* What src/via.c promises of the 6522's two timers, as its comments say the *)
(* chip counts: once a cycle, timer 1 reloading from its latch after -1,     *)
(* timer 2 going round; an interrupt at -1 once per load, or at every -1 for *)
(* a continuous timer 1.  Nothing here is computed later than it happens.    *)
(***************************************************************************)
EXTENDS Integers

CONSTANTS
  MaxCount,  \* the largest count (65535)
  Base,      \* values of the low byte of a latch (256)
  Bytes      \* what may be written to a byte of a latch

VARIABLE chip

Unknown == -2  \* timer 1 until it is loaded

WithLow(latch, low) == (latch \div Base) * Base + low
WithHigh(latch, high) == high * Base + (latch % Base)

\* The interrupt flags that a write or read in this cycle cannot clear.
Fresh == (IF chip.fired1 THEN {"T1"} ELSE {}) \cup (IF chip.fired2 THEN {"T2"} ELSE {})

CountT2(t2) == IF t2 = -1 THEN MaxCount - 1 ELSE t2 - 1

Cycle ==
  LET t1 == IF chip.t1 = Unknown THEN Unknown
            ELSE IF chip.t1 = -1 THEN chip.latch1 ELSE chip.t1 - 1
      t2 == IF chip.pulses THEN chip.t2 ELSE CountT2(chip.t2)
      hit1 == chip.armed1 /\ t1 = -1
      hit2 == chip.armed2 /\ ~chip.pulses /\ t2 = -1
  IN  chip' = [chip EXCEPT
        !.t1 = t1, !.t2 = t2, !.fired1 = hit1, !.fired2 = hit2,
        !.armed1 = @ /\ (hit1 => chip.continuous), !.armed2 = @ /\ ~hit2,
        !.pb7 = IF hit1 THEN ~@ ELSE @,
        !.flags = @ \cup (IF hit1 THEN {"T1"} ELSE {}) \cup (IF hit2 THEN {"T2"} ELSE {})]

WriteT1CL(low) == chip' = [chip EXCEPT !.latch1 = WithLow(@, low)]

\* The counter takes the new value in the next cycle, as it does after -1.
WriteT1CH(high) ==
  LET latch == WithHigh(chip.latch1, high)
  IN  chip' = [chip EXCEPT !.latch1 = latch, !.t1 = IF chip.fired1 THEN @ ELSE latch + 1,
                           !.armed1 = TRUE, !.pb7 = FALSE,
                           !.flags = @ \ ({"T1"} \ Fresh)]

WriteT1LH(high) ==
  chip' = [chip EXCEPT !.latch1 = WithHigh(@, high), !.flags = @ \ ({"T1"} \ Fresh)]

WriteT2CL(low) == chip' = [chip EXCEPT !.latch2 = WithLow(@, low)]

WriteT2CH(high) ==
  LET latch == WithHigh(chip.latch2, high)
  IN  chip' = [chip EXCEPT !.latch2 = latch, !.armed2 = TRUE,
                           !.t2 = IF chip.pulses THEN latch ELSE latch + 1,
                           !.flags = @ \ ({"T2"} \ Fresh)]

\* A one-shot set in the very cycle of an expiry applies to it; a stopped timer 2
\* counts once more, and a started one begins a cycle later.
WriteACR(continuous, pulses) ==
  chip' = [chip EXCEPT
    !.continuous = continuous, !.pulses = pulses,
    !.armed1 = @ /\ (chip.fired1 => continuous),
    !.t2 = CASE pulses = chip.pulses -> @
             [] pulses /\ ~chip.pulses -> CountT2(@)
             [] ~pulses /\ chip.pulses -> @ + 1]

ClearFlags(flags) == chip' = [chip EXCEPT !.flags = @ \ (flags \ Fresh)]

Reset == [t1 |-> Unknown, latch1 |-> MaxCount, armed1 |-> FALSE, fired1 |-> FALSE,
          t2 |-> MaxCount, latch2 |-> MaxCount, armed2 |-> FALSE, fired2 |-> FALSE,
          continuous |-> FALSE, pulses |-> FALSE, pb7 |-> TRUE, flags |-> {}]

Next ==
  \/ Cycle
  \/ \E byte \in Bytes :
       WriteT1CL(byte) \/ WriteT1CH(byte) \/ WriteT1LH(byte) \/ WriteT2CL(byte) \/ WriteT2CH(byte)
  \/ \E continuous, pulses \in BOOLEAN : WriteACR(continuous, pulses)
  \/ \E flags \in SUBSET {"T1", "T2"} : ClearFlags(flags)
  \/ chip' = Reset

Init == chip = Reset

Spec == Init /\ [][Next]_chip
=============================================================================
