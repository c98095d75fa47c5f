---------------------------- MODULE TimerService ----------------------------
(***************************************************************************)
(* What timing.h promises its clients, without the machinery of timing.c:  *)
(* each timer has a time remaining that runs down while it ticks; time     *)
(* never runs past the zero of a timer that is both ticking and firing;    *)
(* a timer's callback is called at its zero and at no other time; and an   *)
(* operation on one timer changes nothing about the others.                *)
(***************************************************************************)
EXTENDS Integers

CONSTANTS Timers, NoTimer, Forever

VARIABLES
  remaining,    \* ticks until each timer reaches zero
  ticking,      \* started and not stopped
  firing,       \* whether reaching zero calls the callback
  active        \* the timer whose callback is being called, or NoTimer

vars == <<remaining, ticking, firing, active>>

Armed(t) == ticking[t] /\ firing[t]

\* Only t's time remaining may change.
Retimes(t) ==
  \A s \in Timers \ {t} : remaining'[s] = remaining[s]

Start(t) ==
  /\ ~ticking[t]
  /\ ticking' = [ticking EXCEPT ![t] = TRUE]
  /\ Retimes(t)
  /\ UNCHANGED <<firing, active>>

Stop(t) ==
  /\ ticking[t]
  /\ ticking' = [ticking EXCEPT ![t] = FALSE]
  /\ UNCHANGED <<remaining, firing, active>>

SetTime(t) ==
  /\ Retimes(t)
  /\ UNCHANGED <<ticking, firing, active>>

Mute(t) ==
  /\ firing' = [firing EXCEPT ![t] = ~@]
  /\ UNCHANGED <<remaining, ticking, active>>

Elapse(d) ==
  /\ active = NoTimer
  /\ \A t \in Timers : Armed(t) => d <= remaining[t]
  /\ remaining' = [t \in Timers |-> IF ticking[t] THEN remaining[t] - d
                                                  ELSE remaining[t]]
  /\ UNCHANGED <<ticking, firing, active>>

Fire(t) ==
  /\ active = NoTimer
  /\ Armed(t) /\ remaining[t] = 0
  /\ active' = t
  /\ UNCHANGED <<remaining, ticking, firing>>

\* The callback has stopped, muted or re-armed its own timer.
Return ==
  /\ active # NoTimer
  /\ Armed(active) => remaining[active] > 0
  /\ active' = NoTimer
  /\ UNCHANGED <<remaining, ticking, firing>>

Init ==
  /\ remaining = [t \in Timers |-> Forever]
  /\ ticking = [t \in Timers |-> FALSE]
  /\ firing = [t \in Timers |-> TRUE]
  /\ active = NoTimer

Next ==
  \/ \E t \in Timers : Start(t) \/ Stop(t) \/ SetTime(t) \/ Mute(t) \/ Fire(t)
  \/ \E d \in 0..Forever : Elapse(d)
  \/ Return

Spec == Init /\ [][Next]_vars
=============================================================================
