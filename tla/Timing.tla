------------------------------- MODULE Timing -------------------------------
(***************************************************************************)
(* The virtual time scheduler of beebjit, src/timing.c: every peripheral   *)
(* of the emulated machine arms a timer here and is called back when it    *)
(* expires, and the CPU drivers run 6502 code only for as long as          *)
(* `countdown' allows.                                                     *)
(*                                                                         *)
(* What makes the code delicate is that it never updates timers as time    *)
(* passes.  Running time only lowers countdown, so the value field of a    *)
(* ticking timer is out of date by nextExpiry - countdown until the next   *)
(* expiry, and callbacks re-enter the module while the list of expiring    *)
(* timers is being walked.                                                 *)
(*                                                                         *)
(* The doubly linked expiry list is the sequence `expiry'; the ticking     *)
(* list is walked only to update every member, so it is the set of timers  *)
(* t with ticking[t].                                                      *)
(***************************************************************************)
EXTENDS Integers, Sequences, SequencesExt

CONSTANTS
  Timers,       \* the registered timers (at most 24 in the code)
  NoTimer,      \* the NULL timer pointer
  Forever,      \* INT64_MAX, the expiry of nothing at all
  Scale,        \* scale_factor: internal ticks per external tick
  Times,        \* external times clients pass in
  MaxAdjust,    \* bound: the most external ticks adjust moves a timer
  Mutable,      \* the timers whose clients call set_firing (the VIAs' timers)
  ZeroInCallbacks, \* whether a callback may set another timer to expire at once
  MaxDelta,     \* bound: the most ticks one call of advance_time may cover
  MaxIdle,      \* bound: ticks that may pass since the last expiry
  MaxMuted,     \* bound: how far below zero a muted timer may run
  MaxRemaining, \* bound: the furthest a timer is ever set into the future
  TickMod       \* total_timer_ticks wraps here (2^64 in the code)

ASSUME TimingAssumption ==
  /\ NoTimer \notin Timers
  /\ Scale \in Nat \ {0}
  /\ Times \subseteq Nat
  /\ MaxAdjust \in Nat
  /\ Mutable \subseteq Timers
  /\ ZeroInCallbacks \in BOOLEAN
  /\ MaxDelta \in Nat \ {0}
  /\ MaxIdle \in Nat
  /\ MaxMuted \in Nat
  /\ MaxRemaining \in Nat
  /\ TickMod \in Nat \ {0}
  /\ Forever \in Nat
  /\ MaxIdle + 2 * MaxDelta < Forever

VARIABLES
  value,        \* timer_struct.value
  ticking,      \* timer_struct.ticking
  firing,       \* timer_struct.firing
  expiry,       \* the list from p_expiry_head
  nextExpiry,   \* next_timer_expiry
  countdown,    \* countdown
  ticks,        \* total_timer_ticks
  pc,           \* where advance_time is: "idle" outside it, "advance" at the
                \* head of its loop, "scan" at the head of pass 2 of
                \* do_advance_time, "callback" in the callback of `running'
  left,         \* the local delta of advance_time
  cursor,       \* the local p_timer of pass 2, loaded before the callback
  running       \* the local p_old_timer of pass 2, NoTimer outside callbacks

timerVars == <<value, ticking, firing, expiry>>
callVars == <<pc, left, cursor, running>>
vars == <<value, ticking, firing, expiry, nextExpiry, countdown, ticks,
          pc, left, cursor, running>>

-----------------------------------------------------------------------------
(* Helpers. *)

Adjustment == nextExpiry - countdown

\* The external deltas clients pass to adjust.
Deltas == (-MaxAdjust .. MaxAdjust) \ {0}

Armed(t) == ticking[t] /\ firing[t]

\* The ticks until t reaches zero, whatever the pending adjustment.
Remaining(t) == IF ticking[t] THEN value[t] - Adjustment ELSE value[t]

\* Mutant: the insertion loop stops at the first entry that does not expire
\* sooner.
InsertPositionBeforeEquals(list, val, v) ==
  CHOOSE i \in 1..(Len(list) + 1) :
    /\ \A j \in 1..(i - 1) : v > val[list[j]]
    /\ i <= Len(list) => v <= val[list[i]]

\* Where the insertion loop stops: before the first entry of the list that
\* expires strictly later, so after those that expire at the same time.
InsertPosition(list, val, v) ==
  CHOOSE i \in 1..(Len(list) + 1) :
    /\ \A j \in 1..(i - 1) : v >= val[list[j]]
    /\ i <= Len(list) => v < val[list[i]]

Inserted(list, val, t) == InsertAt(list, InsertPosition(list, val, val[t]), t)

Removed(list, t) ==
  RemoveAt(list, CHOOSE i \in 1..Len(list) : list[i] = t)

HeadValue(list, val) == IF list = <<>> THEN Forever ELSE val[Head(list)]

\* p_expiry_next: NULL at the end of the list and outside it.
NextInList(list, t) ==
  IF \E i \in 1..(Len(list) - 1) : list[i] = t
  THEN list[(CHOOSE i \in 1..(Len(list) - 1) : list[i] = t) + 1]
  ELSE NoTimer

\* timing_update_counts: the pending adjustment survives, only the expiry it
\* is measured from changes.
UpdateCounts ==
  /\ nextExpiry' = HeadValue(expiry', value')
  /\ countdown' = HeadValue(expiry', value') - Adjustment

-----------------------------------------------------------------------------
(* The operations clients call, from the CPU's register accesses and from  *)
(* timer callbacks alike.                                                  *)

\* Mutant: a timer started ahead of the others does not shorten the countdown.
StartTimerStaleCounts(t, v) ==
  /\ ~ticking[t]
  /\ value' = [value EXCEPT ![t] = v + Adjustment]
  /\ ticking' = [ticking EXCEPT ![t] = TRUE]
  /\ expiry' = IF firing[t] THEN Inserted(expiry, value', t) ELSE expiry
  /\ UNCHANGED <<firing, nextExpiry, countdown>>

StartTimerWithInternalValue(t, v) ==
  /\ ~ticking[t]
  /\ value' = [value EXCEPT ![t] = v + Adjustment]
  /\ ticking' = [ticking EXCEPT ![t] = TRUE]
  /\ expiry' = IF firing[t] THEN Inserted(expiry, value', t) ELSE expiry
  /\ UpdateCounts
  /\ UNCHANGED firing

StartTimer(t) == StartTimerWithInternalValue(t, value[t])

StartTimerWithValue(t, time) == StartTimerWithInternalValue(t, time * Scale)

\* Mutant: a stopped timer keeps its out of date value.
StopTimerStaysStale(t) ==
  /\ ticking[t]
  /\ ticking' = [ticking EXCEPT ![t] = FALSE]
  /\ expiry' = IF firing[t] THEN Removed(expiry, t) ELSE expiry
  /\ value' = value
  /\ UpdateCounts
  /\ UNCHANGED firing

StopTimer(t) ==
  /\ ticking[t]
  /\ ticking' = [ticking EXCEPT ![t] = FALSE]
  /\ expiry' = IF firing[t] THEN Removed(expiry, t) ELSE expiry
  /\ value' = [value EXCEPT ![t] = @ - Adjustment]
  /\ UpdateCounts
  /\ UNCHANGED firing

\* The remove and re-insert shared by set_timer_value and adjust_timer_value.
MoveTimer(t, v) ==
  /\ value' = [value EXCEPT ![t] = v]
  /\ expiry' = IF Armed(t) THEN Inserted(Removed(expiry, t), value', t)
                           ELSE expiry
  /\ UpdateCounts
  /\ UNCHANGED <<ticking, firing>>

SetTimerValue(t, time) ==
  MoveTimer(t, IF ticking[t] THEN time * Scale + Adjustment ELSE time * Scale)

AdjustTimerValue(t, delta) ==
  /\ value[t] # Forever
  /\ MoveTimer(t, value[t] + delta * Scale)

SetFiring(t, fires) ==
  /\ firing' = [firing EXCEPT ![t] = fires]
  /\ expiry' = IF ticking[t] /\ firing[t] # fires
               THEN IF fires THEN Inserted(expiry, value, t)
                             ELSE Removed(expiry, t)
               ELSE expiry
  /\ value' = value
  /\ UpdateCounts
  /\ UNCHANGED ticking

Operation(t) ==
  \/ value[t] # Forever /\ StartTimer(t)
  \/ \E time \in Times : StartTimerWithValue(t, time)
  \/ StopTimer(t)
  \/ \E time \in Times : SetTimerValue(t, time)
  \/ \E delta \in Deltas : AdjustTimerValue(t, delta)
  \/ t \in Mutable /\ \E fires \in BOOLEAN : SetFiring(t, fires)

(***************************************************************************)
(* What clients owe the scheduler, as the code's assertions and comments   *)
(* demand it.  A firing timer never has a time in the past; a callback     *)
(* that touches its own timer leaves it stopped, not firing, or in the     *)
(* future; and a callback does not disarm the timer the walk is about to   *)
(* call next, because the walk has already loaded it.                      *)
(***************************************************************************)
NothingOverdue == \A t \in Timers : Armed(t) => Remaining(t) >= 0

Resolved(t) == Armed(t) => value[t] > 0

NextStillDue == cursor # NoTimer => Armed(cursor) \/ value[cursor] > 0

WithinBounds ==
  \A t \in Timers :
    value[t] = Forever \/ Remaining(t) \in -MaxMuted .. MaxRemaining

\* Outside callbacks: a register access, or another thread of the program
\* acting between two runs of the CPU.
IdleOperation ==
  /\ pc = "idle"
  /\ \E t \in Timers : Operation(t)
  /\ UNCHANGED <<ticks, pc, left, cursor, running>>
  /\ NothingOverdue' /\ WithinBounds'

\* A callback re-arming, stopping or muting the timer it was called for.
ResolveOperation ==
  /\ pc = "callback"
  /\ Operation(running)
  /\ UNCHANGED <<ticks, pc, left, cursor, running>>
  /\ Resolved(running)'
  /\ NothingOverdue' /\ WithinBounds' /\ NextStillDue'

\* A callback acting on the timers of other devices.
OtherOperation ==
  /\ pc = "callback"
  /\ \E t \in Timers \ {running} :
       /\ Operation(t)
       /\ ZeroInCallbacks \/ Remaining(t)' # 0 \/ ~Armed(t)'
  /\ UNCHANGED <<ticks, pc, left, cursor, running>>
  /\ NothingOverdue' /\ WithinBounds' /\ NextStillDue'

ResetTotalTimerTicks ==
  /\ pc = "idle"
  /\ ticks' = 0
  /\ UNCHANGED <<value, ticking, firing, expiry, nextExpiry, countdown,
                 pc, left, cursor, running>>

-----------------------------------------------------------------------------
(* Advancing time. *)

Pass(d) ==
  /\ countdown' = countdown - d
  /\ ticks' = (ticks + d) % TickMod

\* The bound MaxMuted on how far time runs past a timer that does not fire.
MutedMayRun(d) ==
  \A t \in Timers : ticking[t] /\ ~firing[t] => Remaining(t) - d >= -MaxMuted

\* advance_time, and sync_countdown, when the countdown is not exhausted.
SyncCountdown ==
  /\ pc = "idle"
  /\ \E d \in 1..MaxDelta :
       /\ d < countdown
       /\ Adjustment + d <= MaxIdle
       /\ MutedMayRun(d)
       /\ Pass(d)
  /\ UNCHANGED <<value, ticking, firing, expiry, nextExpiry,
                 pc, left, cursor, running>>

\* advance_time when it is.
EnterAdvance ==
  /\ pc = "idle"
  /\ \E d \in 1..MaxDelta :
       /\ d >= countdown
       /\ MutedMayRun(d)
       /\ left' = d
  /\ pc' = "advance"
  /\ UNCHANGED <<value, ticking, firing, expiry, nextExpiry, countdown, ticks,
                 cursor, running>>

\* The loop of advance_time runs out of delta, or delta no longer reaches the
\* next expiry.
LeaveAdvance ==
  /\ pc = "advance"
  /\ left < countdown \/ left = 0
  /\ Pass(left)
  /\ left' = 0
  /\ pc' = "idle"
  /\ UNCHANGED <<value, ticking, firing, expiry, nextExpiry, cursor, running>>

\* Mutant: timers lose the countdown, not the adjustment pending before it.
ExpireUnadjusted ==
  /\ pc = "advance"
  /\ left > 0 /\ left >= countdown
  /\ ticks' = (ticks + countdown) % TickMod
  /\ left' = left - countdown
  /\ value' = [t \in Timers |-> IF ticking[t] THEN value[t] - countdown
                                              ELSE value[t]]
  /\ nextExpiry' = 0
  /\ countdown' = 0
  /\ cursor' = IF expiry = <<>> THEN NoTimer ELSE Head(expiry)
  /\ pc' = "scan"
  /\ UNCHANGED <<ticking, firing, expiry, running>>

\* Pass 1 of do_advance_time: every ticking timer gets its true value.
ExpireCountdown ==
  /\ pc = "advance"
  /\ left > 0 /\ left >= countdown
  /\ ticks' = (ticks + countdown) % TickMod
  /\ left' = left - countdown
  /\ value' = [t \in Timers |-> IF ticking[t]
                                THEN value[t] - (countdown + Adjustment)
                                ELSE value[t]]
  /\ nextExpiry' = 0
  /\ countdown' = 0
  /\ cursor' = IF expiry = <<>> THEN NoTimer ELSE Head(expiry)
  /\ pc' = "scan"
  /\ UNCHANGED <<ticking, firing, expiry, running>>

\* Mutant: a timer is due only once its time has passed.
IsDueLate(t) == t # NoTimer /\ value[t] < 0

IsDue(t) == t # NoTimer /\ value[t] <= 0

\* Pass 2: the next pointer is loaded, then the callback is called.
FireTimer ==
  /\ pc = "scan"
  /\ IsDue(cursor)
  /\ running' = cursor
  /\ cursor' = NextInList(expiry, cursor)
  /\ pc' = "callback"
  /\ UNCHANGED <<value, ticking, firing, expiry, nextExpiry, countdown, ticks,
                 left>>

CallbackReturns ==
  /\ pc = "callback"
  /\ Resolved(running)
  /\ running' = NoTimer
  /\ pc' = "scan"
  /\ UNCHANGED <<value, ticking, firing, expiry, nextExpiry, countdown, ticks,
                 left, cursor>>

EndScan ==
  /\ pc = "scan"
  /\ ~IsDue(cursor)
  /\ UNCHANGED <<value, ticking, firing, expiry>>
  /\ UpdateCounts
  /\ cursor' = NoTimer
  /\ pc' = "advance"
  /\ UNCHANGED <<ticks, left, running>>

\* timing_create and timing_register_timer.
Init ==
  /\ value = [t \in Timers |-> Forever]
  /\ ticking = [t \in Timers |-> FALSE]
  /\ firing = [t \in Timers |-> TRUE]
  /\ expiry = <<>>
  /\ nextExpiry = Forever
  /\ countdown = Forever
  /\ ticks = 0
  /\ pc = "idle"
  /\ left = 0
  /\ cursor = NoTimer
  /\ running = NoTimer

Next ==
  \/ IdleOperation
  \/ ResolveOperation
  \/ OtherOperation
  \/ ResetTotalTimerTicks
  \/ SyncCountdown
  \/ EnterAdvance
  \/ LeaveAdvance
  \/ ExpireCountdown
  \/ FireTimer
  \/ CallbackReturns
  \/ EndScan

Spec == Init /\ [][Next]_vars

-----------------------------------------------------------------------------
(* Properties. *)

\* Type correctness of the scheduler's state.
TypeOK ==
  /\ value \in [Timers -> Int]
  /\ ticking \in [Timers -> BOOLEAN]
  /\ firing \in [Timers -> BOOLEAN]
  /\ expiry \in Seq(Timers)
  /\ nextExpiry \in Int
  /\ countdown \in Int
  /\ ticks \in 0..(TickMod - 1)
  /\ pc \in {"idle", "advance", "scan", "callback"}
  /\ left \in 0..MaxDelta
  /\ cursor \in Timers \cup {NoTimer}
  /\ running \in Timers \cup {NoTimer}

\* The expiry list holds exactly the timers that are ticking and firing, each
\* once: start, stop, set_firing and the re-insertions of set_timer_value and
\* adjust_timer_value keep the intrusive list in step with the two flags.
ListIsArmed ==
  /\ \A t \in Timers : Armed(t) <=> \E i \in 1..Len(expiry) : expiry[i] = t
  /\ \A i, j \in 1..Len(expiry) : expiry[i] = expiry[j] => i = j

\* Sooner timers come first, which the early exits of the insertion loop and
\* of pass 2 rely on.
ListIsSorted ==
  \A i, j \in 1..Len(expiry) :
    i < j => value[expiry[i]] <= value[expiry[j]]

\* The CPU may run for countdown ticks: that is never past the true expiry of
\* an armed timer, and never a tick short of the earliest one, although the
\* timers' own values are stale.  The unsigned subtractions do not wrap.
CountdownIsNearest ==
  /\ Adjustment >= 0
  /\ countdown >= 0
  /\ \A t \in Timers : Armed(t) => countdown <= Remaining(t)
  /\ expiry # <<>> => \E t \in Timers : Armed(t) /\ countdown = Remaining(t)

\* The assertions of pass 2: the timer about to be called back is ticking and
\* firing and expires exactly now, even though earlier callbacks of the same
\* walk stopped, started and moved timers after its pointer was loaded.
FiresArmedAndOnTime ==
  pc = "scan" /\ IsDue(cursor) => Armed(cursor) /\ value[cursor] = 0

\* What makes the four properties above inductive.  The stored next expiry is
\* the head's own value throughout, the adjustment pending against it is zero
\* while the list is walked and bounded between walks, no armed timer is
\* overdue, and the walk's next pointer is good for one more step.
WalkIsSound ==
  /\ TypeOK /\ ListIsArmed /\ ListIsSorted
  /\ nextExpiry = HeadValue(expiry, value)
  /\ Adjustment \in 0..(MaxIdle + MaxDelta)
  /\ NothingOverdue
  /\ pc \in {"scan", "callback"} => Adjustment = 0 /\ NextStillDue
  /\ pc = "advance" => Adjustment = 0 \/ (left > 0 /\ left >= countdown)
  /\ pc = "callback" <=> running # NoTimer

(***************************************************************************)
(* The scheduler implements the service timing.h promises: with the        *)
(* pending adjustment taken off, time passes for every ticking timer at    *)
(* once, callbacks come exactly on time and only to armed timers, and      *)
(* operations on one timer leave the others' times alone.                  *)
(***************************************************************************)
Service == INSTANCE TimerService
             WITH remaining <- [t \in Timers |-> Remaining(t)],
                  active <- running

ImplementsService == Service!Spec

Before(list, s, t) ==
  \E i, j \in 1..Len(list) : i < j /\ list[i] = s /\ list[j] = t

\* FIFO among simultaneous expiries (test-timing.c:377): a timer that a step
\* arms, or moves to another time, is called after every timer that was already
\* armed for that time.
FifoOrder ==
  [][\A s, t \in Timers :
       /\ s # t
       /\ Armed(s) /\ Armed(s)' /\ value'[s] = value[s]
       /\ Armed(t)' /\ (~Armed(t) \/ value'[t] # value[t])
       /\ value'[s] = value'[t]
       => Before(expiry', s, t)]_vars
=============================================================================
