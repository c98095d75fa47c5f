----------------------------- MODULE MCRunLoop -----------------------------
(***************************************************************************)
(* The two threads, or, when they rest, what the CPU thread calls whenever   *)
(* its countdown ends: the scheduler, with three timers whose callbacks start *)
(* stop and move each other's.                                               *)
(***************************************************************************)
EXTENDS RunLoop

CONSTANTS
  Timers, NoTimer, Forever, Scale, Times, Mutable, ZeroInCallbacks, MaxDelta, MaxIdle, MaxMuted,
  MaxRemaining, TickMod
VARIABLES value, ticking, firing, expiry, nextExpiry, countdown, ticks, pc, left, cursor, running
clock == <<value, ticking, firing, expiry, nextExpiry, countdown, ticks, pc, left, cursor, running>>
Clock == INSTANCE Timing WITH MaxAdjust <- 1
all == <<vars, clock>>

NoClock ==
  /\ value = <<>> /\ ticking = <<>> /\ firing = <<>> /\ expiry = <<>> /\ nextExpiry = 0 /\ countdown = 0
  /\ ticks = -1 /\ pc = "idle" /\ left = 0 /\ cursor = NoTimer /\ running = NoTimer
Threads(A) == ticks = -1 /\ A /\ UNCHANGED clock
Walk(A) == ticks >= 0 /\ A /\ UNCHANGED vars
\* The CPU thread calls the scheduler over and over; a call runs to its end, and
\* callbacks are terminating code that resolve their own timer.
InitThreadsOrClock ==
  Init /\ (NoClock \/ (options = [window |-> TRUE, stop |-> FALSE, capture |-> FALSE] /\ ~bbc.fast /\ Clock!Init))
ThreadsOrClock ==
  /\ InitThreadsOrClock
  /\ [][Threads(Next) \/ Walk(Clock!Next)]_all
  /\ WF_all(Threads(Main)) /\ WF_all(Threads(CpuSteps)) /\ SF_all(Threads(CyclesTimer))
  /\ WF_all(Walk(Clock!EnterAdvance)) /\ WF_all(Walk(Clock!LeaveAdvance)) /\ WF_all(Walk(Clock!ExpireCountdown))
  /\ WF_all(Walk(Clock!FireTimer)) /\ WF_all(Walk(Clock!ResolveOperation)) /\ WF_all(Walk(Clock!CallbackReturns))
  /\ WF_all(Walk(Clock!EndScan))

\* The machine goes on only when its frame is painted, and when the main thread
\* is told that the machine is gone, it is (RunLoop).
ThreadsAgree == GoesOnWhenPainted /\ GoneWhenTold

\* An armed timer whose time has come is called back, unless a client stops,
\* mutes or moves it first: no walk that ends early loses it (Timing).
IsDue(t) == ticks >= 0 /\ Clock!Armed(t) /\ Clock!Remaining(t) = 0 /\ ~(pc = "callback" /\ running = t)
DueTimerFires == \A t \in Timers : IsDue(t) ~> ~IsDue(t)
=============================================================================
