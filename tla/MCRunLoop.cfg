SPECIFICATION ThreadsOrClock
CONSTANTS
  Channel = 2
  QueueSize = 1
  MaxKeys = 2
  Timers = {t1, t2, t3}
  NoTimer = NoTimer
  Forever = 100
  Scale = 1
  Times = {0, 1}
  Mutable = {}
  ZeroInCallbacks = FALSE
  MaxDelta = 2
  MaxIdle = 1
  MaxMuted = 2
  MaxRemaining = 1
  TickMod = 1
INVARIANT ThreadsAgree
PROPERTIES RequestsAreServed DueTimerFires
