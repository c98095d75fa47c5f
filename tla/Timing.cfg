SPECIFICATION Spec
CONSTANTS
  Timers = {t1, t2, t3}
  NoTimer = NoTimer
  Forever = 100
  Scale = 2
  Times = {0, 1}
  MaxAdjust = 1
  Mutable = {t1}
  ZeroInCallbacks = TRUE
  MaxDelta = 3
  MaxIdle = 2
  MaxMuted = 2
  MaxRemaining = 2
  TickMod = 2
INVARIANT WalkIsSound
PROPERTIES FifoOrder ImplementsService
