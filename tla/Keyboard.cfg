\* The clock stops at MaxTime, so that a run ends.
CHECK_DEADLOCK FALSE
SPECIFICATION FairSpec
CONSTANTS
  Alt = "alt"
  Plain = {"a"}
  Commands = {"E", "Z"}
  QueueSize = 2
  Back = 1
  FastPeriod = 2
  Sessions <- AllSessions
  NoFile = NoFile
  SeekTargets = {1, 2}
  MaxTime = 3
  MaxEvents = 4
INVARIANTS Coherent
PROPERTIES KeysAreRestored RewindEnds
