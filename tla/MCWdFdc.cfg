SPECIFICATION FairSpec
CONSTANTS
  d0 = d0
  d1 = d1
  Drives <- BothDrives
  None = none
  Programs <- AllPrograms
  RegMod = 3
  MaxTrack = 2
  SpinUpPulses = 2
  SpinDownPulses = 2
  IdBytes = 2
  MarkFirst = 1
  MarkLast = 3
  SectorBytes = 2
  DelayLost = 2
  DelayEnd = 4
  LeadIn = 1
  IndexBound = 2
INVARIANTS Coherent
PROPERTIES CommandsTellTheTruth CommandCompletes
