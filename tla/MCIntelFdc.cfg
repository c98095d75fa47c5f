SPECIFICATION FairSpec
CONSTANTS
  Drive0 = d0
  Drive1 = d1
  None = none
  Never = never
  Programs <- AllPrograms
  RegMod = 4
  MaxTrack = 2
  Sectors = {2}
  TimeoutPulses = 2
  SectorBytes = 2
  SkipBytes = 1
  SyncBytes = 1
  GapBytes = 1
INVARIANTS Coherent AsksForEachByte
PROPERTIES EndsAreTold FailsOnlyThere CommandCompletes
