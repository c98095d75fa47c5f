CONSTANTS
  NumRoms = 4
  Sockets = 2
  Cleared = 0
  PowerOn = 1
  OsRom = 9
  Written = {2}
  RomOf <- MCRomOf
  Fitted <- MCFitted
  Divider = 2
  LowMod = 2
  HighMod = 2
  NoisePeriods <- MCNoisePeriods
  RngTop = 4
  PerFrame <- MCPerFrame
  BufferSize = 3
  PeriodSize = 2
  Commands <- SomeCommands
  ResetsEarly = FALSE
  MaxTime = 11
  MaxWrites = 2
  LastAddr = 9
  ZeroPage = 1
  Romsel = 10
  PerSlot = 2
  MaxOps = 3
  MaxStores = 2
  MaxCompiles = 3
  OpOf <- MCOpOf
  RomArea <- MCRomArea
  Banks <- MCBanks
  Images <- MCImages
  Stored <- MCStored
  Targets <- MCTargets
SPECIFICATION MemorySoundOrBlocks

PROPERTY PowerOnClears
CHECK_DEADLOCK FALSE
