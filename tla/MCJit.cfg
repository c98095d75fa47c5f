SPECIFICATION TranslationOrInterrupts
CONSTANTS
  Families <- MCFamilies
  Starts <- MCStarts
  Countdowns <- MCCountdowns
  Limits <- MCLimits
  SpecialFrom <- MCSpecialFrom
  Base = 8192
  Target = 12288
  DynamicTrigger = 4
  HistoryLength = 8
  Levels = {"via"}
  Schedules <- MCSchedules
  Horizon = 10
INVARIANTS DriversAgree LeavesAreExact
CHECK_DEADLOCK FALSE
