SPECIFICATION FairSpecHere
CONSTANTS
  LongWord = 2
  ShortWord = 1
  ClockDivide = 2
  Tapes <- TwoTapes
  Carrier = 2
  FastTape = FALSE
  Devices <- TwoDevices
  Controls <- TwoControls
  SwitchesSending = FALSE
  SampleRate = 96000
  Recordings <- SomeRecordings
  Shapes <- SomeShapes
INVARIANTS Coherent TapesAreHeard
PROPERTIES TransmitDrains
