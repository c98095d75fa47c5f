SPECIFICATION Spec
CONSTANTS
  Base = 2
  Bytes = {0, 1}
  Wide = 256
  MaxIdle = 24
  Columns = {0}
  NoColumn = 15
  PortB <- LatchWrites
  Programs <- FivePrograms
INVARIANTS Coherent
PROPERTIES EdgesAreSeen ImplementsChip
