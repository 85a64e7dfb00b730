SPECIFICATION Spec
CONSTANTS
  Runs = 1
  Sids <- MCSids
  Writes = {w1, w2}
  NoWrite = NoWrite
  Read = Read
  Other = Other
  NoCommand = NoCommand
  MaxSteps = 1
  MaxLost = 0
SYMMETRY Symmetry
INVARIANTS
  NothingLeft
CHECK_DEADLOCK FALSE
