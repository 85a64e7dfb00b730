SPECIFICATION FairSpec
CONSTANTS
  Runs = 2
  Sids <- MCSids
  Writes = {w1, w2}
  NoWrite = NoWrite
  Read = Read
  Other = Other
  NoCommand = NoCommand
  MaxSteps = 1
  MaxLost = 1
INVARIANTS
  AgentInv
  FencedExecution
  CompletedMeansClean
PROPERTIES
  NoLateCommand
  EverythingReturns
CHECK_DEADLOCK FALSE
