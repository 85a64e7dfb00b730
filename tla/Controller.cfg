SPECIFICATION Spec
CONSTANTS
  Requests = {r1}
INVARIANTS
  ControllerInv
  MarkerTruthful
  ValidMeansClean
  CleanupComplete
PROPERTIES
  NextRunFresh
  CloseEnds
CHECK_DEADLOCK FALSE
