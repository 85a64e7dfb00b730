SPECIFICATION FairSpec
CONSTANTS
  c1 = c1
  a1 = a1
  a2 = a2
  Calls = {c1}
  Askers = {a1, a2}
  Slots = 1
  Timeouts = FALSE
  MaxSpecs = 2
  MaxEpoch = 1
PROPERTIES
  AsksReturn
CHECK_DEADLOCK FALSE
