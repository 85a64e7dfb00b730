SPECIFICATION Spec
CONSTANTS
  c1 = c1
  c2 = c2
  a1 = a1
  a2 = a2
  Calls = {c1, c2}
  Askers = {a1, a2}
  Slots = 1
  Timeouts = TRUE
  MaxSpecs = 2
  MaxEpoch = 1
SYMMETRY Symmetry
INVARIANTS
  ClaimsDisjoint
  SettledOnce
  SlotBudget
  IndInv
PROPERTIES
  NothingSkipped
  ImplementsPromise
CHECK_DEADLOCK FALSE
