SPECIFICATION Spec
CONSTANTS
  r1 = r1
  s1 = s1
  c1 = c1
  w1 = w1
  a1 = a1
  a2 = a2
  NoCall = NoCall
  NoWrite = NoWrite
  NoAsker = NoAsker
  Other = Other
  Sids = {s1}
  Repos = {r1}
  RepoOf <- OneRepo
  Calls = {c1}
  Writes = {w1}
  Askers = {a1, a2}
  Fenced = TRUE
  NamedReports = TRUE
  MaxSpecs = 3
  MaxMutations = 1
  MaxReports = 0
  MaxStarts = 2
SYMMETRY Symmetry
INVARIANTS
  ClaimOwned
  SettledOnce
CHECK_DEADLOCK FALSE
