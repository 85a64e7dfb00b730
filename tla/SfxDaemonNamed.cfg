SPECIFICATION Spec
CONSTANTS
  r1 = r1
  s1 = s1
  c1 = c1
  w1 = w1
  a1 = a1
  NoCall = NoCall
  NoWrite = NoWrite
  NoAsker = NoAsker
  Other = Other
  Sids = {s1}
  Repos = {r1}
  RepoOf <- OneRepo
  Calls = {c1}
  Writes = {w1}
  Askers = {a1}
  Fenced = FALSE
  NamedReports = TRUE
  MaxSpecs = 1
  MaxMutations = 0
  MaxReports = 2
  MaxStarts = 1
SYMMETRY Symmetry
PROPERTIES
  ReportedReadsCurrent
CHECK_DEADLOCK FALSE
