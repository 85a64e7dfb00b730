SPECIFICATION Spec
INVARIANTS
  ForkInv
  CodeIsReviewed
  
  WriteHasOneName
PROPERTIES
  
  JobEnds
