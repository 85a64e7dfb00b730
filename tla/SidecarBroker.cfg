SPECIFICATION FairSpec
CONSTANTS
  Requests = {r1, r2}
INVARIANTS
  ForkOutlivesProcess
  CleanMeansQuiet
  BrokerInv
PROPERTIES
  NoResultInDoubt
  CloseReturns
CHECK_DEADLOCK FALSE
