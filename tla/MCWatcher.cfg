SPECIFICATION FairSpec
CONSTANTS
  MaxSessions = 2
  MaxLabels = 1
  MayClose = TRUE
INVARIANTS
  NoZombie
  OneLiveSession
  LiveSessionDelivers
  CloseEndsAll
PROPERTIES
  ImplementsSession
  StopReturns
  Recovers
CHECK_DEADLOCK FALSE
