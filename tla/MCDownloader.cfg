SPECIFICATION FairSpec
CONSTANTS
  Uris = 2
  Size = 5
  Balance = 1
  MaxTries = 2
  Weight = 2
INVARIANTS
  SuccessIsComplete
  NobodyLeftBehind
PROPERTIES
  Terminates
CHECK_DEADLOCK FALSE
