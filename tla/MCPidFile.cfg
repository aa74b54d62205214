SPECIFICATION PidFairSpec
CONSTANTS
  Pids = {p1, p2, p3}
  NoFile = NoFile
  Empty = Empty
  MaxKills = 3
INVARIANTS
  OneInstanceUnlessRaced
PROPERTIES
  RestartSucceeds
CHECK_DEADLOCK FALSE
