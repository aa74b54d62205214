SPECIFICATION AsyncFairSpec
CONSTANTS
  Savers = {s1, s2}
  Temp = Temp
  MaxTasks = 2
  MaxBlocks = 2
  MaxRestarts = 1
INVARIANTS
  DoneIsWhole
  LeftoverOnlyAfterGivingUp
PROPERTIES
  SaverEnds
CHECK_DEADLOCK FALSE
