SPECIFICATION ProgressFairSpec
CONSTANTS
  Files = {f1, f2, f3}
  Limit = 2
  MaxReleases = 2
INVARIANTS
  ShownIsSaved
  PullCountsAll
PROPERTIES
  ExecutionEnds
CHECK_DEADLOCK FALSE
