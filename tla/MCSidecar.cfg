SPECIFICATION FairSpec
CONSTANTS
  zone = zone
  env = env
  pod = pod
  default = default
  a = a
  b = b
  host = host
  Contents <- MCContents
  Given <- MCGiven
  Defaults <- MCDefaults
  PodName <- MCPodName
  AppLabels <- MCAppLabels
  Bad = Bad
  Absent = Absent
  Nothing = Nothing
  Failure = Failure
  MaxEdits = 3
INVARIANTS
  RestMeansApplied
  MismatchIsTemporary
PROPERTIES
  FileIsFollowed
CHECK_DEADLOCK FALSE
