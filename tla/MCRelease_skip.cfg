SPECIFICATION Spec
CONSTANTS
  a = a
  b = b
  x = x
  y = y
  all = all
  some = some
  Absent = Absent
  Torn = Torn
  NoFile = NoFile
  EmptyFile = EmptyFile
  Releases <- MCReleases
  Matches <- MCMatches
  Paths <- MCPaths
  Contents <- MCContents
  Target <- MCTarget
  Converted <- MCConverted
PROPERTY SkipIsSound
