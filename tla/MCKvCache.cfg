SPECIFICATION Spec
CONSTANTS
  a = a
  b = b
  x = x
  y = y
  z = z
  Missing = Missing
  NoValue = NoValue
  Getters <- MCGetters
  Last = 5
  Contents <- MCContents
  Content <- MCContent
INVARIANTS
  ReadIsCurrent
  EntryIsNotOlder
CHECK_DEADLOCK FALSE
