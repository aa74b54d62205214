SPECIFICATION Spec
CONSTANTS
  Savers = {p, q}
  Tasks = {t}
  NoTask = NoTask
  Blocks = 2
  MaxFiles = 2
INVARIANTS
  TornOnlyByRival
CHECK_DEADLOCK FALSE
