SPECIFICATION Spec
CONSTANTS
  j1 = j1
  Job <- MCJob
  MaxRuns = 2
  Percent <- MCOnePercent
  Watcher = {w1}
  w1 = w1
  Watches <- MCWatches
  Slots = 1
  Request <- MCRequest
  By <- MCBy
  MaxInFlight = 2
  MaxDrops = 1
INVARIANTS StreamTypeOK VerdictIsTrue
PROPERTY VerdictIsLast
CHECK_DEADLOCK FALSE
