SPECIFICATION Spec
CONSTANTS
  j1 = j1
  Job <- MCJob
  MaxRuns = 1
  Percent <- MCNoPercent
  Watcher = {w1}
  w1 = w1
  Watches <- MCWatches
  Slots = 1
  Request <- MCRequest
  By <- MCBy
  MaxInFlight = 1
  MaxDrops = 0
INVARIANT CompletedCarriesResult
CHECK_DEADLOCK FALSE
