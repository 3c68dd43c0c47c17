SPECIFICATION FairSpec
CONSTANTS
  j1 = j1
  Job <- MCJob
  MaxRuns = 1
  Percent <- MCNoPercent
  Watcher = {w1}
  w1 = w1
  Watches <- MCWatches
  Slots = 2
  Request <- MCRequest
  By <- MCBy
  MaxInFlight = 1
  MaxDrops = 1
INVARIANTS VerdictReachesEarlyWatcher LoneRequestIsSubscribed
PROPERTY SettledJobIsTold
CHECK_DEADLOCK FALSE
