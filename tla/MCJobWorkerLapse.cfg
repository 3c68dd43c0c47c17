SPECIFICATION FairSpec
CONSTANTS
  Worker = {w1}
  Concurrency = 2
  Job = {j1}
  MaxAttempts = 2
  MaxStalls = 1
  Marks <- MCMarks
  Faults <- MCFaults
  LocksCanLapse = TRUE
  NoJob = NoJob
  NoSlot = NoSlot
  w1 = w1
  j1 = j1
INVARIANT WorkerInv
PROPERTY EverySubmissionSettles
