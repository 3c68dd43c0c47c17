SPECIFICATION Spec
CONSTANTS
  Worker = {w1, w2}
  Concurrency = 1
  Job = {j1}
  MaxAttempts = 3
  MaxStalls = 1
  Marks <- MCMarks
  Faults <- MCFaults
  LocksCanLapse = FALSE
  NoJob = NoJob
  NoSlot = NoSlot
  w1 = w1
  w2 = w2
  j1 = j1
INVARIANTS TypeOK SettledIsAnnounced FailureIsFinal RunsAreBounded CountersAreExact VerdictsAreCounted
PROPERTIES ProgressRestartsOnly ImplementsLifecycle
