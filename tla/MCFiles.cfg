SPECIFICATION FairSpec
CONSTANTS
  Upload = {u1}
  u1 = u1
  Key <- MCKey
  Staging <- MCStaging
  Temp <- MCTemp
  Output <- MCOutput
  Public <- MCPublic
  Operation = {"image.resize", "csv.transform"}
  Download = {d1}
  d1 = d1
  Retention = 1
  RecordTtl = 1
  LinkTtl = 1
  Signing = TRUE
  MaxRuns = 2
  MaxFaults = 1
INVARIANTS FilesTypeOK RecordHasBytes AnsweredLeavesNoStaging ResultIsWhole ServedIsWhole FileCountersHold
PROPERTIES OnlyGranted WrittenOnce StoredIsSwept JobIsDecided
CHECK_DEADLOCK FALSE
