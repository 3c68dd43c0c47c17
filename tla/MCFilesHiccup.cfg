SPECIFICATION Spec
CONSTANTS
  Upload = {u1}
  u1 = u1
  Key <- MCKey
  Staging <- MCStaging
  Temp <- MCTemp
  Output <- MCOutput
  Public <- MCPublic
  Operation <- MCOperation
  Download = {d1}
  d1 = d1
  Retention = 2
  RecordTtl = 1
  LinkTtl = 1
  Signing = FALSE
  MaxRuns = 3
  MaxFaults = 1
INVARIANT PermanentIsHopeless
CHECK_DEADLOCK FALSE
