SPECIFICATION Spec
CONSTANTS
  Kind = {"download"}
  Request = {r1, r2}
  r1 = r1
  r2 = r2
  Limit <- MCLimit
  MaxWindow = 1
  MaxExcess = 1
SYMMETRY MCSymmetry
INVARIANTS TypeOK AllowanceIsKept RefusalsAreEarned
