SPECIFICATION FairSpec
CONSTANTS
  picture = picture
  table = table
  File <- MCFile
  Kind <- MCKind
  MaxJobs = 2
INVARIANTS PageTypeOK ProgressIsOfJobShown JobIsOfFileShown OperationFitsFile
PROPERTIES LateLinksAreNotShown VerdictStays OnlyRefusalStrands
