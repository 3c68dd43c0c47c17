SPECIFICATION Spec
CONSTANTS
  File <- MCFile
  Columns <- MCColumns
  trim <- MCtrim
  MaxLines = 4
  MaxRows = 2
  MaxExamples = 1
INVARIANTS ReportIsExact OutputIsProjection ReportPredictsTransform CleanFileIsKeptWhole
CHECK_DEADLOCK FALSE
