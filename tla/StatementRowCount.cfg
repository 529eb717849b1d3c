SPECIFICATION Spec
CONSTANTS
  Kinds <- KindsTyped
  MaxParams = 1
  MaxCols = 1
  MaxRows = 2
  MaxExec = 2
  MaxGiven = 2
CHECK_DEADLOCK FALSE
INVARIANT RowCountIsCurrent
