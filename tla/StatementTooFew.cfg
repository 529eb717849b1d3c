SPECIFICATION Spec
CONSTANTS
  Kinds <- KindsTyped
  MaxParams = 2
  MaxCols = 1
  MaxRows = 1
  MaxExec = 1
  MaxGiven = 3
CHECK_DEADLOCK FALSE
INVARIANT TooFewRejected
