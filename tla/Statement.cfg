SPECIFICATION FairSpec
CONSTANTS
  Kinds <- KindsAll
  MaxParams = 2
  MaxCols = 2
  MaxRows = 2
  MaxExec = 2
  MaxGiven = 4
CHECK_DEADLOCK FALSE
INVARIANTS
  TypeOK
  CrashesExplained
  FreshWhenTyped
  OneResult
  NothingLeftBehind
  DescribedMatches
  FalseIsExplained
  IInv
PROPERTIES
  CallsReturn
  NeverRejectsComplete
  RefinesCursor
  ArgsArrayIsSafe
  MethodsProgress
