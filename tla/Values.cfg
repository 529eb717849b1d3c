SPECIFICATION Spec
CONSTANTS
  Builds <- MCBuilds
  Half <- MCHalf
  Stamps <- MCStamps
  Floats <- MCFloats
  Fine = 2
  Lengths <- MCLengths
  MaxVarLen = 3
  HalfLen = 4
  Zones <- MCZones
CHECK_DEADLOCK FALSE
INVARIANTS
  TypeOK
  FetchFaithful
  OverrunExplained
  ZoneAsAsked
  IInv
