SPECIFICATION TripSpec
CONSTANTS
  Builds <- MCBuilds
  Half <- MCHalf
  MaxParams = 1
  Doubles <- MCDoubles
  AsFloat <- MCAsFloat
  Texts <- MCTexts
  Errnos <- MCErrnos
  HalfErrno = 2
  Fine = 2
  Lengths <- MCLengths
  MaxVarLen = 1
  HalfLen = 2
  Zones <- MCZones
CHECK_DEADLOCK FALSE
INVARIANTS
  ReadsBack
