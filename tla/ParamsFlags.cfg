SPECIFICATION Spec
CONSTANTS
  Builds <- MCBuilds
  Half <- MCHalf
  MaxParams = 3
  Doubles <- MCDoubles
  AsFloat <- MCAsFloat
  Texts <- MCTexts
  Errnos <- MCErrnos
  HalfErrno = 2
CHECK_DEADLOCK FALSE
INVARIANT FlagsInBlock
