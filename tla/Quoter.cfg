SPECIFICATION FairSpec
CONSTANTS
  Builds <- MCBuilds
  Texts <- MCTexts
  HalfCount = 4
CHECK_DEADLOCK FALSE
INVARIANTS
  TypeOK
  QuotedFits
  QuotedRight
  IInv
PROPERTY
  QuoteReturns
  QuoterProgress
