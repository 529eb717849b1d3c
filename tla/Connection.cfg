SPECIFICATION FairSpec
CONSTANTS
  c1 = c1
  c2 = c2
  s1 = s1
  Conns <- MCConns
  Stmts <- MCStmts
  Codes <- MCCodes
  MaxRequests = 2
CHECK_DEADLOCK FALSE
INVARIANTS
  TypeOK
  InfoReadable
  StmtsClosedFirst
  CleanupExplained
  IInv
PROPERTIES
  RequestsEnd
  TeardownProgress
  RefinesLife
