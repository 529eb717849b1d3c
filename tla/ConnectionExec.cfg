SPECIFICATION Spec
CONSTANTS
  c1 = c1
  c2 = c2
  s1 = s1
  Conns <- MCConns
  Stmts <- MCStmts
  Codes <- MCCodes
  MaxRequests = 1
CHECK_DEADLOCK FALSE
INVARIANT ExecAnswers
