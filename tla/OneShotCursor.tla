--------------------------- MODULE OneShotCursor ---------------------------
(***************************************************************************)
(* What a statement of the driver promises about rows, seen from the       *)
(* script: over its whole life it opens at most one result set, hands out  *)
(* the rows of that result set one at a time, and hands out none once it   *)
(* is freed.  A later execution opens nothing.                             *)
(***************************************************************************)
EXTENDS Naturals

CONSTANTS
  MaxExec, \* executions of the statement, at most
  MaxRows  \* rows of a result set, at most

VARIABLES
  opened,    \* 0, or the number of the execution whose result set is open
  size,      \* rows of that result set
  delivered, \* rows handed out
  closed     \* the statement is gone

cursor == <<opened, size, delivered, closed>>

CursorInit == opened = 0 /\ size = 0 /\ delivered = 0 /\ closed = FALSE

Open(e, n) ==
  /\ ~closed /\ opened = 0
  /\ opened' = e /\ size' = n
  /\ UNCHANGED <<delivered, closed>>

Deliver ==
  /\ ~closed /\ opened # 0
  /\ delivered < size
  /\ delivered' = delivered + 1
  /\ UNCHANGED <<opened, size, closed>>

Close ==
  /\ ~closed
  /\ closed' = TRUE /\ opened' = 0
  /\ UNCHANGED <<size, delivered>>

CursorNext ==
  \/ \E e \in 1 .. MaxExec, n \in 0 .. MaxRows : Open(e, n)
  \/ Deliver
  \/ Close

CursorSpec == CursorInit /\ [][CursorNext]_cursor

=============================================================================
