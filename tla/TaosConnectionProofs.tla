---------------------- MODULE TaosConnectionProofs ----------------------
(***************************************************************************)
(* Proofs about TaosConnection, for any number of handles, statements,     *)
(* error codes and requests.                                               *)
(*                                                                         *)
(* IInv (of TaosConnection) is inductive: one lemma for each of its parts, *)
(* with one step for each action.  The safety properties follow from it.   *)
(***************************************************************************)
EXTENDS TaosConnection, FiniteSetTheorems, TLAPS

USE DEF processVars, handleVars, errorVars, stmtVars

-----------------------------------------------------------------------------
(* IInv is inductive. *)

\* The process starts with no handle.
LEMMA InitIInv == Init => IInv
<1> SUFFICES ASSUME Init PROVE IInv
  OBVIOUS
<1> USE RequestsAssumption DEF Init
<1>1. TypeOK
  <2>1. requests \in 0 .. MaxRequests
    OBVIOUS
  <2>2. /\ errcode \in [Conns -> Codes \cup {ZeroCode, ConvertedZero}]
        /\ errmsg \in [Conns -> {"NULL", "request", "released"}]
        /\ error_code \in [Conns -> {"00000", "HY000", "HY093", "IM001"}]
        /\ owner \in [Stmts -> Conns \cup {"none"}]
    OBVIOUS
  <2> QED
    BY <2>1, <2>2 DEF TypeOK
<1>2. HeldInv /\ OwnerInv /\ MessageInv /\ InitedInv
  BY DEF HeldInv, OwnerInv, MessageInv, InitedInv
<1>3. StmtsClosedFirst /\ CleanupExplained
  BY DEF StmtsClosedFirst, CleanupExplained
<1> QED
  BY <1>1, <1>2, <1>3 DEF IInv

\* Every method, request and shutdown keeps every variable in its range.
LEMMA TypeStep == TypeOK /\ [Next]_vars => TypeOK'
<1> SUFFICES ASSUME TypeOK, [Next]_vars PROVE TypeOK'
  OBVIOUS
<1> USE CodesAssumption, ConnsAssumption, RequestsAssumption DEF TypeOK
<1>1. ASSUME NEW c \in Conns, NEW p \in BOOLEAN, Connect(c, p)
      PROVE  TypeOK'
  BY <1>1 DEF Connect, NewHandle, Running
<1>2. ASSUME NEW c \in Conns, ConnectFails(c) PROVE TypeOK'
  BY <1>2 DEF ConnectFails, Running
<1>3. ASSUME NEW c \in Conns, Reuse(c) PROVE TypeOK'
  BY <1>3 DEF Reuse, Running
<1>4. ASSUME NEW c \in Conns, NEW s \in Stmts, Prepare(c, s) PROVE TypeOK'
  BY <1>4 DEF Prepare, Running, SetState
<1>5. ASSUME NEW c \in Conns, PrepareFails(c) PROVE TypeOK'
  BY <1>5 DEF PrepareFails, Running, SetState, pdo_taos_error, Record,
    Corrupts, FreesAs
<1>6. ASSUME NEW s \in Stmts, StmtFails(s) PROVE TypeOK'
  BY <1>6 DEF StmtFails, Running, pdo_taos_error, Record, Corrupts, FreesAs
<1>7. ASSUME NEW c \in Conns, Exec(c) PROVE TypeOK'
  BY <1>7 DEF Exec, Running, SetState
<1>8. ASSUME NEW c \in Conns, ExecFails(c) PROVE TypeOK'
  BY <1>8 DEF ExecFails, Running, pdo_taos_error, Record, Corrupts, FreesAs
<1>9. ASSUME NEW c \in Conns, Inquire(c) PROVE TypeOK'
  BY <1>9 DEF Inquire, Running, SetState
<1>10. ASSUME NEW c \in Conns, Commit(c) PROVE TypeOK'
  BY <1>10 DEF Commit, Running
<1>11. ASSUME NEW c \in Conns, Unsupported(c) PROVE TypeOK'
  BY <1>11 DEF Unsupported, Running, SetState
<1>12. ASSUME RequestEnding PROVE TypeOK'
  BY <1>12 DEF RequestEnding, Running
<1>13. ASSUME NEW c \in Conns, Release(c) PROVE TypeOK'
  BY <1>13 DEF Release, taos_handle_closer, Corrupts, FreesAs, StmtsOf
<1>14. ASSUME NEW c \in Conns, ForcedRelease(c) PROVE TypeOK'
  BY <1>14 DEF ForcedRelease, taos_handle_closer, Corrupts, FreesAs, StmtsOf
<1>15. ASSUME NEW s \in Stmts, StmtFree(s) PROVE TypeOK'
  BY <1>15 DEF StmtFree
<1>16. ASSUME RequestEnd PROVE TypeOK'
  BY <1>16 DEF RequestEnd
<1>17. ASSUME RequestStart PROVE TypeOK'
  BY <1>17 DEF RequestStart
<1>18. ASSUME ModuleShutdown PROVE TypeOK'
  BY <1>18 DEF ModuleShutdown, Cleanup, Corrupts, FreesAs
<1>19. CASE UNCHANGED vars
  BY <1>19 DEF vars
<1> QED
  BY <1>1, <1>2, <1>3, <1>4, <1>5, <1>6, <1>7, <1>8, <1>9, <1>10, <1>11, <1>12,
    <1>13, <1>14, <1>15, <1>16, <1>17, <1>18, <1>19 DEF Next, Script, Teardown

\* Opening puts a handle in use; whatever ends its use closes it or finds it
\* persistent.
LEMMA HeldStep == IInv /\ [Next]_vars => HeldInv'
<1> SUFFICES ASSUME IInv, [Next]_vars PROVE HeldInv'
  OBVIOUS
<1> USE DEF IInv, TypeOK, HeldInv, OwnerInv
<1>1. ASSUME NEW c \in Conns, NEW p \in BOOLEAN, Connect(c, p)
      PROVE  HeldInv'
  BY <1>1 DEF Connect, NewHandle, Running
<1>2. ASSUME NEW c \in Conns, ConnectFails(c) PROVE HeldInv'
  BY <1>2 DEF ConnectFails, Running
<1>3. ASSUME NEW c \in Conns, Reuse(c) PROVE HeldInv'
  BY <1>3 DEF Reuse, Running
<1>4. ASSUME NEW c \in Conns, NEW s \in Stmts, Prepare(c, s) PROVE HeldInv'
  BY <1>4 DEF Prepare, Running, SetState
<1>5. ASSUME NEW c \in Conns, PrepareFails(c) PROVE HeldInv'
  BY <1>5 DEF PrepareFails, Running, SetState, pdo_taos_error, Record,
    Corrupts, FreesAs
<1>6. ASSUME NEW s \in Stmts, StmtFails(s) PROVE HeldInv'
  BY <1>6 DEF StmtFails, Running, pdo_taos_error, Record, Corrupts, FreesAs
<1>7. ASSUME NEW c \in Conns, Exec(c) PROVE HeldInv'
  BY <1>7 DEF Exec, Running, SetState
<1>8. ASSUME NEW c \in Conns, ExecFails(c) PROVE HeldInv'
  BY <1>8 DEF ExecFails, Running, pdo_taos_error, Record, Corrupts, FreesAs
<1>9. ASSUME NEW c \in Conns, Inquire(c) PROVE HeldInv'
  BY <1>9 DEF Inquire, Running, SetState
<1>10. ASSUME NEW c \in Conns, Commit(c) PROVE HeldInv'
  BY <1>10 DEF Commit, Running
<1>11. ASSUME NEW c \in Conns, Unsupported(c) PROVE HeldInv'
  BY <1>11 DEF Unsupported, Running, SetState
<1>12. ASSUME RequestEnding PROVE HeldInv'
  BY <1>12 DEF RequestEnding, Running
<1>13. ASSUME NEW c \in Conns, Release(c) PROVE HeldInv'
  BY <1>13 DEF Release, taos_handle_closer, Corrupts, FreesAs, StmtsOf
<1>14. ASSUME NEW c \in Conns, ForcedRelease(c) PROVE HeldInv'
  BY <1>14 DEF ForcedRelease, taos_handle_closer, Corrupts, FreesAs, StmtsOf
<1>15. ASSUME NEW s \in Stmts, StmtFree(s) PROVE HeldInv'
  BY <1>15 DEF StmtFree
<1>16. ASSUME RequestEnd PROVE HeldInv'
  BY <1>16 DEF RequestEnd
<1>17. ASSUME RequestStart PROVE HeldInv'
  BY <1>17 DEF RequestStart
<1>18. ASSUME ModuleShutdown PROVE HeldInv'
  BY <1>18 DEF ModuleShutdown, Cleanup, Corrupts, FreesAs
<1>19. CASE UNCHANGED vars
  BY <1>19 DEF vars
<1> QED
  BY <1>1, <1>2, <1>3, <1>4, <1>5, <1>6, <1>7, <1>8, <1>9, <1>10, <1>11, <1>12,
    <1>13, <1>14, <1>15, <1>16, <1>17, <1>18, <1>19 DEF Next, Script, Teardown

\* A handle that statements refer to leaves `held' only by force.
LEMMA OwnerStep == IInv /\ [Next]_vars => OwnerInv'
<1> SUFFICES ASSUME IInv, [Next]_vars PROVE OwnerInv'
  OBVIOUS
<1> USE ConnsAssumption DEF IInv, TypeOK, HeldInv, OwnerInv
<1>1. ASSUME NEW c \in Conns, NEW p \in BOOLEAN, Connect(c, p)
      PROVE  OwnerInv'
  BY <1>1 DEF Connect, NewHandle, Running
<1>2. ASSUME NEW c \in Conns, ConnectFails(c) PROVE OwnerInv'
  BY <1>2 DEF ConnectFails, Running
<1>3. ASSUME NEW c \in Conns, Reuse(c) PROVE OwnerInv'
  BY <1>3 DEF Reuse, Running
<1>4. ASSUME NEW c \in Conns, NEW s \in Stmts, Prepare(c, s)
      PROVE  OwnerInv'
  BY <1>4 DEF Prepare, Running, Collecting, SetState
<1>5. ASSUME NEW c \in Conns, PrepareFails(c) PROVE OwnerInv'
  BY <1>5 DEF PrepareFails, Running, SetState, pdo_taos_error, Record,
    Corrupts, FreesAs
<1>6. ASSUME NEW s \in Stmts, StmtFails(s) PROVE OwnerInv'
  BY <1>6 DEF StmtFails, Running, pdo_taos_error, Record, Corrupts, FreesAs
<1>7. ASSUME NEW c \in Conns, Exec(c) PROVE OwnerInv'
  BY <1>7 DEF Exec, Running, SetState
<1>8. ASSUME NEW c \in Conns, ExecFails(c) PROVE OwnerInv'
  BY <1>8 DEF ExecFails, Running, pdo_taos_error, Record, Corrupts, FreesAs
<1>9. ASSUME NEW c \in Conns, Inquire(c) PROVE OwnerInv'
  BY <1>9 DEF Inquire, Running, SetState
<1>10. ASSUME NEW c \in Conns, Commit(c) PROVE OwnerInv'
  BY <1>10 DEF Commit, Running
<1>11. ASSUME NEW c \in Conns, Unsupported(c) PROVE OwnerInv'
  BY <1>11 DEF Unsupported, Running, SetState
<1>12. ASSUME RequestEnding PROVE OwnerInv'
  BY <1>12 DEF RequestEnding, Running
<1>13. ASSUME NEW c \in Conns, Release(c) PROVE OwnerInv'
  BY <1>13 DEF Release, taos_handle_closer, Corrupts, FreesAs, StmtsOf
<1>14. ASSUME NEW c \in Conns, ForcedRelease(c) PROVE OwnerInv'
  BY <1>14 DEF ForcedRelease, taos_handle_closer, Corrupts, FreesAs, StmtsOf
<1>15. ASSUME NEW s \in Stmts, StmtFree(s) PROVE OwnerInv'
  BY <1>15 DEF StmtFree
<1>16. ASSUME RequestEnd PROVE OwnerInv'
  BY <1>16 DEF RequestEnd
<1>17. ASSUME RequestStart PROVE OwnerInv'
  BY <1>17 DEF RequestStart
<1>18. ASSUME ModuleShutdown PROVE OwnerInv'
  BY <1>18 DEF ModuleShutdown, Cleanup, Corrupts, FreesAs
<1>19. CASE UNCHANGED vars
  BY <1>19 DEF vars
<1> QED
  BY <1>1, <1>2, <1>3, <1>4, <1>5, <1>6, <1>7, <1>8, <1>9, <1>10, <1>11, <1>12,
    <1>13, <1>14, <1>15, <1>16, <1>17, <1>18, <1>19 DEF Next, Script, Teardown

\* Each error stores its message with its code, and a request's end finds only
\* persistent handles connected.
LEMMA MessageStep == IInv /\ [Next]_vars => MessageInv'
<1> SUFFICES ASSUME IInv, [Next]_vars PROVE MessageInv'
  OBVIOUS
<1> USE CodesAssumption DEF IInv, TypeOK, HeldInv, OwnerInv, MessageInv
<1>1. ASSUME NEW c \in Conns, NEW p \in BOOLEAN, Connect(c, p)
      PROVE  MessageInv'
  BY <1>1 DEF Connect, NewHandle, Running
<1>2. ASSUME NEW c \in Conns, ConnectFails(c) PROVE MessageInv'
  BY <1>2 DEF ConnectFails, Running
<1>3. ASSUME NEW c \in Conns, Reuse(c) PROVE MessageInv'
  BY <1>3 DEF Reuse, Running
<1>4. ASSUME NEW c \in Conns, NEW s \in Stmts, Prepare(c, s)
      PROVE  MessageInv'
  BY <1>4 DEF Prepare, Running, SetState
<1>5. ASSUME NEW c \in Conns, PrepareFails(c) PROVE MessageInv'
  BY <1>5 DEF PrepareFails, Running, SetState, pdo_taos_error, Record,
    Corrupts, FreesAs
<1>6. ASSUME NEW s \in Stmts, StmtFails(s) PROVE MessageInv'
  BY <1>6 DEF StmtFails, Running, pdo_taos_error, Record, Corrupts, FreesAs
<1>7. ASSUME NEW c \in Conns, Exec(c) PROVE MessageInv'
  BY <1>7 DEF Exec, Running, SetState
<1>8. ASSUME NEW c \in Conns, ExecFails(c) PROVE MessageInv'
  BY <1>8 DEF ExecFails, Running, pdo_taos_error, Record, Corrupts, FreesAs
<1>9. ASSUME NEW c \in Conns, Inquire(c) PROVE MessageInv'
  BY <1>9 DEF Inquire, Running, SetState
<1>10. ASSUME NEW c \in Conns, Commit(c) PROVE MessageInv'
  BY <1>10 DEF Commit, Running
<1>11. ASSUME NEW c \in Conns, Unsupported(c) PROVE MessageInv'
  BY <1>11 DEF Unsupported, Running, SetState
<1>12. ASSUME RequestEnding PROVE MessageInv'
  BY <1>12 DEF RequestEnding, Running
<1>13. ASSUME NEW c \in Conns, Release(c) PROVE MessageInv'
  BY <1>13 DEF Release, taos_handle_closer, Corrupts, FreesAs, StmtsOf
<1>14. ASSUME NEW c \in Conns, ForcedRelease(c) PROVE MessageInv'
  BY <1>14 DEF ForcedRelease, taos_handle_closer, Corrupts, FreesAs, StmtsOf
<1>15. ASSUME NEW s \in Stmts, StmtFree(s) PROVE MessageInv'
  BY <1>15 DEF StmtFree
<1>16. ASSUME RequestEnd PROVE MessageInv'
  BY <1>16 DEF RequestEnd
<1>17. ASSUME RequestStart PROVE MessageInv'
  BY <1>17 DEF RequestStart
<1>18. ASSUME ModuleShutdown PROVE MessageInv'
  BY <1>18 DEF ModuleShutdown, Cleanup, Corrupts, FreesAs
<1>19. CASE UNCHANGED vars
  BY <1>19 DEF vars
<1> QED
  BY <1>1, <1>2, <1>3, <1>4, <1>5, <1>6, <1>7, <1>8, <1>9, <1>10, <1>11, <1>12,
    <1>13, <1>14, <1>15, <1>16, <1>17, <1>18, <1>19 DEF Next, Script, Teardown

\* Only module shutdown clears the driver's flag.
LEMMA InitedStep == IInv /\ [Next]_vars => InitedInv'
<1> SUFFICES ASSUME IInv, [Next]_vars PROVE InitedInv'
  OBVIOUS
<1> USE DEF IInv, TypeOK, HeldInv, InitedInv
<1>1. ASSUME NEW c \in Conns, NEW p \in BOOLEAN, Connect(c, p)
      PROVE  InitedInv'
  BY <1>1 DEF Connect, NewHandle, Running
<1>2. ASSUME NEW c \in Conns, ConnectFails(c) PROVE InitedInv'
  BY <1>2 DEF ConnectFails, Running
<1>3. ASSUME NEW c \in Conns, Reuse(c) PROVE InitedInv'
  BY <1>3 DEF Reuse, Running
<1>4. ASSUME NEW c \in Conns, NEW s \in Stmts, Prepare(c, s)
      PROVE  InitedInv'
  BY <1>4 DEF Prepare, Running, SetState
<1>5. ASSUME NEW c \in Conns, PrepareFails(c) PROVE InitedInv'
  BY <1>5 DEF PrepareFails, Running, SetState, pdo_taos_error, Record,
    Corrupts, FreesAs
<1>6. ASSUME NEW s \in Stmts, StmtFails(s) PROVE InitedInv'
  BY <1>6 DEF StmtFails, Running, pdo_taos_error, Record, Corrupts, FreesAs
<1>7. ASSUME NEW c \in Conns, Exec(c) PROVE InitedInv'
  BY <1>7 DEF Exec, Running, SetState
<1>8. ASSUME NEW c \in Conns, ExecFails(c) PROVE InitedInv'
  BY <1>8 DEF ExecFails, Running, pdo_taos_error, Record, Corrupts, FreesAs
<1>9. ASSUME NEW c \in Conns, Inquire(c) PROVE InitedInv'
  BY <1>9 DEF Inquire, Running, SetState
<1>10. ASSUME NEW c \in Conns, Commit(c) PROVE InitedInv'
  BY <1>10 DEF Commit, Running
<1>11. ASSUME NEW c \in Conns, Unsupported(c) PROVE InitedInv'
  BY <1>11 DEF Unsupported, Running, SetState
<1>12. ASSUME RequestEnding PROVE InitedInv'
  BY <1>12 DEF RequestEnding, Running
<1>13. ASSUME NEW c \in Conns, Release(c) PROVE InitedInv'
  BY <1>13 DEF Release, taos_handle_closer, Corrupts, FreesAs, StmtsOf
<1>14. ASSUME NEW c \in Conns, ForcedRelease(c) PROVE InitedInv'
  BY <1>14 DEF ForcedRelease, taos_handle_closer, Corrupts, FreesAs, StmtsOf
<1>15. ASSUME NEW s \in Stmts, StmtFree(s) PROVE InitedInv'
  BY <1>15 DEF StmtFree
<1>16. ASSUME RequestEnd PROVE InitedInv'
  BY <1>16 DEF RequestEnd
<1>17. ASSUME RequestStart PROVE InitedInv'
  BY <1>17 DEF RequestStart
<1>18. ASSUME ModuleShutdown PROVE InitedInv'
  BY <1>18 DEF ModuleShutdown, Cleanup, Corrupts, FreesAs
<1>19. CASE UNCHANGED vars
  BY <1>19 DEF vars
<1> QED
  BY <1>1, <1>2, <1>3, <1>4, <1>5, <1>6, <1>7, <1>8, <1>9, <1>10, <1>11, <1>12,
    <1>13, <1>14, <1>15, <1>16, <1>17, <1>18, <1>19 DEF Next, Script, Teardown

\* A statement closed without force finds its handle connected.
LEMMA StmtsStep == IInv /\ [Next]_vars => StmtsClosedFirst'
<1> SUFFICES ASSUME IInv, [Next]_vars PROVE StmtsClosedFirst'
  OBVIOUS
<1> USE ConnsAssumption DEF IInv, TypeOK, HeldInv, OwnerInv, StmtsClosedFirst
<1>1. ASSUME NEW c \in Conns, NEW p \in BOOLEAN, Connect(c, p)
      PROVE  StmtsClosedFirst'
  BY <1>1 DEF Connect, NewHandle, Running
<1>2. ASSUME NEW c \in Conns, ConnectFails(c) PROVE StmtsClosedFirst'
  BY <1>2 DEF ConnectFails, Running
<1>3. ASSUME NEW c \in Conns, Reuse(c) PROVE StmtsClosedFirst'
  BY <1>3 DEF Reuse, Running
<1>4. ASSUME NEW c \in Conns, NEW s \in Stmts, Prepare(c, s)
      PROVE  StmtsClosedFirst'
  BY <1>4 DEF Prepare, Running, SetState
<1>5. ASSUME NEW c \in Conns, PrepareFails(c) PROVE StmtsClosedFirst'
  BY <1>5 DEF PrepareFails, Running, SetState, pdo_taos_error, Record,
    Corrupts, FreesAs
<1>6. ASSUME NEW s \in Stmts, StmtFails(s) PROVE StmtsClosedFirst'
  BY <1>6 DEF StmtFails, Running, pdo_taos_error, Record, Corrupts, FreesAs
<1>7. ASSUME NEW c \in Conns, Exec(c) PROVE StmtsClosedFirst'
  BY <1>7 DEF Exec, Running, SetState
<1>8. ASSUME NEW c \in Conns, ExecFails(c) PROVE StmtsClosedFirst'
  BY <1>8 DEF ExecFails, Running, pdo_taos_error, Record, Corrupts, FreesAs
<1>9. ASSUME NEW c \in Conns, Inquire(c) PROVE StmtsClosedFirst'
  BY <1>9 DEF Inquire, Running, SetState
<1>10. ASSUME NEW c \in Conns, Commit(c) PROVE StmtsClosedFirst'
  BY <1>10 DEF Commit, Running
<1>11. ASSUME NEW c \in Conns, Unsupported(c) PROVE StmtsClosedFirst'
  BY <1>11 DEF Unsupported, Running, SetState
<1>12. ASSUME RequestEnding PROVE StmtsClosedFirst'
  BY <1>12 DEF RequestEnding, Running
<1>13. ASSUME NEW c \in Conns, Release(c) PROVE StmtsClosedFirst'
  BY <1>13 DEF Release, taos_handle_closer, Corrupts, FreesAs, StmtsOf
<1>14. ASSUME NEW c \in Conns, ForcedRelease(c) PROVE StmtsClosedFirst'
  BY <1>14 DEF ForcedRelease, taos_handle_closer, Corrupts, FreesAs, StmtsOf
<1>15. ASSUME NEW s \in Stmts, StmtFree(s) PROVE StmtsClosedFirst'
  BY <1>15 DEF StmtFree
<1>16. ASSUME RequestEnd PROVE StmtsClosedFirst'
  BY <1>16 DEF RequestEnd
<1>17. ASSUME RequestStart PROVE StmtsClosedFirst'
  BY <1>17 DEF RequestStart
<1>18. ASSUME ModuleShutdown PROVE StmtsClosedFirst'
  BY <1>18 DEF ModuleShutdown, Cleanup, Corrupts, FreesAs
<1>19. CASE UNCHANGED vars
  BY <1>19 DEF vars
<1> QED
  BY <1>1, <1>2, <1>3, <1>4, <1>5, <1>6, <1>7, <1>8, <1>9, <1>10, <1>11, <1>12,
    <1>13, <1>14, <1>15, <1>16, <1>17, <1>18, <1>19 DEF Next, Script, Teardown

\* Shutdown cleans up whenever the flag is set, which a connection did.
LEMMA CleanupStep == IInv /\ [Next]_vars => CleanupExplained'
<1> SUFFICES ASSUME IInv, [Next]_vars PROVE CleanupExplained'
  OBVIOUS
<1> USE DEF IInv, TypeOK, InitedInv, CleanupExplained
<1>1. ASSUME NEW c \in Conns, NEW p \in BOOLEAN, Connect(c, p)
      PROVE  CleanupExplained'
  BY <1>1 DEF Connect, NewHandle, Running
<1>2. ASSUME NEW c \in Conns, ConnectFails(c) PROVE CleanupExplained'
  BY <1>2 DEF ConnectFails, Running
<1>3. ASSUME NEW c \in Conns, Reuse(c) PROVE CleanupExplained'
  BY <1>3 DEF Reuse, Running
<1>4. ASSUME NEW c \in Conns, NEW s \in Stmts, Prepare(c, s)
      PROVE  CleanupExplained'
  BY <1>4 DEF Prepare, Running, SetState
<1>5. ASSUME NEW c \in Conns, PrepareFails(c) PROVE CleanupExplained'
  BY <1>5 DEF PrepareFails, Running, SetState, pdo_taos_error, Record,
    Corrupts, FreesAs
<1>6. ASSUME NEW s \in Stmts, StmtFails(s) PROVE CleanupExplained'
  BY <1>6 DEF StmtFails, Running, pdo_taos_error, Record, Corrupts, FreesAs
<1>7. ASSUME NEW c \in Conns, Exec(c) PROVE CleanupExplained'
  BY <1>7 DEF Exec, Running, SetState
<1>8. ASSUME NEW c \in Conns, ExecFails(c) PROVE CleanupExplained'
  BY <1>8 DEF ExecFails, Running, pdo_taos_error, Record, Corrupts, FreesAs
<1>9. ASSUME NEW c \in Conns, Inquire(c) PROVE CleanupExplained'
  BY <1>9 DEF Inquire, Running, SetState
<1>10. ASSUME NEW c \in Conns, Commit(c) PROVE CleanupExplained'
  BY <1>10 DEF Commit, Running
<1>11. ASSUME NEW c \in Conns, Unsupported(c) PROVE CleanupExplained'
  BY <1>11 DEF Unsupported, Running, SetState
<1>12. ASSUME RequestEnding PROVE CleanupExplained'
  BY <1>12 DEF RequestEnding, Running
<1>13. ASSUME NEW c \in Conns, Release(c) PROVE CleanupExplained'
  BY <1>13 DEF Release, taos_handle_closer, Corrupts, FreesAs, StmtsOf
<1>14. ASSUME NEW c \in Conns, ForcedRelease(c) PROVE CleanupExplained'
  BY <1>14 DEF ForcedRelease, taos_handle_closer, Corrupts, FreesAs, StmtsOf
<1>15. ASSUME NEW s \in Stmts, StmtFree(s) PROVE CleanupExplained'
  BY <1>15 DEF StmtFree
<1>16. ASSUME RequestEnd PROVE CleanupExplained'
  BY <1>16 DEF RequestEnd
<1>17. ASSUME RequestStart PROVE CleanupExplained'
  BY <1>17 DEF RequestStart
<1>18. ASSUME ModuleShutdown PROVE CleanupExplained'
  BY <1>18 DEF ModuleShutdown, Cleanup, Corrupts, FreesAs
<1>19. CASE UNCHANGED vars
  BY <1>19 DEF vars
<1> QED
  BY <1>1, <1>2, <1>3, <1>4, <1>5, <1>6, <1>7, <1>8, <1>9, <1>10, <1>11, <1>12,
    <1>13, <1>14, <1>15, <1>16, <1>17, <1>18, <1>19 DEF Next, Script, Teardown

\* IInv holds in every reachable state.
THEOREM Invariance == Spec => []IInv
<1>1. IInv /\ [Next]_vars => IInv'
  <2> SUFFICES ASSUME IInv, [Next]_vars PROVE IInv'
    OBVIOUS
  <2>1. TypeOK'
    BY TypeStep DEF IInv
  <2> QED
    BY <2>1, HeldStep, OwnerStep, MessageStep, InitedStep, StmtsStep, CleanupStep DEF IInv
<1> QED
  BY InitIInv, <1>1, PTL DEF Spec

-----------------------------------------------------------------------------
(* What follows from IInv. *)

\* Every variable keeps its type, for any number of handles and statements.
THEOREM TypeCorrect == Spec => []TypeOK
<1>1. IInv => TypeOK
  BY DEF IInv
<1> QED
  BY Invariance, <1>1, PTL

\* PDO::errorInfo reads a message that is there, on every handle of one request.
THEOREM MessagesAreReadable == Spec => []InfoReadable
<1>1. IInv => InfoReadable
  BY DEF IInv, HeldInv, MessageInv, InfoReadable, ErrorInfo
<1> QED
  BY Invariance, <1>1, PTL

\* Statements are closed before their connection unless a cycle is broken.
THEOREM ClosingOrder == Spec => []StmtsClosedFirst
<1>1. IInv => StmtsClosedFirst
  BY DEF IInv
<1> QED
  BY Invariance, <1>1, PTL

\* Only persistent connections outlive a request, and none the module.
THEOREM NothingStaysOpen == Spec => []NoConnectionLeft
<1>1. IInv => NoConnectionLeft
  BY DEF IInv, HeldInv, NoConnectionLeft
<1> QED
  BY Invariance, <1>1, PTL

\* The library stays initialised after shutdown only if no connection succeeded.
THEOREM CleanupHasACause == Spec => []CleanupExplained
<1>1. IInv => CleanupExplained
  BY DEF IInv
<1> QED
  BY Invariance, <1>1, PTL

-----------------------------------------------------------------------------
(* Teardown. *)

\* Statements not yet freed.
Owning == {s \in Stmts : owner[s] # "none"}

\* A message of a handle of one request goes back to the request's allocator.
LEMMA CloserSucceeds ==
  ASSUME TypeOK, NEW c \in Conns, c \notin persistent, taos_handle_closer({c})
  PROVE  phase' = phase
BY DEF taos_handle_closer, Corrupts, FreesAs

\* What remains to be freed is counted by natural numbers.
LEMMA UndoneType ==
  ASSUME TypeOK
  PROVE  /\ IsFiniteSet(held) /\ Cardinality(held) \in Nat
         /\ IsFiniteSet(Owning) /\ Cardinality(Owning) \in Nat
         /\ Undone \in Nat
<1>1. held \in SUBSET Conns /\ Owning \in SUBSET Stmts
  BY DEF TypeOK, Owning
<1>2. IsFiniteSet(held) /\ IsFiniteSet(Owning)
  BY <1>1, FiniteAssumption, FS_Subset
<1>3. Cardinality(held) \in Nat /\ Cardinality(Owning) \in Nat
  BY <1>2, FS_CardinalityType
<1>4. Undone = Cardinality(held) + Cardinality(Owning) + (IF request = "ending" THEN 1 ELSE 0)
  BY DEF Undone, Owning
<1> QED
  BY <1>2, <1>3, <1>4

\* Each object that is freed is one less, and so is the request at its end.
LEMMA TeardownStep ==
  ASSUME TypeOK, Teardown
  PROVE  phase' = "up" /\ Undone' \in 0 .. Undone - 1
<1> DEFINE ending == IF request = "ending" THEN 1 ELSE 0
<1>a. /\ IsFiniteSet(held) /\ Cardinality(held) \in Nat
      /\ IsFiniteSet(Owning) /\ Cardinality(Owning) \in Nat
      /\ Undone \in Nat
  BY UndoneType
<1>b. Undone = Cardinality(held) + Cardinality(Owning) + ending
  BY DEF Undone, Owning
<1>c. Undone' = Cardinality(held') + Cardinality(Owning') + ending'
  BY DEF Undone, Owning
<1>1. ASSUME NEW c \in Conns, Release(c) \/ ForcedRelease(c)
      PROVE  phase' = "up" /\ Undone' \in 0 .. Undone - 1
  <2>1. phase' = "up"
    BY <1>1, CloserSucceeds DEF Release, ForcedRelease
  <2>2. /\ c \in held /\ held' = held \ {c}
        /\ owner' = owner /\ request' = request
    BY <1>1 DEF Release, ForcedRelease
  <2>3. Cardinality(held') = Cardinality(held) - 1
    BY <1>a, <2>2, FS_RemoveElement
  <2>4. Cardinality(held') \in Nat
    BY <1>a, <2>2, FS_RemoveElement, FS_CardinalityType
  <2>5. Owning' = Owning /\ ending' = ending
    BY <2>2 DEF Owning
  <2> QED
    BY <1>a, <1>b, <1>c, <2>1, <2>3, <2>4, <2>5
<1>2. ASSUME NEW s \in Stmts, StmtFree(s)
      PROVE  phase' = "up" /\ Undone' \in 0 .. Undone - 1
  <2>1. /\ phase' = "up" /\ held' = held /\ request' = request
        /\ owner[s] # "none" /\ owner' = [owner EXCEPT ![s] = "none"]
    BY <1>2 DEF StmtFree
  <2>2. s \in Owning /\ Owning' = Owning \ {s}
    BY <2>1 DEF Owning, TypeOK
  <2>3. Cardinality(Owning') = Cardinality(Owning) - 1
    BY <1>a, <2>2, FS_RemoveElement
  <2>4. Cardinality(Owning') \in Nat
    BY <1>a, <2>2, FS_RemoveElement, FS_CardinalityType
  <2>5. ending' = ending
    BY <2>1
  <2> QED
    BY <1>a, <1>b, <1>c, <2>1, <2>3, <2>4, <2>5
<1>3. CASE RequestEnd
  <2>1. /\ phase' = "up" /\ held' = held /\ owner' = owner
        /\ request = "ending" /\ request' = "none"
    BY <1>3 DEF RequestEnd
  <2>2. Owning' = Owning
    BY <2>1 DEF Owning
  <2> QED
    BY <1>a, <1>b, <1>c, <2>1, <2>2
<1> QED
  BY <1>1, <1>2, <1>3 DEF Teardown

\* Teardown neither kills the process nor goes on for ever, for any number of
\* handles, statements and recorded errors.
THEOREM TeardownAdvances == Spec => TeardownProgress
<1>1. IInv /\ [Next]_vars => [Teardown => phase' = "up" /\ Undone' \in 0 .. Undone - 1]_vars
  BY TeardownStep DEF IInv
<1> QED
  BY <1>1, Invariance, PTL DEF Spec, TeardownProgress

-----------------------------------------------------------------------------
(* The connections implement HandleLife. *)

\* HandleLife's view of the errors.
Last == [c \in Conns |-> IF c \in server THEN errcode[c] ELSE ZeroCode]

\* What leaves connections, codes, library and phase alone is a stutter.
LEMMA Stutter ==
  ASSUME UNCHANGED <<server, errcode, library, connected>>,
         (phase = "down") = (phase' = "down")
  PROVE  UNCHANGED Life!life
BY DEF Life!life

\* An error recorded on a connected handle is HandleLife's Fail, or the process
\* dies of the message before it and nothing is recorded.
LEMMA ErrorRefines ==
  ASSUME IInv, phase = "up", NEW c \in server, NEW msg \in BOOLEAN,
         NEW code \in Codes \cup {ZeroCode, ConvertedZero},
         pdo_taos_error(c, code, msg),
         UNCHANGED <<server, library, connected>>
  PROVE  [Life!LifeNext]_(Life!life)
<1>1. c \in Conns
  BY DEF IInv, TypeOK
<1>2. CASE Corrupts(c)
  <2>1. phase' = "crash_free" /\ UNCHANGED errcode
    BY <1>2 DEF pdo_taos_error
  <2> QED
    BY <2>1, Stutter
<1>3. CASE ~Corrupts(c)
  <2>1. errcode' = [errcode EXCEPT ![c] = code] /\ phase' = phase
    BY <1>3 DEF pdo_taos_error, Record
  <2>2. Last' = [Last EXCEPT ![c] = code]
    BY <1>1, <2>1 DEF Last, IInv, TypeOK
  <2>3. Life!Fail(c, code)
    BY <2>1, <2>2 DEF Last, Life!Fail
  <2> QED
    BY <1>1, <2>3 DEF Life!LifeNext
<1> QED
  BY <1>2, <1>3

\* Closing one connected handle is HandleLife's Close.
LEMMA CloseRefines ==
  ASSUME IInv, phase = "up", NEW c \in server,
         taos_handle_closer({c}),
         UNCHANGED <<errcode, library, connected>>
  PROVE  [Life!LifeNext]_(Life!life)
<1>1. c \in Conns
  BY DEF IInv, TypeOK
<1>2. CASE Corrupts(c)
  <2>1. phase' = "crash_free" /\ UNCHANGED server
    BY <1>2 DEF taos_handle_closer
  <2> QED
    BY <2>1, Stutter
<1>3. CASE ~Corrupts(c)
  <2>1. server' = server \ {c} /\ phase' = phase
    BY <1>3 DEF taos_handle_closer
  <2>2. Last' = [Last EXCEPT ![c] = ZeroCode]
    BY <1>1, <2>1 DEF Last, IInv, TypeOK
  <2>3. Life!Close(c)
    BY <2>1, <2>2 DEF Last, Life!Close
  <2> QED
    BY <1>1, <2>3 DEF Life!LifeNext
<1> QED
  BY <1>2, <1>3

\* Each step of the process is one of HandleLife's or a stutter.
LEMMA LifeStep == IInv /\ [Next]_vars => [Life!LifeNext]_(Life!life)
<1> SUFFICES ASSUME IInv, [Next]_vars PROVE [Life!LifeNext]_(Life!life)
  OBVIOUS
<1>a. TypeOK /\ HeldInv /\ OwnerInv /\ InitedInv
  BY DEF IInv
<1>1. ASSUME NEW c \in Conns, NEW p \in BOOLEAN, Connect(c, p)
      PROVE  [Life!LifeNext]_(Life!life)
  <2>1. /\ c \notin server /\ server' = server \cup {c} /\ phase = "up" /\ phase' = phase
        /\ errcode' = [errcode EXCEPT ![c] = ZeroCode] /\ library' = TRUE /\ connected' = TRUE
    BY <1>1 DEF Connect, NewHandle, Running
  <2>2. Last' = Last
    BY <1>a, <2>1 DEF Last, TypeOK
  <2>3. Life!Open(c)
    BY <2>1, <2>2 DEF Last, Life!Open
  <2> QED
    BY <2>3 DEF Life!LifeNext
<1>2. ASSUME NEW c \in Conns, ConnectFails(c) PROVE [Life!LifeNext]_(Life!life)
  <2>1. Life!OpenFails
    BY <1>2 DEF ConnectFails, Running, Life!OpenFails
  <2> QED
    BY <2>1 DEF Life!LifeNext
<1>3. ASSUME NEW c \in Conns, Reuse(c) PROVE [Life!LifeNext]_(Life!life)
  BY <1>3, Stutter DEF Reuse, Running
<1>4. ASSUME NEW c \in Conns, NEW s \in Stmts, Prepare(c, s)
      PROVE  [Life!LifeNext]_(Life!life)
  BY <1>4, Stutter DEF Prepare, Running, SetState
<1>5. ASSUME NEW c \in Conns, PrepareFails(c) PROVE [Life!LifeNext]_(Life!life)
  <2>1. phase = "up" /\ c \in server /\ UNCHANGED <<server, library, connected>>
    BY <1>a, <1>5 DEF PrepareFails, Running, HeldInv
  <2>2. CASE SetState(c, "HY093") /\ UNCHANGED phase
    BY <2>1, <2>2, Stutter DEF SetState
  <2>3. CASE pdo_taos_error(c, ZeroCode, FALSE)
    BY <2>1, <2>3, ErrorRefines
  <2>4. ASSUME NEW code \in Codes \cup {ConvertedZero}, pdo_taos_error(c, code, TRUE)
        PROVE  [Life!LifeNext]_(Life!life)
    BY <2>1, <2>4, ErrorRefines
  <2> QED
    BY <1>5, <2>2, <2>3, <2>4 DEF PrepareFails
<1>6. ASSUME NEW s \in Stmts, StmtFails(s) PROVE [Life!LifeNext]_(Life!life)
  <2>1. phase = "up" /\ owner[s] \in server /\ UNCHANGED <<server, library, connected>>
    BY <1>a, <1>6 DEF StmtFails, Running, Collecting, HeldInv
  <2>2. PICK code \in Codes : pdo_taos_error(owner[s], code, TRUE)
    BY <1>6 DEF StmtFails
  <2> QED
    BY <2>1, <2>2, ErrorRefines
<1>7. ASSUME NEW c \in Conns, Exec(c) PROVE [Life!LifeNext]_(Life!life)
  BY <1>7, Stutter DEF Exec, Running, SetState
<1>8. ASSUME NEW c \in Conns, ExecFails(c) PROVE [Life!LifeNext]_(Life!life)
  <2>1. phase = "up" /\ c \in server /\ UNCHANGED <<server, library, connected>>
    BY <1>a, <1>8 DEF ExecFails, Running, HeldInv
  <2>2. PICK code \in Codes \cup {ConvertedZero} : pdo_taos_error(c, code, TRUE)
    BY <1>8 DEF ExecFails
  <2> QED
    BY <2>1, <2>2, ErrorRefines
<1>9. ASSUME NEW c \in Conns, Inquire(c) \/ Commit(c) \/ Unsupported(c)
      PROVE  [Life!LifeNext]_(Life!life)
  BY <1>9, Stutter DEF Inquire, Commit, Unsupported, Running, SetState
<1>10. ASSUME RequestEnding \/ RequestEnd \/ RequestStart
       PROVE  [Life!LifeNext]_(Life!life)
  BY <1>10, Stutter DEF RequestEnding, RequestEnd, RequestStart, Running
<1>11. ASSUME NEW c \in Conns, Release(c) \/ ForcedRelease(c)
       PROVE  [Life!LifeNext]_(Life!life)
  <2>1. phase = "up" /\ c \in server /\ UNCHANGED <<errcode, library, connected>>
    BY <1>a, <1>11 DEF Release, ForcedRelease, HeldInv
  <2>2. CASE c \in persistent
    BY <1>11, <2>1, <2>2, Stutter DEF Release, ForcedRelease
  <2>3. CASE c \notin persistent
    BY <1>11, <2>1, <2>3, CloseRefines DEF Release, ForcedRelease
  <2> QED
    BY <2>2, <2>3
<1>12. ASSUME NEW s \in Stmts, StmtFree(s) PROVE [Life!LifeNext]_(Life!life)
  BY <1>12, Stutter DEF StmtFree
<1>13. CASE ModuleShutdown
  <2>1. CASE \E c \in server : Corrupts(c)
    BY <1>13, <2>1, Stutter DEF ModuleShutdown
  <2>2. CASE ~\E c \in server : Corrupts(c)
    <3>1. /\ phase = "up" /\ phase' = "down" /\ server' = {} /\ UNCHANGED <<errcode, connected>>
          /\ library' = (library /\ ~taos_inited)
      BY <1>13, <2>2 DEF ModuleShutdown, Cleanup
    <3>2. Last' = [c \in Conns |-> ZeroCode]
      BY <3>1 DEF Last
    <3>3. connected => library' = FALSE
      BY <1>a, <3>1 DEF InitedInv
    <3>4. library' \in BOOLEAN
      BY <3>1
    <3>5. Life!Stop
      BY <3>1, <3>2, <3>3, <3>4 DEF Last, Life!Stop
    <3> QED
      BY <3>5 DEF Life!LifeNext
  <2> QED
    BY <2>1, <2>2
<1>14. CASE UNCHANGED vars
  BY <1>14, Stutter DEF vars
<1> QED
  BY <1>1, <1>2, <1>3, <1>4, <1>5, <1>6, <1>7, <1>8, <1>9, <1>10, <1>11, <1>12,
     <1>13, <1>14 DEF Next, Script, Teardown

\* The connections of a process keep HandleLife's promises: a statement reports
\* only to an open connection, codes live and die with their handle, and the
\* library is stopped last.
THEOREM Refinement == Spec => RefinesLife
<1>1. Init => Life!LifeInit
  BY DEF Init, Life!LifeInit
<1> QED
  BY <1>1, LifeStep, Invariance, PTL DEF Spec, RefinesLife, Life!LifeSpec
=============================================================================
