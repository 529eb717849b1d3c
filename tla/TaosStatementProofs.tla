----------------------- MODULE TaosStatementProofs -----------------------
(***************************************************************************)
(* Proofs about TaosStatement, for any number of parameters, columns,      *)
(* rows, executions and registrations.                                     *)
(*                                                                         *)
(* IInv (of TaosStatement) is inductive: one lemma for each of its parts,  *)
(* with one step for each action.  Safety follows from it, and the action  *)
(* property and the refinement from it and one more look at the steps.     *)
(***************************************************************************)
EXTENDS TaosStatement, FiniteSetTheorems, TLAPS

USE DEF handleVars, paramVars, callVars, resultVars, coreVars, cursorVars, execVars

-----------------------------------------------------------------------------
(* Counting registrations. *)

\* Sets of parameter numbers are finite, and one more number makes a set larger
\* by at most one.
LEMMA OneMore ==
  ASSUME NEW R \in SUBSET Params, NEW S \in SUBSET Params, NEW i,
         S \subseteq R \cup {i}
  PROVE  /\ Cardinality(R) \in Nat
         /\ Cardinality(S) \in Nat
         /\ Cardinality(S) <= Cardinality(R) + 1
<1>1. IsFiniteSet(Params)
  BY BoundsAssumption, FS_Interval DEF Params
<1>2. IsFiniteSet(R) /\ IsFiniteSet(S)
  BY <1>1, FS_Subset
<1>3. Cardinality(R) \in Nat /\ Cardinality(S) \in Nat
  BY <1>2, FS_CardinalityType
<1>4. /\ IsFiniteSet(R \cup {i})
      /\ Cardinality(R \cup {i}) <= Cardinality(R) + 1
  BY <1>2, <1>3, FS_AddElement
<1>5. Cardinality(R \cup {i}) \in Nat
  BY <1>4, FS_CardinalityType
<1>6. Cardinality(S) <= Cardinality(R \cup {i})
  BY <1>4, FS_Subset
<1> QED
  BY <1>3, <1>4, <1>5, <1>6

-----------------------------------------------------------------------------
(* IInv is inductive. *)

\* The initial state has nothing to go wrong.
LEMMA InitIInv == Init => IInv
<1> SUFFICES ASSUME Init PROVE IInv
  OBVIOUS
<1> USE BoundsAssumption DEF Init
<1>1. Registered = {}
  BY DEF Registered, Unbound
<1>2. TypeOK
  <2>1. /\ data \in [Params -> {"zero", "filled", "stale"}]
        /\ bound_params \in [Params -> Kinds \cup {"value", Unbound}]
    OBVIOUS
  <2>2. NoResult \in NoResult .. MaxCols /\ NoColumns \in NoColumns .. MaxCols
    BY DEF NoResult, NoColumns
  <2>3. /\ 0 \in 0 .. MaxParams /\ 0 \in 0 .. MaxCols /\ 0 \in 0 .. MaxRows
        /\ 0 \in Nat /\ 0 \in Int
    OBVIOUS
  <2> QED
    BY <2>1, <2>2, <2>3 DEF TypeOK
<1>3. GivenInv /\ WiredInv
  BY <1>1, FS_EmptySet DEF GivenInv, WiredInv
<1>4. PreInv /\ CursorInv /\ OneResult /\ BuffersInv /\ DescribedInv
  BY DEF PreInv, CursorInv, OneResult, BuffersInv, DescribedInv, NoColumns
<1>5. CrashesExplained /\ NothingLeftBehind /\ FalseIsExplained
  BY DEF CrashesExplained, NothingLeftBehind, FalseIsExplained
<1> QED
  BY <1>2, <1>3, <1>4, <1>5 DEF IInv

\* Every callback keeps every variable in its range.
LEMMA TypeStep == TypeOK /\ [Next]_vars => TypeOK'
<1> SUFFICES ASSUME TypeOK, [Next]_vars PROVE TypeOK'
  OBVIOUS
<1> USE BoundsAssumption, KindsAssumption DEF TypeOK, AllKinds, Params,
  Numbers, Registered, NoResult, NoColumns, Unbound
<1>1. ASSUME PrepareFails PROVE TypeOK'
  BY <1>1 DEF PrepareFails, Return
<1>2. ASSUME NEW n \in 0 .. MaxParams, NEW f \in NoResult .. MaxCols, taos_handle_preparer(n, f)
      PROVE  TypeOK'
  BY <1>2 DEF taos_handle_preparer, Return
<1>3. ASSUME NEW i \in Params, NEW k \in Kinds, Bind(i, k)
      PROVE  TypeOK'
  BY <1>3 DEF Bind, Idle, InRange, ParamAlloc, AllocSlot, Abandon, Return
<1>4. ASSUME NEW i \in Numbers, BindRejected(i)
      PROVE  TypeOK'
  BY <1>4 DEF BindRejected, Idle, InRange, RangeError, Return
<1>5. ASSUME ExecuteBound PROVE TypeOK'
  BY <1>5 DEF ExecuteBound, Idle
<1>6. ASSUME NEW A \in SUBSET Numbers, ExecuteArgs(A)
      PROVE  TypeOK'
  BY <1>6 DEF ExecuteArgs, Idle, Abandon
<1>7. ASSUME NEW mode \in {"row", "lazy"}, StmtFetch(mode)
      PROVE  TypeOK'
  BY <1>7 DEF StmtFetch, Idle, NextRow, Return
<1>8. ASSUME StmtGetCol PROVE TypeOK'
  BY <1>8 DEF StmtGetCol, Idle
<1>9. ASSUME CloseCursor PROVE TypeOK'
  BY <1>9 DEF CloseCursor, Idle
<1>10. ASSUME StmtDtor PROVE TypeOK'
  <2>1. /\ data' \in [Params -> {"zero", "filled", "stale"}]
        /\ bound_params' \in [Params -> Kinds \cup {"value", Unbound}]
        /\ wired' \in SUBSET Params
    BY <1>10 DEF StmtDtor
  <2>2. result' \in Nat /\ openRes' \in SUBSET Nat /\ buffers' \in Int
    BY <1>10 DEF StmtDtor, FreeBuffers
  <2> QED
    BY <1>10, <2>1, <2>2 DEF StmtDtor
<1>11. ASSUME NEW i \in Numbers, RegisterArg(i)
      PROVE  TypeOK'
  <2>1. CASE InRange(i)
    <3>1. i \in Params
      BY <2>1 DEF InRange
    <3>2. data' \in [Params -> {"zero", "filled", "stale"}]
      BY <1>11, <2>1, <3>1 DEF RegisterArg, ParamAlloc, Abandon
    <3>3. bound_params' \in [Params -> Kinds \cup {"value", Unbound}]
      BY <1>11, <2>1, <3>1 DEF RegisterArg, ParamAlloc
    <3>4. wired' = wired \cup {i} /\ params_given' = params_given + 1
      BY <1>11, <2>1 DEF RegisterArg, ParamAlloc, AllocSlot
    <3>5. todo' \in SUBSET Numbers
      BY <1>11, <2>1 DEF RegisterArg
    <3> QED
      BY <1>11, <2>1, <3>1, <3>2, <3>3, <3>4, <3>5 DEF RegisterArg
  <2>2. CASE ~InRange(i)
    BY <1>11, <2>2 DEF RegisterArg, RangeError, Return
  <2> QED
    BY <2>1, <2>2
<1>12. ASSUME ArgsRegistered PROVE TypeOK'
  BY <1>12 DEF ArgsRegistered
<1>13. ASSUME NEW i \in Params, ParamExecPre(i)
      PROVE  TypeOK'
  <2>1. data' \in [Params -> {"zero", "filled", "stale"}]
    BY <1>13 DEF ParamExecPre, Fill
  <2>2. /\ call' \in {"idle", "args", "pre", "describe", "drain"}
        /\ todo' \in SUBSET Numbers
        /\ outcome' \in {"none", "true", "false", "end", "exception"}
        /\ error_code' \in {"00000", "HY093", "HY105"}
    BY <1>13 DEF ParamExecPre, PreError, Return
  <2>3. phase' \in {"new", "live", "failed", "freed", "crash_execute", "crash_get_col"}
    BY <1>13 DEF ParamExecPre
  <2> QED
    BY <1>13, <2>1, <2>2, <2>3 DEF ParamExecPre
<1>14. ASSUME NEW n \in 0 .. MaxRows, StmtExecute(n)
      PROVE  TypeOK'
  <2>1. /\ data' \in [Params -> {"zero", "filled", "stale"}]
        /\ wired' \in SUBSET Params
        /\ wiped' \in BOOLEAN
        /\ params_given' \in Nat
    BY <1>14 DEF StmtExecute, ClearSlots
  <2>2. /\ result' \in Nat
        /\ openRes' \in SUBSET Nat
        /\ bound_result' \in BOOLEAN
        /\ buffers' \in Int
        /\ row_count' \in 0 .. MaxRows
        /\ column_count' \in 0 .. MaxCols
        /\ total' \in 0 .. MaxRows
        /\ pos' \in 0 .. MaxRows
    <3>1. CASE NeedsResult /\ Yields(n)
      <4>1. fields \in 0 .. MaxCols
        BY <3>1 DEF Yields
      <4>2. UseResult(execs + 1, n)
        BY <1>14, <3>1 DEF StmtExecute
      <4>3. execs + 1 \in Nat /\ 0 \in 0 .. MaxRows
        OBVIOUS
      <4>4. result' \in Nat /\ openRes' \in SUBSET Nat /\ bound_result' \in BOOLEAN
        BY <4>2, <4>3 DEF UseResult
      <4>5. buffers' \in Int
        BY <4>1, <4>2 DEF UseResult
      <4> QED
        BY <4>1, <4>2, <4>3, <4>4, <4>5 DEF UseResult
    <3>2. CASE ~(NeedsResult /\ Yields(n))
      BY <1>14, <3>2 DEF StmtExecute
    <3> QED
      BY <3>1, <3>2
  <2>3. /\ call' \in {"idle", "args", "pre", "describe", "drain"}
        /\ todo' \in SUBSET Numbers
        /\ outcome' \in {"none", "true", "false", "end", "exception"}
        /\ error_code' \in {"00000", "HY093", "HY105"}
        /\ executed' \in BOOLEAN
    BY <1>14 DEF StmtExecute, Return
  <2> QED
    BY <1>14, <2>1, <2>2, <2>3 DEF StmtExecute
<1>15. ASSUME StmtExecuteFails PROVE TypeOK'
  BY <1>15 DEF StmtExecuteFails, ClearSlots, Return
<1>16. ASSUME StmtDescribe PROVE TypeOK'
  BY <1>16 DEF StmtDescribe, Return
<1>17. ASSUME Drain PROVE TypeOK'
  <2>1. row' \in BOOLEAN /\ pos' \in 0 .. MaxRows
    BY <1>17 DEF Drain, NextRow
  <2>2. /\ call' \in {"idle", "args", "pre", "describe", "drain"}
        /\ todo' \in SUBSET Numbers
        /\ outcome' \in {"none", "true", "false", "end", "exception"}
        /\ error_code' \in {"00000", "HY093", "HY105"}
        /\ executed' \in BOOLEAN
    BY <1>17 DEF Drain, Return
  <2> QED
    BY <1>17, <2>1, <2>2 DEF Drain
<1>18. CASE UNCHANGED vars
  BY <1>18 DEF vars
<1> QED
  BY <1>1, <1>2, <1>3, <1>4, <1>5, <1>6, <1>7, <1>8, <1>9, <1>10, <1>11, <1>12,
    <1>13, <1>14, <1>15, <1>16, <1>17, <1>18 DEF Next, Script, Continue

\* params_given counts at least the registrations there are: a registration
\* adds one to both or replaces one, and nothing lowers the counter.
LEMMA GivenStep == IInv /\ [Next]_vars => GivenInv'
<1> SUFFICES ASSUME IInv, [Next]_vars PROVE GivenInv'
  OBVIOUS
<1> USE BoundsAssumption, KindsAssumption DEF IInv, TypeOK, GivenInv,
  Registered, Params, Slots
<1>1. ASSUME PrepareFails PROVE GivenInv'
  BY <1>1 DEF PrepareFails, Return
<1>2. ASSUME NEW n \in 0 .. MaxParams, NEW f \in NoResult .. MaxCols, taos_handle_preparer(n, f)
      PROVE  GivenInv'
  BY <1>2 DEF taos_handle_preparer, Return
<1>3. ASSUME NEW i \in Params, NEW k \in Kinds, Bind(i, k)
      PROVE  GivenInv'
  <2>1. Registered' \subseteq Registered \cup {i} /\ i \in Slots
    BY <1>3 DEF Bind, ParamAlloc, InRange
  <2>2. Cardinality(Registered') <= Cardinality(Registered) + 1
    BY <2>1, OneMore
  <2>3. Cardinality(Registered) \in Nat /\ Cardinality(Registered') \in Nat
    BY OneMore
  <2> QED
    BY <1>3, <2>1, <2>2, <2>3 DEF Bind, Idle, ParamAlloc, AllocSlot
<1>4. ASSUME NEW i \in Numbers, BindRejected(i)
      PROVE  GivenInv'
  BY <1>4 DEF BindRejected, Idle, InRange, RangeError, Return
<1>5. ASSUME ExecuteBound PROVE GivenInv'
  BY <1>5 DEF ExecuteBound, Idle
<1>6. ASSUME NEW A \in SUBSET Numbers, ExecuteArgs(A)
      PROVE  GivenInv'
  <2>1. \A i \in Params : bound_params'[i] = Unbound
    BY <1>6 DEF ExecuteArgs
  <2>2. Registered' = {}
    BY <2>1
  <2>3. Cardinality(Registered') = 0
    BY <2>2, FS_EmptySet
  <2> QED
    BY <1>6, <2>2, <2>3 DEF ExecuteArgs, Idle
<1>7. ASSUME NEW mode \in {"row", "lazy"}, StmtFetch(mode)
      PROVE  GivenInv'
  BY <1>7 DEF StmtFetch, Idle, NextRow, Return
<1>8. ASSUME StmtGetCol PROVE GivenInv'
  BY <1>8 DEF StmtGetCol, Idle
<1>9. ASSUME CloseCursor PROVE GivenInv'
  BY <1>9 DEF CloseCursor, Idle
<1>10. ASSUME StmtDtor PROVE GivenInv'
  <2>1. \A i \in Params : bound_params'[i] = Unbound
    BY <1>10 DEF StmtDtor
  <2>2. Registered' = {}
    BY <2>1
  <2>3. Cardinality(Registered') = 0
    BY <2>2, FS_EmptySet
  <2> QED
    BY <1>10, <2>2, <2>3 DEF StmtDtor
<1>11. ASSUME NEW i \in Numbers, RegisterArg(i)
      PROVE  GivenInv'
  <2>1. CASE InRange(i)
    <3>1. Registered' \subseteq Registered \cup {i} /\ i \in Slots
      BY <1>11, <2>1 DEF RegisterArg, ParamAlloc, InRange, Numbers
    <3>2. Cardinality(Registered') <= Cardinality(Registered) + 1
      BY <3>1, OneMore
    <3>3. Cardinality(Registered) \in Nat /\ Cardinality(Registered') \in Nat
      BY OneMore
    <3> QED
      BY <1>11, <2>1, <3>1, <3>2, <3>3 DEF RegisterArg, ParamAlloc, AllocSlot
  <2>2. CASE ~InRange(i)
    BY <1>11, <2>2 DEF RegisterArg
  <2> QED
    BY <2>1, <2>2
<1>12. ASSUME ArgsRegistered PROVE GivenInv'
  BY <1>12 DEF ArgsRegistered
<1>13. ASSUME NEW i \in Params, ParamExecPre(i)
      PROVE  GivenInv'
  BY <1>13 DEF ParamExecPre, TooFew, Fill, PreAccepts, PreError, Return
<1>14. ASSUME NEW n \in 0 .. MaxRows, StmtExecute(n)
      PROVE  GivenInv'
  BY <1>14 DEF StmtExecute, ClearSlots, NeedsResult, Yields, UseResult, Return
<1>15. ASSUME StmtExecuteFails PROVE GivenInv'
  BY <1>15 DEF StmtExecuteFails, ClearSlots, Return
<1>16. ASSUME StmtDescribe PROVE GivenInv'
  BY <1>16 DEF StmtDescribe, Return
<1>17. ASSUME Drain PROVE GivenInv'
  BY <1>17 DEF Drain, NextRow, Return
<1>18. CASE UNCHANGED vars
  BY <1>18 DEF vars
<1> QED
  BY <1>1, <1>2, <1>3, <1>4, <1>5, <1>6, <1>7, <1>8, <1>9, <1>10, <1>11, <1>12,
    <1>13, <1>14, <1>15, <1>16, <1>17, <1>18 DEF Next, Script, Continue

\* Registration sets the pointers and only the zeroing of an execution, which
\* needs a parameter to be registered, clears them.
LEMMA WiredStep == IInv /\ [Next]_vars => WiredInv'
<1> SUFFICES ASSUME IInv, [Next]_vars PROVE WiredInv'
  OBVIOUS
<1> USE BoundsAssumption, KindsAssumption DEF IInv, TypeOK, WiredInv, GivenInv,
  Registered, Params, Slots
<1>1. ASSUME PrepareFails PROVE WiredInv'
  BY <1>1 DEF PrepareFails, Return
<1>2. ASSUME NEW n \in 0 .. MaxParams, NEW f \in NoResult .. MaxCols, taos_handle_preparer(n, f)
      PROVE  WiredInv'
  BY <1>2 DEF taos_handle_preparer, Return
<1>3. ASSUME NEW i \in Params, NEW k \in Kinds, Bind(i, k)
      PROVE  WiredInv'
  BY <1>3 DEF Bind, Idle, InRange, ParamAlloc, AllocSlot, Abandon, Return
<1>4. ASSUME NEW i \in Numbers, BindRejected(i)
      PROVE  WiredInv'
  BY <1>4 DEF BindRejected, Idle, InRange, RangeError, Return
<1>5. ASSUME ExecuteBound PROVE WiredInv'
  BY <1>5 DEF ExecuteBound, Idle
<1>6. ASSUME NEW A \in SUBSET Numbers, ExecuteArgs(A)
      PROVE  WiredInv'
  BY <1>6 DEF ExecuteArgs, Idle, Abandon
<1>7. ASSUME NEW mode \in {"row", "lazy"}, StmtFetch(mode)
      PROVE  WiredInv'
  BY <1>7 DEF StmtFetch, Idle, NextRow, Return
<1>8. ASSUME StmtGetCol PROVE WiredInv'
  BY <1>8 DEF StmtGetCol, Idle
<1>9. ASSUME CloseCursor PROVE WiredInv'
  BY <1>9 DEF CloseCursor, Idle
<1>10. ASSUME StmtDtor PROVE WiredInv'
  BY <1>10 DEF StmtDtor, FreeBuffers
<1>11. ASSUME NEW i \in Numbers, RegisterArg(i)
      PROVE  WiredInv'
  BY <1>11 DEF RegisterArg, InRange, ParamAlloc, AllocSlot, Abandon,
    RangeError, Return
<1>12. ASSUME ArgsRegistered PROVE WiredInv'
  BY <1>12 DEF ArgsRegistered
<1>13. ASSUME NEW i \in Params, ParamExecPre(i)
      PROVE  WiredInv'
  BY <1>13 DEF ParamExecPre, TooFew, Fill, PreAccepts, PreError, Return
<1>14. ASSUME NEW n \in 0 .. MaxRows, StmtExecute(n)
      PROVE  WiredInv'
  <2>1. Registered # {} => num_params > 0
    OBVIOUS
  <2>2. Registered' = Registered /\ wiped' = (wiped \/ num_params > 0)
    BY <1>14 DEF StmtExecute, ClearSlots
  <2>3. call' # "args"
    BY <1>14 DEF StmtExecute, Return
  <2> QED
    BY <2>1, <2>2, <2>3
<1>15. ASSUME StmtExecuteFails PROVE WiredInv'
  <2>1. Registered # {} => num_params > 0
    OBVIOUS
  <2>2. Registered' = Registered /\ wiped' = (wiped \/ num_params > 0)
    BY <1>15 DEF StmtExecuteFails, ClearSlots
  <2>3. call' # "args"
    BY <1>15 DEF StmtExecuteFails, Return
  <2> QED
    BY <2>1, <2>2, <2>3
<1>16. ASSUME StmtDescribe PROVE WiredInv'
  BY <1>16 DEF StmtDescribe, Return
<1>17. ASSUME Drain PROVE WiredInv'
  BY <1>17 DEF Drain, NextRow, Return
<1>18. CASE UNCHANGED vars
  BY <1>18 DEF vars
<1> QED
  BY <1>1, <1>2, <1>3, <1>4, <1>5, <1>6, <1>7, <1>8, <1>9, <1>10, <1>11, <1>12,
    <1>13, <1>14, <1>15, <1>16, <1>17, <1>18 DEF Next, Script, Continue

\* execute() visits registered parameters and leaves each one filled.
LEMMA PreStep == IInv /\ [Next]_vars => PreInv'
<1> SUFFICES ASSUME IInv, [Next]_vars PROVE PreInv'
  OBVIOUS
<1> USE BoundsAssumption, KindsAssumption DEF IInv, TypeOK, PreInv, GivenInv,
  Registered, Params, Slots
<1>1. ASSUME PrepareFails PROVE PreInv'
  BY <1>1 DEF PrepareFails, Return
<1>2. ASSUME NEW n \in 0 .. MaxParams, NEW f \in NoResult .. MaxCols, taos_handle_preparer(n, f)
      PROVE  PreInv'
  BY <1>2 DEF taos_handle_preparer, Return
<1>3. ASSUME NEW i \in Params, NEW k \in Kinds, Bind(i, k)
      PROVE  PreInv'
  BY <1>3 DEF Bind, Idle, InRange, ParamAlloc, AllocSlot, Abandon, Return
<1>4. ASSUME NEW i \in Numbers, BindRejected(i)
      PROVE  PreInv'
  BY <1>4 DEF BindRejected, Idle, InRange, RangeError, Return
<1>5. ASSUME ExecuteBound PROVE PreInv'
  BY <1>5 DEF ExecuteBound, Idle
<1>6. ASSUME NEW A \in SUBSET Numbers, ExecuteArgs(A)
      PROVE  PreInv'
  BY <1>6 DEF ExecuteArgs, Idle, Abandon
<1>7. ASSUME NEW mode \in {"row", "lazy"}, StmtFetch(mode)
      PROVE  PreInv'
  BY <1>7 DEF StmtFetch, Idle, NextRow, Return
<1>8. ASSUME StmtGetCol PROVE PreInv'
  BY <1>8 DEF StmtGetCol, Idle
<1>9. ASSUME CloseCursor PROVE PreInv'
  BY <1>9 DEF CloseCursor, Idle
<1>10. ASSUME StmtDtor PROVE PreInv'
  BY <1>10 DEF StmtDtor, FreeBuffers
<1>11. ASSUME NEW i \in Numbers, RegisterArg(i)
      PROVE  PreInv'
  BY <1>11 DEF RegisterArg, InRange, ParamAlloc, AllocSlot, Abandon,
    RangeError, Return
<1>12. ASSUME ArgsRegistered PROVE PreInv'
  BY <1>12 DEF ArgsRegistered
<1>13. ASSUME NEW i \in Params, ParamExecPre(i)
      PROVE  PreInv'
  BY <1>13 DEF ParamExecPre, TooFew, Fill, PreAccepts, PreError, Return
<1>14. ASSUME NEW n \in 0 .. MaxRows, StmtExecute(n)
      PROVE  PreInv'
  BY <1>14 DEF StmtExecute, ClearSlots, NeedsResult, Yields, UseResult, Return
<1>15. ASSUME StmtExecuteFails PROVE PreInv'
  BY <1>15 DEF StmtExecuteFails, ClearSlots, Return
<1>16. ASSUME StmtDescribe PROVE PreInv'
  BY <1>16 DEF StmtDescribe, Return
<1>17. ASSUME Drain PROVE PreInv'
  BY <1>17 DEF Drain, NextRow, Return
<1>18. CASE UNCHANGED vars
  BY <1>18 DEF vars
<1> QED
  BY <1>1, <1>2, <1>3, <1>4, <1>5, <1>6, <1>7, <1>8, <1>9, <1>10, <1>11, <1>12,
    <1>13, <1>14, <1>15, <1>16, <1>17, <1>18 DEF Next, Script, Continue

\* The cursor moves only while there is a row, and restarts only when no row
\* was ever fetched.
LEMMA CursorStep == IInv /\ [Next]_vars => CursorInv'
<1> SUFFICES ASSUME IInv, [Next]_vars PROVE CursorInv'
  OBVIOUS
<1> USE BoundsAssumption, KindsAssumption DEF IInv, TypeOK, CursorInv
<1>1. ASSUME PrepareFails PROVE CursorInv'
  BY <1>1 DEF PrepareFails, Return
<1>2. ASSUME NEW n \in 0 .. MaxParams, NEW f \in NoResult .. MaxCols, taos_handle_preparer(n, f)
      PROVE  CursorInv'
  BY <1>2 DEF taos_handle_preparer, Return
<1>3. ASSUME NEW i \in Params, NEW k \in Kinds, Bind(i, k)
      PROVE  CursorInv'
  BY <1>3 DEF Bind, Idle, InRange, ParamAlloc, AllocSlot, Abandon, Return
<1>4. ASSUME NEW i \in Numbers, BindRejected(i)
      PROVE  CursorInv'
  BY <1>4 DEF BindRejected, Idle, InRange, RangeError, Return
<1>5. ASSUME ExecuteBound PROVE CursorInv'
  BY <1>5 DEF ExecuteBound, Idle
<1>6. ASSUME NEW A \in SUBSET Numbers, ExecuteArgs(A)
      PROVE  CursorInv'
  BY <1>6 DEF ExecuteArgs, Idle, Abandon
<1>7. ASSUME NEW mode \in {"row", "lazy"}, StmtFetch(mode)
      PROVE  CursorInv'
  BY <1>7 DEF StmtFetch, Idle, NextRow, Return
<1>8. ASSUME StmtGetCol PROVE CursorInv'
  BY <1>8 DEF StmtGetCol, Idle
<1>9. ASSUME CloseCursor PROVE CursorInv'
  BY <1>9 DEF CloseCursor, Idle
<1>10. ASSUME StmtDtor PROVE CursorInv'
  BY <1>10 DEF StmtDtor, FreeBuffers
<1>11. ASSUME NEW i \in Numbers, RegisterArg(i)
      PROVE  CursorInv'
  BY <1>11 DEF RegisterArg, InRange, ParamAlloc, AllocSlot, Abandon,
    RangeError, Return
<1>12. ASSUME ArgsRegistered PROVE CursorInv'
  BY <1>12 DEF ArgsRegistered
<1>13. ASSUME NEW i \in Params, ParamExecPre(i)
      PROVE  CursorInv'
  BY <1>13 DEF ParamExecPre, TooFew, Fill, PreAccepts, PreError, Return
<1>14. ASSUME NEW n \in 0 .. MaxRows, StmtExecute(n)
      PROVE  CursorInv'
  BY <1>14 DEF StmtExecute, ClearSlots, NeedsResult, Yields, UseResult, Return
<1>15. ASSUME StmtExecuteFails PROVE CursorInv'
  BY <1>15 DEF StmtExecuteFails, ClearSlots, Return
<1>16. ASSUME StmtDescribe PROVE CursorInv'
  BY <1>16 DEF StmtDescribe, Return
<1>17. ASSUME Drain PROVE CursorInv'
  BY <1>17 DEF Drain, NextRow, Return
<1>18. CASE UNCHANGED vars
  BY <1>18 DEF vars
<1> QED
  BY <1>1, <1>2, <1>3, <1>4, <1>5, <1>6, <1>7, <1>8, <1>9, <1>10, <1>11, <1>12,
    <1>13, <1>14, <1>15, <1>16, <1>17, <1>18 DEF Next, Script, Continue

\* The guard on S->result makes the first result the only one.
LEMMA OneResultStep == IInv /\ [Next]_vars => OneResult'
<1> SUFFICES ASSUME IInv, [Next]_vars PROVE OneResult'
  OBVIOUS
<1> USE BoundsAssumption, KindsAssumption DEF IInv, TypeOK, OneResult
<1>1. ASSUME PrepareFails PROVE OneResult'
  BY <1>1 DEF PrepareFails, Return
<1>2. ASSUME NEW n \in 0 .. MaxParams, NEW f \in NoResult .. MaxCols, taos_handle_preparer(n, f)
      PROVE  OneResult'
  BY <1>2 DEF taos_handle_preparer, Return
<1>3. ASSUME NEW i \in Params, NEW k \in Kinds, Bind(i, k)
      PROVE  OneResult'
  BY <1>3 DEF Bind, Idle, InRange, ParamAlloc, AllocSlot, Abandon, Return
<1>4. ASSUME NEW i \in Numbers, BindRejected(i)
      PROVE  OneResult'
  BY <1>4 DEF BindRejected, Idle, InRange, RangeError, Return
<1>5. ASSUME ExecuteBound PROVE OneResult'
  BY <1>5 DEF ExecuteBound, Idle
<1>6. ASSUME NEW A \in SUBSET Numbers, ExecuteArgs(A)
      PROVE  OneResult'
  BY <1>6 DEF ExecuteArgs, Idle, Abandon
<1>7. ASSUME NEW mode \in {"row", "lazy"}, StmtFetch(mode)
      PROVE  OneResult'
  BY <1>7 DEF StmtFetch, Idle, NextRow, Return
<1>8. ASSUME StmtGetCol PROVE OneResult'
  BY <1>8 DEF StmtGetCol, Idle
<1>9. ASSUME CloseCursor PROVE OneResult'
  BY <1>9 DEF CloseCursor, Idle
<1>10. ASSUME StmtDtor PROVE OneResult'
  BY <1>10 DEF StmtDtor, FreeBuffers
<1>11. ASSUME NEW i \in Numbers, RegisterArg(i)
      PROVE  OneResult'
  BY <1>11 DEF RegisterArg, InRange, ParamAlloc, AllocSlot, Abandon,
    RangeError, Return
<1>12. ASSUME ArgsRegistered PROVE OneResult'
  BY <1>12 DEF ArgsRegistered
<1>13. ASSUME NEW i \in Params, ParamExecPre(i)
      PROVE  OneResult'
  BY <1>13 DEF ParamExecPre, TooFew, Fill, PreAccepts, PreError, Return
<1>14. ASSUME NEW n \in 0 .. MaxRows, StmtExecute(n)
      PROVE  OneResult'
  BY <1>14 DEF StmtExecute, ClearSlots, NeedsResult, Yields, UseResult, Return
<1>15. ASSUME StmtExecuteFails PROVE OneResult'
  BY <1>15 DEF StmtExecuteFails, ClearSlots, Return
<1>16. ASSUME StmtDescribe PROVE OneResult'
  BY <1>16 DEF StmtDescribe, Return
<1>17. ASSUME Drain PROVE OneResult'
  BY <1>17 DEF Drain, NextRow, Return
<1>18. CASE UNCHANGED vars
  BY <1>18 DEF vars
<1> QED
  BY <1>1, <1>2, <1>3, <1>4, <1>5, <1>6, <1>7, <1>8, <1>9, <1>10, <1>11, <1>12,
    <1>13, <1>14, <1>15, <1>16, <1>17, <1>18 DEF Next, Script, Continue

\* Buffers come and go with bound_result.
LEMMA BuffersStep == IInv /\ [Next]_vars => BuffersInv'
<1> SUFFICES ASSUME IInv, [Next]_vars PROVE BuffersInv'
  OBVIOUS
<1> USE BoundsAssumption, KindsAssumption DEF IInv, TypeOK, OneResult,
  BuffersInv
<1>1. ASSUME PrepareFails PROVE BuffersInv'
  BY <1>1 DEF PrepareFails, Return
<1>2. ASSUME NEW n \in 0 .. MaxParams, NEW f \in NoResult .. MaxCols, taos_handle_preparer(n, f)
      PROVE  BuffersInv'
  BY <1>2 DEF taos_handle_preparer, Return
<1>3. ASSUME NEW i \in Params, NEW k \in Kinds, Bind(i, k)
      PROVE  BuffersInv'
  BY <1>3 DEF Bind, Idle, InRange, ParamAlloc, AllocSlot, Abandon, Return
<1>4. ASSUME NEW i \in Numbers, BindRejected(i)
      PROVE  BuffersInv'
  BY <1>4 DEF BindRejected, Idle, InRange, RangeError, Return
<1>5. ASSUME ExecuteBound PROVE BuffersInv'
  BY <1>5 DEF ExecuteBound, Idle
<1>6. ASSUME NEW A \in SUBSET Numbers, ExecuteArgs(A)
      PROVE  BuffersInv'
  BY <1>6 DEF ExecuteArgs, Idle, Abandon
<1>7. ASSUME NEW mode \in {"row", "lazy"}, StmtFetch(mode)
      PROVE  BuffersInv'
  BY <1>7 DEF StmtFetch, Idle, NextRow, Return
<1>8. ASSUME StmtGetCol PROVE BuffersInv'
  BY <1>8 DEF StmtGetCol, Idle
<1>9. ASSUME CloseCursor PROVE BuffersInv'
  BY <1>9 DEF CloseCursor, Idle
<1>10. ASSUME StmtDtor PROVE BuffersInv'
  BY <1>10 DEF StmtDtor, FreeBuffers
<1>11. ASSUME NEW i \in Numbers, RegisterArg(i)
      PROVE  BuffersInv'
  BY <1>11 DEF RegisterArg, InRange, ParamAlloc, AllocSlot, Abandon,
    RangeError, Return
<1>12. ASSUME ArgsRegistered PROVE BuffersInv'
  BY <1>12 DEF ArgsRegistered
<1>13. ASSUME NEW i \in Params, ParamExecPre(i)
      PROVE  BuffersInv'
  BY <1>13 DEF ParamExecPre, TooFew, Fill, PreAccepts, PreError, Return
<1>14. ASSUME NEW n \in 0 .. MaxRows, StmtExecute(n)
      PROVE  BuffersInv'
  BY <1>14 DEF StmtExecute, ClearSlots, NeedsResult, Yields, UseResult, Return
<1>15. ASSUME StmtExecuteFails PROVE BuffersInv'
  BY <1>15 DEF StmtExecuteFails, ClearSlots, Return
<1>16. ASSUME StmtDescribe PROVE BuffersInv'
  BY <1>16 DEF StmtDescribe, Return
<1>17. ASSUME Drain PROVE BuffersInv'
  BY <1>17 DEF Drain, NextRow, Return
<1>18. CASE UNCHANGED vars
  BY <1>18 DEF vars
<1> QED
  BY <1>1, <1>2, <1>3, <1>4, <1>5, <1>6, <1>7, <1>8, <1>9, <1>10, <1>11, <1>12,
    <1>13, <1>14, <1>15, <1>16, <1>17, <1>18 DEF Next, Script, Continue

\* After the first description no callback changes column_count.
LEMMA DescribedStep == IInv /\ [Next]_vars => DescribedInv'
<1> SUFFICES ASSUME IInv, [Next]_vars PROVE DescribedInv'
  OBVIOUS
<1> USE BoundsAssumption, KindsAssumption DEF IInv, TypeOK, DescribedInv,
  NoResult, NoColumns
<1>1. ASSUME PrepareFails PROVE DescribedInv'
  BY <1>1 DEF PrepareFails, Return
<1>2. ASSUME NEW n \in 0 .. MaxParams, NEW f \in NoResult .. MaxCols, taos_handle_preparer(n, f)
      PROVE  DescribedInv'
  BY <1>2 DEF taos_handle_preparer, Return
<1>3. ASSUME NEW i \in Params, NEW k \in Kinds, Bind(i, k)
      PROVE  DescribedInv'
  BY <1>3 DEF Bind, Idle, InRange, ParamAlloc, AllocSlot, Abandon, Return
<1>4. ASSUME NEW i \in Numbers, BindRejected(i)
      PROVE  DescribedInv'
  BY <1>4 DEF BindRejected, Idle, InRange, RangeError, Return
<1>5. ASSUME ExecuteBound PROVE DescribedInv'
  BY <1>5 DEF ExecuteBound, Idle
<1>6. ASSUME NEW A \in SUBSET Numbers, ExecuteArgs(A)
      PROVE  DescribedInv'
  BY <1>6 DEF ExecuteArgs, Idle, Abandon
<1>7. ASSUME NEW mode \in {"row", "lazy"}, StmtFetch(mode)
      PROVE  DescribedInv'
  BY <1>7 DEF StmtFetch, Idle, NextRow, Return
<1>8. ASSUME StmtGetCol PROVE DescribedInv'
  BY <1>8 DEF StmtGetCol, Idle
<1>9. ASSUME CloseCursor PROVE DescribedInv'
  BY <1>9 DEF CloseCursor, Idle
<1>10. ASSUME StmtDtor PROVE DescribedInv'
  BY <1>10 DEF StmtDtor, FreeBuffers
<1>11. ASSUME NEW i \in Numbers, RegisterArg(i)
      PROVE  DescribedInv'
  BY <1>11 DEF RegisterArg, InRange, ParamAlloc, AllocSlot, Abandon,
    RangeError, Return
<1>12. ASSUME ArgsRegistered PROVE DescribedInv'
  BY <1>12 DEF ArgsRegistered
<1>13. ASSUME NEW i \in Params, ParamExecPre(i)
      PROVE  DescribedInv'
  BY <1>13 DEF ParamExecPre, TooFew, Fill, PreAccepts, PreError, Return
<1>14. ASSUME NEW n \in 0 .. MaxRows, StmtExecute(n)
      PROVE  DescribedInv'
  BY <1>14 DEF StmtExecute, ClearSlots, NeedsResult, Yields, UseResult, Return
<1>15. ASSUME StmtExecuteFails PROVE DescribedInv'
  BY <1>15 DEF StmtExecuteFails, ClearSlots, Return
<1>16. ASSUME StmtDescribe PROVE DescribedInv'
  BY <1>16 DEF StmtDescribe, Return
<1>17. ASSUME Drain PROVE DescribedInv'
  BY <1>17 DEF Drain, NextRow, Return
<1>18. CASE UNCHANGED vars
  BY <1>18 DEF vars
<1> QED
  BY <1>1, <1>2, <1>3, <1>4, <1>5, <1>6, <1>7, <1>8, <1>9, <1>10, <1>11, <1>12,
    <1>13, <1>14, <1>15, <1>16, <1>17, <1>18 DEF Next, Script, Continue

\* Both dereferences of NULL follow from their one cause.
LEMMA CrashStep == IInv /\ [Next]_vars => CrashesExplained'
<1> SUFFICES ASSUME IInv, [Next]_vars PROVE CrashesExplained'
  OBVIOUS
<1> USE BoundsAssumption, KindsAssumption DEF IInv, TypeOK, CrashesExplained,
  PreInv, WiredInv, CursorInv
<1>1. ASSUME PrepareFails PROVE CrashesExplained'
  BY <1>1 DEF PrepareFails, Return
<1>2. ASSUME NEW n \in 0 .. MaxParams, NEW f \in NoResult .. MaxCols, taos_handle_preparer(n, f)
      PROVE  CrashesExplained'
  BY <1>2 DEF taos_handle_preparer, Return
<1>3. ASSUME NEW i \in Params, NEW k \in Kinds, Bind(i, k)
      PROVE  CrashesExplained'
  BY <1>3 DEF Bind, Idle, InRange, ParamAlloc, AllocSlot, Abandon, Return
<1>4. ASSUME NEW i \in Numbers, BindRejected(i)
      PROVE  CrashesExplained'
  BY <1>4 DEF BindRejected, Idle, InRange, RangeError, Return
<1>5. ASSUME ExecuteBound PROVE CrashesExplained'
  BY <1>5 DEF ExecuteBound, Idle
<1>6. ASSUME NEW A \in SUBSET Numbers, ExecuteArgs(A)
      PROVE  CrashesExplained'
  BY <1>6 DEF ExecuteArgs, Idle, Abandon
<1>7. ASSUME NEW mode \in {"row", "lazy"}, StmtFetch(mode)
      PROVE  CrashesExplained'
  BY <1>7 DEF StmtFetch, Idle, NextRow, Return
<1>8. ASSUME StmtGetCol PROVE CrashesExplained'
  BY <1>8 DEF StmtGetCol, Idle
<1>9. ASSUME CloseCursor PROVE CrashesExplained'
  BY <1>9 DEF CloseCursor, Idle
<1>10. ASSUME StmtDtor PROVE CrashesExplained'
  BY <1>10 DEF StmtDtor, FreeBuffers
<1>11. ASSUME NEW i \in Numbers, RegisterArg(i)
      PROVE  CrashesExplained'
  BY <1>11 DEF RegisterArg, InRange, ParamAlloc, AllocSlot, Abandon,
    RangeError, Return
<1>12. ASSUME ArgsRegistered PROVE CrashesExplained'
  BY <1>12 DEF ArgsRegistered
<1>13. ASSUME NEW i \in Params, ParamExecPre(i)
      PROVE  CrashesExplained'
  BY <1>13 DEF ParamExecPre, TooFew, Fill, PreAccepts, PreError, Return
<1>14. ASSUME NEW n \in 0 .. MaxRows, StmtExecute(n)
      PROVE  CrashesExplained'
  BY <1>14 DEF StmtExecute, ClearSlots, NeedsResult, Yields, UseResult, Return
<1>15. ASSUME StmtExecuteFails PROVE CrashesExplained'
  BY <1>15 DEF StmtExecuteFails, ClearSlots, Return
<1>16. ASSUME StmtDescribe PROVE CrashesExplained'
  BY <1>16 DEF StmtDescribe, Return
<1>17. ASSUME Drain PROVE CrashesExplained'
  BY <1>17 DEF Drain, NextRow, Return
<1>18. CASE UNCHANGED vars
  BY <1>18 DEF vars
<1> QED
  BY <1>1, <1>2, <1>3, <1>4, <1>5, <1>6, <1>7, <1>8, <1>9, <1>10, <1>11, <1>12,
    <1>13, <1>14, <1>15, <1>16, <1>17, <1>18 DEF Next, Script, Continue

\* The destructor frees what the statement owns, whatever it owns.
LEMMA FreedStep == IInv /\ [Next]_vars => NothingLeftBehind'
<1> SUFFICES ASSUME IInv, [Next]_vars PROVE NothingLeftBehind'
  OBVIOUS
<1> USE BoundsAssumption, KindsAssumption DEF IInv, TypeOK, OneResult,
  BuffersInv, NothingLeftBehind
<1>1. ASSUME PrepareFails PROVE NothingLeftBehind'
  BY <1>1 DEF PrepareFails, Return
<1>2. ASSUME NEW n \in 0 .. MaxParams, NEW f \in NoResult .. MaxCols, taos_handle_preparer(n, f)
      PROVE  NothingLeftBehind'
  BY <1>2 DEF taos_handle_preparer, Return
<1>3. ASSUME NEW i \in Params, NEW k \in Kinds, Bind(i, k)
      PROVE  NothingLeftBehind'
  BY <1>3 DEF Bind, Idle, InRange, ParamAlloc, AllocSlot, Abandon, Return
<1>4. ASSUME NEW i \in Numbers, BindRejected(i)
      PROVE  NothingLeftBehind'
  BY <1>4 DEF BindRejected, Idle, InRange, RangeError, Return
<1>5. ASSUME ExecuteBound PROVE NothingLeftBehind'
  BY <1>5 DEF ExecuteBound, Idle
<1>6. ASSUME NEW A \in SUBSET Numbers, ExecuteArgs(A)
      PROVE  NothingLeftBehind'
  BY <1>6 DEF ExecuteArgs, Idle, Abandon
<1>7. ASSUME NEW mode \in {"row", "lazy"}, StmtFetch(mode)
      PROVE  NothingLeftBehind'
  BY <1>7 DEF StmtFetch, Idle, NextRow, Return
<1>8. ASSUME StmtGetCol PROVE NothingLeftBehind'
  BY <1>8 DEF StmtGetCol, Idle
<1>9. ASSUME CloseCursor PROVE NothingLeftBehind'
  BY <1>9 DEF CloseCursor, Idle
<1>10. ASSUME StmtDtor PROVE NothingLeftBehind'
  BY <1>10 DEF StmtDtor, FreeBuffers
<1>11. ASSUME NEW i \in Numbers, RegisterArg(i)
      PROVE  NothingLeftBehind'
  BY <1>11 DEF RegisterArg, InRange, ParamAlloc, AllocSlot, Abandon,
    RangeError, Return
<1>12. ASSUME ArgsRegistered PROVE NothingLeftBehind'
  BY <1>12 DEF ArgsRegistered
<1>13. ASSUME NEW i \in Params, ParamExecPre(i)
      PROVE  NothingLeftBehind'
  BY <1>13 DEF ParamExecPre, TooFew, Fill, PreAccepts, PreError, Return
<1>14. ASSUME NEW n \in 0 .. MaxRows, StmtExecute(n)
      PROVE  NothingLeftBehind'
  BY <1>14 DEF StmtExecute, ClearSlots, NeedsResult, Yields, UseResult, Return
<1>15. ASSUME StmtExecuteFails PROVE NothingLeftBehind'
  BY <1>15 DEF StmtExecuteFails, ClearSlots, Return
<1>16. ASSUME StmtDescribe PROVE NothingLeftBehind'
  BY <1>16 DEF StmtDescribe, Return
<1>17. ASSUME Drain PROVE NothingLeftBehind'
  BY <1>17 DEF Drain, NextRow, Return
<1>18. CASE UNCHANGED vars
  BY <1>18 DEF vars
<1> QED
  BY <1>1, <1>2, <1>3, <1>4, <1>5, <1>6, <1>7, <1>8, <1>9, <1>10, <1>11, <1>12,
    <1>13, <1>14, <1>15, <1>16, <1>17, <1>18 DEF Next, Script, Continue

\* Each way to answer false sets an error code or met an unknown type.
LEMMA FalseStep == IInv /\ [Next]_vars => FalseIsExplained'
<1> SUFFICES ASSUME IInv, [Next]_vars PROVE FalseIsExplained'
  OBVIOUS
<1> USE BoundsAssumption, KindsAssumption DEF IInv, TypeOK, PreInv, CursorInv,
  FalseIsExplained, Registered, Params, AllKinds, Unbound
<1>1. ASSUME PrepareFails PROVE FalseIsExplained'
  BY <1>1 DEF PrepareFails, Return
<1>2. ASSUME NEW n \in 0 .. MaxParams, NEW f \in NoResult .. MaxCols, taos_handle_preparer(n, f)
      PROVE  FalseIsExplained'
  BY <1>2 DEF taos_handle_preparer, Return
<1>3. ASSUME NEW i \in Params, NEW k \in Kinds, Bind(i, k)
      PROVE  FalseIsExplained'
  BY <1>3 DEF Bind, Idle, InRange, ParamAlloc, AllocSlot, Abandon, Return
<1>4. ASSUME NEW i \in Numbers, BindRejected(i)
      PROVE  FalseIsExplained'
  BY <1>4 DEF BindRejected, Idle, InRange, RangeError, Return
<1>5. ASSUME ExecuteBound PROVE FalseIsExplained'
  BY <1>5 DEF ExecuteBound, Idle
<1>6. ASSUME NEW A \in SUBSET Numbers, ExecuteArgs(A)
      PROVE  FalseIsExplained'
  BY <1>6 DEF ExecuteArgs, Idle, Abandon
<1>7. ASSUME NEW mode \in {"row", "lazy"}, StmtFetch(mode)
      PROVE  FalseIsExplained'
  BY <1>7 DEF StmtFetch, Idle, NextRow, Return
<1>8. ASSUME StmtGetCol PROVE FalseIsExplained'
  BY <1>8 DEF StmtGetCol, Idle
<1>9. ASSUME CloseCursor PROVE FalseIsExplained'
  BY <1>9 DEF CloseCursor, Idle
<1>10. ASSUME StmtDtor PROVE FalseIsExplained'
  BY <1>10 DEF StmtDtor, FreeBuffers
<1>11. ASSUME NEW i \in Numbers, RegisterArg(i)
      PROVE  FalseIsExplained'
  BY <1>11 DEF RegisterArg, InRange, ParamAlloc, AllocSlot, Abandon,
    RangeError, Return
<1>12. ASSUME ArgsRegistered PROVE FalseIsExplained'
  BY <1>12 DEF ArgsRegistered
<1>13. ASSUME NEW i \in Params, ParamExecPre(i)
      PROVE  FalseIsExplained'
  <2>1. i \in Registered /\ call = "pre"
    BY <1>13 DEF ParamExecPre
  <2>2. bound_params[i] \in {"value", "lob", "badlob", "other"}
    BY <2>1
  <2>3. Registered' = Registered /\ bound_params' = bound_params
    BY <1>13 DEF ParamExecPre
  <2>4. CASE call' = "idle" /\ outcome' = "false" /\ error_code' = "00000"
    <3>1. ~PreAccepts(bound_params[i]) /\ PreError(bound_params[i]) = "00000"
      BY <1>13, <2>4, <2>1 DEF ParamExecPre, Return
    <3>2. bound_params[i] = "other"
      BY <2>2, <3>1 DEF PreAccepts, PreError
    <3> QED
      BY <2>1, <2>3, <3>2
  <2> QED
    BY <2>4
<1>14. ASSUME NEW n \in 0 .. MaxRows, StmtExecute(n)
      PROVE  FalseIsExplained'
  BY <1>14 DEF StmtExecute, ClearSlots, NeedsResult, Yields, UseResult, Return
<1>15. ASSUME StmtExecuteFails PROVE FalseIsExplained'
  BY <1>15 DEF StmtExecuteFails, ClearSlots, Return
<1>16. ASSUME StmtDescribe PROVE FalseIsExplained'
  BY <1>16 DEF StmtDescribe, Return
<1>17. ASSUME Drain PROVE FalseIsExplained'
  BY <1>17 DEF Drain, NextRow, Return
<1>18. CASE UNCHANGED vars
  BY <1>18 DEF vars
<1> QED
  BY <1>1, <1>2, <1>3, <1>4, <1>5, <1>6, <1>7, <1>8, <1>9, <1>10, <1>11, <1>12,
    <1>13, <1>14, <1>15, <1>16, <1>17, <1>18 DEF Next, Script, Continue

\* IInv holds in every reachable state.
THEOREM Invariance == Spec => []IInv
<1>1. IInv /\ [Next]_vars => IInv'
  <2> SUFFICES ASSUME IInv, [Next]_vars PROVE IInv'
    OBVIOUS
  <2>1. TypeOK'
    BY TypeStep DEF IInv
  <2> QED
    BY <2>1, GivenStep, WiredStep, PreStep, CursorStep, OneResultStep, BuffersStep,
       DescribedStep, CrashStep, FreedStep, FalseStep DEF IInv
<1> QED
  BY InitIInv, <1>1, PTL DEF Spec

-----------------------------------------------------------------------------
(* What follows from IInv. *)

\* Every variable keeps its type, for every value of the constants.
THEOREM TypeCorrect == Spec => []TypeOK
<1>1. IInv => TypeOK
  BY DEF IInv
<1> QED
  BY Invariance, <1>1, PTL

\* The null write in EXEC_PRE needs an earlier execution, and the null read in
\* get_col an exhausted cursor, however many parameters and executions.
THEOREM CrashesAreExplained == Spec => []CrashesExplained
<1>1. IInv => CrashesExplained
  BY DEF IInv
<1> QED
  BY Invariance, <1>1, PTL

\* What taos_stmt_bind_param reads for a typed parameter is what is registered.
THEOREM SlotsAreFresh == Spec => []FreshWhenTyped
<1>1. IInv => FreshWhenTyped
  BY DEF IInv, PreInv, FreshWhenTyped
<1> QED
  BY Invariance, <1>1, PTL

\* S->result is always the one result set that is open.
THEOREM ResultsAgree == Spec => []OneResult
<1>1. IInv => OneResult
  BY DEF IInv
<1> QED
  BY Invariance, <1>1, PTL

\* The destructor leaves nothing of the statement behind.
THEOREM DtorIsComplete == Spec => []NothingLeftBehind
<1>1. IInv => NothingLeftBehind
  BY DEF IInv
<1> QED
  BY Invariance, <1>1, PTL

\* An executed statement is described with its current number of columns.
THEOREM ColumnsAgree == Spec => []DescribedMatches
<1>1. IInv => DescribedMatches
  BY DEF IInv, DescribedInv, DescribedMatches
<1> QED
  BY Invariance, <1>1, PTL

\* A method answers false without an SQLSTATE only for an unknown PHP type.
THEOREM FalseHasACause == Spec => []FalseIsExplained
<1>1. IInv => FalseIsExplained
  BY DEF IInv
<1> QED
  BY Invariance, <1>1, PTL

\* With every placeholder registered, as many registrations were counted as
\* there are placeholders, so "too few" is not the answer.
THEOREM CompleteIsAccepted == Spec => NeverRejectsComplete
<1> DEFINE P == call = "pre" /\ Registered = Slots /\ call' = "idle" => error_code' # "HY093"
<1>1. IInv /\ [Next]_vars => [P]_vars
  <2> SUFFICES ASSUME IInv, Next, call = "pre", Registered = Slots, call' = "idle"
               PROVE  error_code' # "HY093"
    OBVIOUS
  <2>1. error_code = "00000"
    BY DEF IInv, PreInv
  <2>2. ~TooFew
    <3>1. num_params \in Nat /\ params_given \in Nat
      BY BoundsAssumption DEF IInv, TypeOK
    <3>2. Cardinality(Slots) = num_params
      BY <3>1, FS_Interval DEF Slots
    <3>3. num_params <= params_given
      BY <3>2 DEF IInv, GivenInv
    <3> QED
      BY <3>1, <3>3 DEF TooFew
  <2>3. ASSUME NEW i \in Params, ParamExecPre(i) PROVE error_code' # "HY093"
    BY <2>1, <2>2, <2>3 DEF ParamExecPre, PreError, Return
  <2>4. ASSUME NEW n \in 0 .. MaxRows, StmtExecute(n) PROVE error_code' # "HY093"
    BY <2>1, <2>4 DEF StmtExecute, Return
  <2>5. CASE StmtExecuteFails
    BY <2>1, <2>5 DEF StmtExecuteFails, Return
  <2>6. CASE PrepareFails \/ StmtGetCol \/ StmtDtor
    BY <2>1, <2>6 DEF PrepareFails, StmtGetCol, StmtDtor, Idle, IInv, PreInv
  <2> QED
    BY <2>3, <2>4, <2>5, <2>6
       DEF Next, Script, Continue, taos_handle_preparer, Bind, BindRejected, ExecuteBound, ExecuteArgs,
           RegisterArg, ArgsRegistered, StmtFetch, CloseCursor, StmtDescribe, Drain, Idle, Return
<1> QED
  BY Invariance, <1>1, PTL DEF Spec, NeverRejectsComplete

\* From an argument array to the end of the execution every registered slot has
\* its pointers: the array is registered after what was there is dropped, and
\* only the execution itself clears pointers.
THEOREM ArgsArraysAreSafe == Spec => ArgsArrayIsSafe
<1> DEFINE P == /\ call = "args" /\ call' = "pre" => Registered' \subseteq wired'
                /\ call = "pre" /\ phase = "live" /\ Registered \subseteq wired =>
                     /\ phase' # "crash_execute"
                     /\ call' = "pre" => Registered' \subseteq wired'
<1>1. ASSUME IInv, Next PROVE P
  <2>1. CASE Script
    <3>1. call \in {"args", "pre"} => call' = call \/ (call = "pre" /\ phase # "live")
      BY <1>1, <2>1 DEF Script, PrepareFails, taos_handle_preparer, Bind, BindRejected, ExecuteBound,
        ExecuteArgs, StmtFetch, StmtGetCol, CloseCursor, StmtDtor, Idle, IInv, PreInv
    <3>2. ~(call = "pre" /\ phase = "live")
      BY <2>1 DEF Script, PrepareFails, taos_handle_preparer, Bind, BindRejected, ExecuteBound,
        ExecuteArgs, StmtFetch, StmtGetCol, CloseCursor, StmtDtor, Idle
    <3> QED
      BY <3>1, <3>2
  <2>2. CASE ArgsRegistered
    <3>1. call = "args" /\ Registered' = Registered /\ wired' = wired
      BY <2>2 DEF ArgsRegistered, Registered
    <3> QED
      BY <1>1, <3>1 DEF IInv, WiredInv
  <2>3. ASSUME NEW i \in Numbers, RegisterArg(i) PROVE P
    BY <2>3 DEF RegisterArg, Return
  <2>4. ASSUME NEW i \in Params, ParamExecPre(i) PROVE P
    <3>1. /\ call = "pre" /\ i \in todo /\ wired' = wired /\ Registered' = Registered
          /\ i \in wired => phase' = phase
      BY <2>4 DEF ParamExecPre, Registered
    <3>2. i \in Registered \/ phase # "live"
      BY <1>1, <3>1 DEF IInv, PreInv
    <3> QED
      BY <3>1, <3>2
  <2>5. ASSUME NEW n \in 0 .. MaxRows, StmtExecute(n) PROVE P
    BY <2>5 DEF StmtExecute, Return
  <2>6. CASE StmtExecuteFails
    BY <2>6 DEF StmtExecuteFails, Return
  <2>7. CASE StmtDescribe \/ Drain
    BY <2>7 DEF StmtDescribe, Drain
  <2> QED
    BY <1>1, <2>1, <2>2, <2>3, <2>4, <2>5, <2>6, <2>7 DEF Next, Continue
<1>2. IInv /\ [Next]_vars => [P]_vars
  BY <1>1
<1> QED
  BY Invariance, <1>2, PTL DEF Spec, ArgsArrayIsSafe

-----------------------------------------------------------------------------
(* Progress. *)

\* What a method still visits is finite, and one visit makes it smaller by one.
LEMMA OneLess ==
  ASSUME NEW T \in SUBSET Numbers
  PROVE  /\ Cardinality(T) \in Nat
         /\ \A i \in T : Cardinality(T \ {i}) = Cardinality(T) - 1
         /\ T \subseteq Params => Cardinality(T) <= MaxParams
<1>1. IsFiniteSet(Numbers) /\ IsFiniteSet(Params) /\ Cardinality(Params) = MaxParams
  BY BoundsAssumption, FS_Interval DEF Numbers, Params
<1>2. IsFiniteSet(T)
  BY <1>1, FS_Subset
<1>3. Cardinality(T) \in Nat /\ \A i \in T : Cardinality(T \ {i}) = Cardinality(T) - 1
  BY <1>2, FS_CardinalityType, FS_RemoveElement
<1>4. T \subseteq Params => Cardinality(T) <= MaxParams
  BY <1>1, FS_Subset
<1> QED
  BY <1>3, <1>4

\* Each callback of a method leaves fewer of them outstanding, for any number of
\* parameters and rows.
THEOREM MethodsAdvance == Spec => MethodsProgress
<1> DEFINE P == Outstanding' \in Nat /\ Outstanding' < Outstanding
<1>1. ASSUME IInv, TypeOK', Continue PROVE P
  <2> USE BoundsAssumption DEF Outstanding
  <2>0. /\ MaxParams \in Nat /\ total \in Nat /\ pos \in Nat /\ pos <= total
        /\ Cardinality(todo) \in Nat /\ Cardinality(todo') \in Nat
        /\ \A i \in todo : Cardinality(todo \ {i}) = Cardinality(todo) - 1
    BY <1>1, OneLess DEF IInv, TypeOK, CursorInv
  <2>1. ASSUME NEW i \in Numbers, RegisterArg(i) PROVE P
    <3>1. call = "args" /\ phase = "live" /\ phase' = phase /\ i \in todo
          /\ \/ call' = "args" /\ todo' = todo \ {i}
             \/ call' = "idle"
      BY <2>1 DEF RegisterArg, Return
    <3> QED
      BY <2>0, <3>1
  <2>2. CASE ArgsRegistered
    <3>1. call = "args" /\ phase = "live" /\ phase' = phase /\ call' = "pre" /\ todo' = Registered
      BY <2>2 DEF ArgsRegistered
    <3>2. Registered \subseteq Params /\ Registered \in SUBSET Numbers
      BY DEF Registered, Params, Numbers
    <3>3. Cardinality(todo') <= MaxParams
      BY <3>1, <3>2, OneLess
    <3> QED
      BY <2>0, <3>1, <3>3
  <2>3. ASSUME NEW i \in Params, ParamExecPre(i) PROVE P
    <3>1. /\ call = "pre" /\ phase = "live" /\ i \in todo
          /\ \/ call' = "idle"
             \/ phase' = "crash_execute"
             \/ call' = "pre" /\ phase' = "live" /\ todo' = todo \ {i}
      BY <2>3 DEF ParamExecPre, Return
    <3> QED
      BY <2>0, <3>1
  <2>4. ASSUME NEW n \in 0 .. MaxRows, StmtExecute(n) PROVE P
    <3>1. call = "pre" /\ phase = "live" /\ phase' = phase /\ call' \in {"describe", "idle"}
      BY <2>4 DEF StmtExecute, Return
    <3> QED
      BY <2>0, <3>1
  <2>5. CASE StmtExecuteFails
    <3>1. call = "pre" /\ phase = "live" /\ call' = "idle"
      BY <2>5 DEF StmtExecuteFails, Return
    <3> QED
      BY <2>0, <3>1
  <2>6. CASE StmtDescribe
    <3>1. call = "describe" /\ phase = "live" /\ call' = "idle"
      BY <2>6 DEF StmtDescribe, Return
    <3> QED
      BY <3>1
  <2>7. CASE Drain
    <3>1. /\ call = "drain" /\ phase = "live" /\ phase' = phase /\ total' = total
          /\ \/ call' = "drain" /\ pos < total /\ pos' = pos + 1
             \/ call' = "idle"
      BY <2>7 DEF Drain, NextRow, Return
    <3> QED
      BY <2>0, <3>1
  <2> QED
    BY <1>1, <2>1, <2>2, <2>3, <2>4, <2>5, <2>6, <2>7 DEF Continue
<1>2. IInv /\ IInv' /\ [Next]_vars => [Continue => P]_vars
  BY <1>1 DEF IInv
<1> QED
  BY Invariance, <1>2, PTL DEF Spec, MethodsProgress

-----------------------------------------------------------------------------
(* The statement implements a one-shot cursor. *)

\* An execution opens the result set or changes nothing of it, a fetched row is
\* a delivery, the destructor closes.
LEMMA RefineStep == IInv /\ [Next]_vars => [Cursor!CursorNext]_(Cursor!cursor)
<1> SUFFICES ASSUME IInv, [Next]_vars
             PROVE  Cursor!CursorNext \/ UNCHANGED Cursor!cursor
  BY DEF Cursor!cursor
<1> USE BoundsAssumption DEF IInv, TypeOK, CursorInv, Cursor!cursor
<1> DEFINE Goal == Cursor!CursorNext \/ UNCHANGED Cursor!cursor
<1>1. ASSUME NextRow, UNCHANGED <<phase, result, total>>, phase = "live" PROVE Goal
  <2>1. CASE pos < total
    <3>1. Cursor!Deliver
      BY <1>1, <2>1 DEF NextRow, Cursor!Deliver
    <3> QED
      BY <3>1 DEF Cursor!CursorNext
  <2>2. CASE ~(pos < total)
    BY <1>1, <2>2 DEF NextRow
  <2> QED
    BY <2>1, <2>2
<1>2. ASSUME NEW n \in 0 .. MaxRows, StmtExecute(n) PROVE Goal
  <2>1. CASE NeedsResult /\ Yields(n)
    <3>1. execs + 1 \in 1 .. MaxExec /\ (IF fields > 0 THEN n ELSE 0) \in 0 .. MaxRows
      BY <1>2 DEF StmtExecute, PreInv
    <3>2. Cursor!Open(execs + 1, IF fields > 0 THEN n ELSE 0)
      BY <1>2, <2>1 DEF StmtExecute, NeedsResult, UseResult, Cursor!Open
    <3> QED
      BY <3>1, <3>2 DEF Cursor!CursorNext
  <2>2. CASE ~(NeedsResult /\ Yields(n))
    BY <1>2, <2>2 DEF StmtExecute
  <2> QED
    BY <2>1, <2>2
<1>3. CASE StmtDtor
  <2>1. Cursor!Close
    BY <1>3 DEF StmtDtor, Cursor!Close
  <2> QED
    BY <2>1 DEF Cursor!CursorNext
<1>4. ASSUME NEW mode \in {"row", "lazy"}, StmtFetch(mode) PROVE Goal
  BY <1>1, <1>4 DEF StmtFetch, Idle
<1>5. CASE Drain
  BY <1>1, <1>5 DEF Drain
<1>6. ASSUME NEW i \in Params, ParamExecPre(i) PROVE Goal
  BY <1>6 DEF ParamExecPre
<1>7. CASE PrepareFails \/ StmtGetCol
  BY <1>7 DEF PrepareFails, StmtGetCol, Idle
<1>8. ASSUME NEW n \in 0 .. MaxParams, NEW f \in NoResult .. MaxCols, taos_handle_preparer(n, f)
      PROVE  Goal
  BY <1>8 DEF taos_handle_preparer
<1>9. CASE UNCHANGED vars
  BY <1>9 DEF vars
<1> QED
  BY <1>2, <1>3, <1>4, <1>5, <1>6, <1>7, <1>8, <1>9
     DEF Next, Script, Continue, Bind, BindRejected, ExecuteBound, ExecuteArgs, RegisterArg,
         ArgsRegistered, StmtExecuteFails, StmtDescribe, CloseCursor

\* Whatever the script does, it gets the rows of one result set, in order, each
\* once, and none after the destructor.
THEOREM Refinement == Spec => RefinesCursor
<1>1. Init => Cursor!CursorInit
  BY DEF Init, Cursor!CursorInit
<1> QED
  BY <1>1, RefineStep, Invariance, PTL DEF Spec, RefinesCursor, Cursor!CursorSpec
=============================================================================
