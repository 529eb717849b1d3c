--------------------------- MODULE TaosStatement ---------------------------
(***************************************************************************)
(* One prepared statement of the driver: the pdo_taos_stmt that            *)
(* taos_handle_preparer allocates, the callbacks of taos_stmt_methods, and *)
(* the PDO core that calls them.                                           *)
(*                                                                         *)
(* Every callback is one action.  A PDO method that makes several          *)
(* callbacks (PDOStatement::execute, PDOStatement::closeCursor) is the     *)
(* sequence of actions that `call' and `todo' drive; the core itself and   *)
(* the TDengine client library are external and modelled from the use the  *)
(* callbacks make of them.                                                 *)
(***************************************************************************)
EXTENDS Integers, FiniteSets

CONSTANTS
  Kinds,     \* what a script binds: a subset of AllKinds
  MaxParams, \* placeholders of a query, at most
  MaxCols,   \* columns of a result set, at most
  MaxRows,   \* rows of a result set, or rows an execution affects, at most
  MaxExec,   \* successful executions of the statement, at most
  MaxGiven   \* registrations of a parameter, at most

(***************************************************************************)
(* The kinds of bound parameter that the EXEC_PRE hook tells apart:        *)
(*   value  - NULL, a PARAM_TAOS_* type, or a string, integer or double;   *)
(*   lob    - PDO::PARAM_LOB holding a string or a readable stream;        *)
(*   badlob - PDO::PARAM_LOB holding a resource that is no stream;         *)
(*   other  - any other PHP type (a boolean, an array, an object).         *)
(***************************************************************************)
AllKinds == {"value", "lob", "badlob", "other"}

ASSUME KindsAssumption == Kinds \subseteq AllKinds
ASSUME BoundsAssumption ==
  /\ MaxParams \in Nat
  /\ MaxCols \in Nat
  /\ MaxRows \in Nat
  /\ MaxExec \in Nat
  /\ MaxGiven \in Nat

VARIABLES
  phase,        \* the statement's life, or where the process died
  stmt,         \* S->stmt # NULL
  num_params,   \* S->num_params
  fields,       \* what the query yields: NoResult, or the columns it has
  params_given, \* S->params_given
  wired,        \* slots of S->params whose is_null and length are set
  data,         \* what buffer_type and buffer of each slot of S->params hold
  bound_params, \* core: what is registered for each parameter number
  call,         \* core: the PDO method in progress
  todo,         \* core: parameter numbers it has still to visit
  outcome,      \* core: how the last method ended ("end": no more rows)
  error_code,   \* stmt->error_code
  result,       \* S->result: 0 is NULL, e the result of execution number e
  openRes,      \* library: results handed out and not freed
  bound_result, \* S->bound_result # NULL
  buffers,      \* heap blocks hanging off the bound_result arrays
  row_count,    \* stmt->row_count
  column_count, \* stmt->column_count
  columns,      \* core: size of stmt->columns, NoColumns when NULL
  executed,     \* stmt->executed
  total,        \* library: rows of S->result
  pos,          \* library: rows of S->result fetched so far
  row,          \* S->current_data # NULL
  lazy,         \* the script holds a PDO::FETCH_LAZY row
  execs,        \* history: successful taos_stmt_execute calls
  affected,     \* history: rows the last of them affected
  wiped         \* history: S->params has been zeroed by an execution

handleVars == <<phase, stmt, num_params, fields>>
paramVars  == <<params_given, wired, data, bound_params>>
callVars   == <<call, todo, outcome, error_code>>
resultVars == <<result, openRes, bound_result, buffers, row_count, column_count, total>>
coreVars   == <<columns, executed>>
cursorVars == <<pos, row, lazy>>
execVars   == <<execs, affected, wiped>>

vars == <<handleVars, paramVars, callVars, resultVars, coreVars, cursorVars, execVars>>

NoResult  == -1 \* taos_stmt_use_result answers NULL (an INSERT)
NoColumns == -1 \* stmt->columns is NULL
Unbound   == "unbound"

Params  == 0 .. MaxParams - 1
Numbers == 0 .. MaxParams \* parameter numbers a script may name: one too many
Slots   == 0 .. num_params - 1
Registered == {i \in Params : bound_params[i] # Unbound}

TypeOK ==
  /\ phase \in {"new", "live", "failed", "freed", "crash_execute", "crash_get_col"}
  /\ stmt \in BOOLEAN
  /\ num_params \in 0 .. MaxParams
  /\ fields \in NoResult .. MaxCols
  /\ params_given \in Nat
  /\ wired \in SUBSET Params
  /\ data \in [Params -> {"zero", "filled", "stale"}]
  /\ bound_params \in [Params -> Kinds \cup {"value", Unbound}]
  /\ call \in {"idle", "args", "pre", "describe", "drain"}
  /\ todo \in SUBSET Numbers
  /\ outcome \in {"none", "true", "false", "end", "exception"}
  /\ error_code \in {"00000", "HY093", "HY105"}
  /\ result \in Nat
  /\ openRes \in SUBSET Nat
  /\ bound_result \in BOOLEAN
  /\ buffers \in Int
  /\ row_count \in 0 .. MaxRows
  /\ column_count \in 0 .. MaxCols
  /\ columns \in NoColumns .. MaxCols
  /\ executed \in BOOLEAN
  /\ total \in 0 .. MaxRows
  /\ pos \in 0 .. MaxRows
  /\ row \in BOOLEAN
  /\ lazy \in BOOLEAN
  /\ execs \in Nat
  /\ affected \in 0 .. MaxRows
  /\ wiped \in BOOLEAN

Init ==
  /\ phase = "new" /\ stmt = FALSE /\ num_params = 0 /\ fields = NoResult
  /\ params_given = 0
  /\ wired = {}
  /\ data = [i \in Params |-> "zero"]
  /\ bound_params = [i \in Params |-> Unbound]
  /\ call = "idle" /\ todo = {} /\ outcome = "none" /\ error_code = "00000"
  /\ result = 0 /\ openRes = {} /\ bound_result = FALSE /\ buffers = 0
  /\ row_count = 0 /\ column_count = 0 /\ total = 0
  /\ columns = NoColumns /\ executed = FALSE
  /\ pos = 0 /\ row = FALSE /\ lazy = FALSE
  /\ execs = 0 /\ affected = 0 /\ wiped = FALSE

Idle == phase = "live" /\ call = "idle"

\* A core method ends with result r and leaves e in stmt->error_code.
Return(r, e) ==
  /\ call' = "idle"
  /\ todo' = {}
  /\ outcome' = r
  /\ error_code' = e

-----------------------------------------------------------------------------
(***************************************************************************)
(* PDO::prepare and PDO::query: taos_handle_preparer.                      *)
(***************************************************************************)

\* A failing step leaves a statement with driver data but no parameters; the
\* core then destroys it.  taos_stmt_init has not yet run when the placeholders
\* do not parse, and its handle stays in S->stmt when a later step fails.
PrepareFails ==
  /\ phase = "new"
  /\ phase' = "failed"
  /\ \/ stmt' = FALSE /\ Return("false", "HY093")     \* pdo_parse_params
     \/ stmt' = FALSE /\ Return("exception", "00000") \* taos_stmt_init
     \/ stmt' = TRUE  /\ Return("exception", "00000") \* prepare, num_params
  /\ UNCHANGED <<num_params, fields, paramVars, resultVars, coreVars, cursorVars, execVars>>

taos_handle_preparer(n, f) ==
  /\ phase = "new"
  /\ phase' = "live"
  /\ stmt' = TRUE
  /\ num_params' = n
  /\ fields' = f
  /\ Return("true", "00000")
  /\ UNCHANGED <<paramVars, resultVars, coreVars, cursorVars, execVars>>

-----------------------------------------------------------------------------
(***************************************************************************)
(* bindParam and bindValue: the ALLOC event of pdo_taos_stmt_param_hook.   *)
(***************************************************************************)

InRange(i) == i < num_params

\* The SQLSTATE of a number out of range.
SilentRange == "00000"
RangeError == "HY093"

\* What PDO drops with a registration is no longer what the slot points at.
Abandon(d) == IF d = "filled" THEN "stale" ELSE d

AllocForgetsPointers(i) ==
  /\ params_given' = params_given + 1
  /\ wired' = wired
AllocOffByOne(i) ==
  /\ params_given' = params_given + 1
  /\ wired' = wired \cup {i + 1}

\* Only the counter and the pointers into in_null and in_length change: the
\* slot's buffer, its length and its type stay as they were.
AllocSlot(i) ==
  /\ params_given' = params_given + 1
  /\ wired' = wired \cup {i}

ParamAlloc(i, k) ==
  /\ AllocSlot(i)
  /\ data' = [data EXCEPT ![i] = Abandon(@)]
  /\ bound_params' = [bound_params EXCEPT ![i] = k]

Bind(i, k) ==
  /\ Idle
  /\ InRange(i)
  /\ params_given < MaxGiven
  /\ ParamAlloc(i, k)
  /\ Return("true", error_code)
  /\ UNCHANGED <<handleVars, resultVars, coreVars, cursorVars, execVars>>

BindRejected(i) ==
  /\ Idle
  /\ ~InRange(i)
  /\ Return("false", RangeError)
  /\ UNCHANGED <<handleVars, paramVars, resultVars, coreVars, cursorVars, execVars>>

-----------------------------------------------------------------------------
(***************************************************************************)
(* PDOStatement::execute: the core registers the argument array, raises    *)
(* EXEC_PRE for every registered parameter, calls pdo_taos_stmt_execute    *)
(* and, the first time, pdo_taos_stmt_describe.                            *)
(***************************************************************************)

\* execute() uses what bindParam and bindValue have registered.
ExecuteBound ==
  /\ Idle
  /\ execs < MaxExec
  /\ call' = "pre"
  /\ todo' = Registered
  /\ outcome' = "none"
  /\ error_code' = "00000"
  /\ UNCHANGED <<handleVars, paramVars, resultVars, coreVars, cursorVars, execVars>>

\* execute([...]) drops every registration first.
ExecuteArgs(A) ==
  /\ Idle
  /\ execs < MaxExec
  /\ params_given + Cardinality(A) <= MaxGiven
  /\ bound_params' = [i \in Params |-> Unbound]
  /\ data' = [i \in Params |-> Abandon(data[i])]
  /\ call' = "args"
  /\ todo' = A
  /\ outcome' = "none"
  /\ error_code' = "00000"
  /\ UNCHANGED <<handleVars, params_given, wired, resultVars, coreVars, cursorVars, execVars>>

\* ... registers each element as a string or as NULL ...
RegisterArg(i) ==
  /\ phase = "live" /\ call = "args"
  /\ i \in todo
  /\ IF InRange(i)
       THEN /\ ParamAlloc(i, "value")
            /\ todo' = todo \ {i}
            /\ UNCHANGED <<call, outcome, error_code>>
       ELSE /\ Return("false", RangeError)
            /\ UNCHANGED paramVars
  /\ UNCHANGED <<handleVars, resultVars, coreVars, cursorVars, execVars>>

\* ... and goes on as execute() does.
ArgsRegistered ==
  /\ phase = "live" /\ call = "args"
  /\ todo = {}
  /\ call' = "pre"
  /\ todo' = Registered
  /\ UNCHANGED <<outcome, error_code>>
  /\ UNCHANGED <<handleVars, paramVars, resultVars, coreVars, cursorVars, execVars>>

TooFew == params_given < num_params

\* The buffer type and pointer EXEC_PRE gives a slot that holds d; the cases of
\* numbers write no more than these two, those of text the lengths too.  The
\* PARAM_LOB case reads the stream into the PHP variable and leaves the switch
\* without filling the slot.
FillOnce(k, d) == IF k = "value" /\ d = "zero" THEN "filled" ELSE d
Fill(k, d) == IF k = "value" THEN "filled" ELSE d

\* The SQLSTATE and the verdict of the hook for a parameter of kind k.
PreAccepts(k) == k \in {"value", "lob"}
PreError(k)   == IF k = "badlob" THEN "HY105" ELSE "00000"

\* The EXEC_PRE event of pdo_taos_stmt_param_hook.  Its first write goes through
\* the slot's is_null pointer.
ParamExecPre(i) ==
  /\ phase = "live" /\ call = "pre"
  /\ i \in todo
  /\ \/ /\ TooFew
        /\ Return("false", "HY093")
        /\ UNCHANGED <<phase, data>>
     \/ /\ ~TooFew
        /\ i \notin wired
        /\ phase' = "crash_execute"
        /\ UNCHANGED <<callVars, data>>
     \/ /\ ~TooFew
        /\ i \in wired
        /\ data' = [data EXCEPT ![i] = Fill(bound_params[i], @)]
        /\ IF PreAccepts(bound_params[i])
             THEN todo' = todo \ {i} /\ UNCHANGED <<call, outcome, error_code>>
             ELSE Return("false", PreError(bound_params[i]))
        /\ UNCHANGED phase
  /\ UNCHANGED <<stmt, num_params, fields, params_given, wired, bound_params>>
  /\ UNCHANGED <<resultVars, coreVars, cursorVars, execVars>>

\* Once the parameters are bound the array is zeroed, is_null and length with it.
ClearSlotsAndCount ==
  /\ wired' = {}
  /\ data' = [i \in Params |-> "zero"]
  /\ params_given' = 0
  /\ wiped' = TRUE
ClearSlots ==
  /\ wired' = {}
  /\ data' = [i \in Params |-> "zero"]
  /\ params_given' = params_given
  /\ wiped' = (wiped \/ num_params > 0)

NeedsResultAlways == TRUE
NeedsResult == result = 0

YieldsNonEmpty(n) == fields # NoResult /\ n > 0
Yields(n) == fields # NoResult

\* taos_stmt_use_result and the arrays that describe its columns.  The blocks of
\* earlier arrays would be freed with the new column count.
UseResult(e, n) ==
  /\ result' = e
  /\ openRes' = openRes \cup {e}
  /\ row_count' = n
  /\ column_count' = fields
  /\ buffers' = (buffers - IF bound_result THEN fields ELSE 0) + fields
  /\ bound_result' = TRUE
  /\ total' = (IF fields > 0 THEN n ELSE 0)
  /\ pos' = 0

\* pdo_taos_stmt_execute and pdo_pdo_taos_stmt_execute_prepared.  n rows are
\* affected, or are in the result set.
StmtExecute(n) ==
  /\ phase = "live" /\ call = "pre"
  /\ todo = {}
  /\ ClearSlots
  /\ execs' = execs + 1
  /\ affected' = n
  /\ IF NeedsResult /\ Yields(n)
       THEN UseResult(execs + 1, n)
       ELSE UNCHANGED <<resultVars, pos>>
  /\ IF ~executed /\ columns = NoColumns
       THEN call' = "describe" /\ UNCHANGED <<todo, outcome, error_code, executed>>
       ELSE Return("true", error_code) /\ executed' = TRUE
  /\ UNCHANGED <<handleVars, bound_params, columns, row, lazy>>

StmtExecuteFails ==
  /\ phase = "live" /\ call = "pre"
  /\ todo = {}
  /\ ClearSlots
  /\ Return("exception", error_code)
  /\ UNCHANGED <<handleVars, bound_params, resultVars, coreVars, cursorVars, execs, affected>>

\* pdo_taos_stmt_describe for every column: the first call names them all.
StmtDescribe ==
  /\ phase = "live" /\ call = "describe"
  /\ columns' = column_count
  /\ executed' = TRUE
  /\ Return(IF column_count > 0 /\ result = 0 THEN "false" ELSE "true", error_code)
  /\ UNCHANGED <<handleVars, paramVars, resultVars, cursorVars, execVars>>

-----------------------------------------------------------------------------
(***************************************************************************)
(* Rows: fetch, get_col, closeCursor.                                      *)
(***************************************************************************)

DrainSticks ==
  /\ row' = (pos < total)
  /\ UNCHANGED pos

\* pdo_taos_stmt_fetch: taos_fetch_row of S->result, NULL past the last row.
NextRow ==
  /\ row' = (pos < total)
  /\ pos' = (IF pos < total THEN pos + 1 ELSE pos)

\* get_col of every column follows a fetched row at once, except for a lazy row:
\* the script keeps the object and get_col runs when it reads a property.
StmtFetch(mode) ==
  /\ Idle
  /\ executed
  /\ NextRow
  /\ lazy' = (lazy \/ (mode = "lazy" /\ row'))
  /\ Return(IF row' THEN "true" ELSE "end", "00000")
  /\ UNCHANGED <<handleVars, paramVars, resultVars, coreVars, execVars>>

\* pdo_taos_stmt_get_col from a lazy row.  The row pointer is tested only on the
\* path without a prepared handle.
StmtGetCol ==
  /\ Idle
  /\ lazy
  /\ result # 0
  /\ column_count > 0
  /\ ~row
  /\ phase' = "crash_get_col"
  /\ UNCHANGED <<stmt, num_params, fields, paramVars, callVars, resultVars>>
  /\ UNCHANGED <<coreVars, cursorVars, execVars>>

\* The driver has no cursor_closer: the core fetches until there is no row.
CloseCursor ==
  /\ Idle
  /\ call' = "drain"
  /\ UNCHANGED <<todo, outcome, error_code>>
  /\ UNCHANGED <<handleVars, paramVars, resultVars, coreVars, cursorVars, execVars>>

Drain ==
  /\ phase = "live" /\ call = "drain"
  /\ NextRow
  /\ IF row'
       THEN UNCHANGED <<callVars, executed>>
       ELSE executed' = FALSE /\ Return("true", error_code)
  /\ UNCHANGED <<handleVars, paramVars, resultVars, columns, lazy, execVars>>

-----------------------------------------------------------------------------
(***************************************************************************)
(* The last reference goes: pdo_taos_stmt_dtor.                            *)
(***************************************************************************)

FreeBuffersPerParam == buffers' = buffers - (IF bound_result THEN num_params ELSE 0)
FreeBuffers == buffers' = buffers - (IF bound_result THEN column_count ELSE 0)

StmtDtor ==
  /\ phase \in {"live", "failed"} /\ call = "idle"
  /\ phase' = "freed"
  /\ openRes' = openRes \ {result}
  /\ result' = 0
  /\ stmt' = FALSE
  /\ FreeBuffers
  /\ bound_result' = FALSE
  /\ wired' = {}
  /\ data' = [i \in Params |-> "zero"]
  /\ bound_params' = [i \in Params |-> Unbound]
  /\ row' = FALSE
  /\ lazy' = FALSE
  /\ UNCHANGED <<num_params, fields, params_given, callVars>>
  /\ UNCHANGED <<row_count, column_count, total, coreVars, pos, execVars>>

-----------------------------------------------------------------------------
Script ==
  \/ PrepareFails
  \/ \E n \in 0 .. MaxParams, f \in NoResult .. MaxCols : taos_handle_preparer(n, f)
  \/ \E i \in Params, k \in Kinds : Bind(i, k)
  \/ \E i \in Numbers : BindRejected(i)
  \/ ExecuteBound
  \/ \E A \in SUBSET Numbers : ExecuteArgs(A)
  \/ \E mode \in {"row", "lazy"} : StmtFetch(mode)
  \/ StmtGetCol
  \/ CloseCursor
  \/ StmtDtor

\* The rest of a method once the script has called it.
Continue ==
  \/ \E i \in Numbers : RegisterArg(i)
  \/ ArgsRegistered
  \/ \E i \in Params : ParamExecPre(i)
  \/ \E n \in 0 .. MaxRows : StmtExecute(n)
  \/ StmtExecuteFails
  \/ StmtDescribe
  \/ Drain

Next == Script \/ Continue

Spec == Init /\ [][Next]_vars

\* One PHP thread runs a method from its call to its return; what the script
\* calls next, and whether it calls anything, is up to the script.
FairSpec == Spec /\ WF_vars(Continue)

-----------------------------------------------------------------------------
(***************************************************************************)
(* Safety.                                                                 *)
(***************************************************************************)

\* EXEC_PRE does not answer "too few" (HY093) once every placeholder has a
\* registration, whatever was registered, dropped, rejected or executed before:
\* params_given only grows, and never falls behind what is registered.
NeverRejectsComplete ==
  [][call = "pre" /\ Registered = Slots /\ call' = "idle" => error_code' # "HY093"]_vars

\* The hook's write through is_null and the column read through current_data hit
\* NULL in one situation each: the parameter was registered before an execution
\* that zeroed S->params, or the lazy row was read after its cursor ran off the
\* end.  A first execution and a row just fetched are safe.
CrashesExplained ==
  /\ phase = "crash_execute" => wiped
  /\ phase = "crash_get_col" => pos = total /\ pos > 0

\* When taos_stmt_bind_param is about to read S->params, the slot of every
\* parameter that is not a LOB holds the value the script has registered now,
\* never the leftover of an abandoned execution.
FreshWhenTyped ==
  call = "pre" /\ phase = "live" =>
    \A i \in Registered \ todo : bound_params[i] = "value" => data[i] = "filled"

\* The library's result sets and the statement's pointer agree: nothing is open
\* that S->result has lost, S->result points at nothing already freed, and
\* bound_result exists only beside a result.
OneResult ==
  /\ openRes = IF result = 0 THEN {} ELSE {result}
  /\ bound_result => result # 0

\* The destructor, from whatever point the statement reached, leaves neither a
\* result set nor a prepared handle nor a column buffer.
NothingLeftBehind ==
  phase = "freed" => openRes = {} /\ buffers = 0 /\ ~stmt

\* The core allocates stmt->columns once, at the first execution; get_col and
\* describe index it with the driver's column_count.  The two never drift apart
\* over re-execution and closeCursor.
DescribedMatches ==
  executed => columns = column_count

\* A method that answers false leaves an SQLSTATE saying why; the one exception
\* is a bound value of a PHP type the hook does not know.
FalseIsExplained ==
  phase = "live" /\ call = "idle" /\ outcome = "false" /\ error_code = "00000" =>
    \E i \in Registered : bound_params[i] = "other"

\* execute([...]) is the safe way to execute a statement again: EXEC_PRE finds the
\* pointers of every slot it visits, from the registration of the array to the
\* end of the method, and does not write through NULL.
ArgsArrayIsSafe ==
  [][/\ call = "args" /\ call' = "pre" => Registered' \subseteq wired'
     /\ call = "pre" /\ phase = "live" /\ Registered \subseteq wired =>
          /\ phase' # "crash_execute"
          /\ call' = "pre" => Registered' \subseteq wired']_vars

\* The callbacks that the method in progress can still make.
Outstanding ==
  IF phase # "live" \/ call = "idle" THEN 0
  ELSE IF call = "args" THEN Cardinality(todo) + MaxParams + 3
  ELSE IF call = "pre" THEN Cardinality(todo) + 2
  ELSE IF call = "describe" THEN 1
  ELSE total - pos + 1

\* Every callback gets the method nearer to its return: execute() visits each
\* parameter at most twice, and the loop that closeCursor runs over the fetch
\* callback asks for no more rows than are left, and one.
MethodsProgress == [][Continue => Outstanding' \in Nat /\ Outstanding' < Outstanding]_vars

(***************************************************************************)
(* The inductive invariant behind the safety properties.                   *)
(***************************************************************************)

\* A statement that is not prepared has no parameters; registrations lie within
\* the query's parameters and were counted.
GivenInv ==
  /\ phase = "new" => num_params = 0
  /\ Registered \subseteq Slots
  /\ Cardinality(Registered) <= params_given

\* A registered slot loses its pointers only to an execution; execute([...]) has
\* registered afresh what is registered.
WiredInv ==
  /\ Registered \ wired # {} => wiped
  /\ call = "args" => Registered \subseteq wired

\* Only a prepared statement runs methods.  execute() in progress: its error code
\* is clean, what it still visits is registered, what it has visited is filled,
\* and the bound leaves it room.
PreInv ==
  /\ call # "idle" => phase \in {"live", "crash_execute"}
  /\ call \in {"args", "pre", "describe"} => error_code = "00000"
  /\ call \in {"args", "pre"} => execs < MaxExec
  /\ call = "pre" =>
       /\ todo \subseteq Registered
       /\ \A i \in Registered \ todo : bound_params[i] = "value" => data[i] = "filled"

\* The cursor stays within its result set; a lazy row implies a fetched row.
CursorInv ==
  /\ pos <= total
  /\ lazy => pos > 0
  /\ lazy /\ ~row => pos = total
  /\ result = 0 /\ phase # "freed" => total = 0 /\ column_count = 0

\* The column buffers are exactly those of the one result.
BuffersInv == buffers = IF bound_result THEN column_count ELSE 0

\* Once columns are described the result they describe is there to stay.
DescribedInv ==
  /\ phase = "new" => columns = NoColumns
  /\ columns # NoColumns => columns = column_count
  /\ executed => columns # NoColumns
  /\ phase = "live" /\ (columns # NoColumns \/ call = "describe") =>
       fields = NoResult \/ result # 0

\* Every part the safety properties need, in a form each callback preserves.
IInv ==
  /\ TypeOK
  /\ GivenInv
  /\ WiredInv
  /\ PreInv
  /\ CursorInv
  /\ OneResult
  /\ BuffersInv
  /\ DescribedInv
  /\ CrashesExplained
  /\ NothingLeftBehind
  /\ FalseIsExplained

(***************************************************************************)
(* Liveness.                                                               *)
(***************************************************************************)

\* Every method of the statement returns to the script, or the process died in
\* it; in particular closeCursor's loop over the fetch callback ends.
CallsReturn ==
  call # "idle" ~> (call = "idle" \/ phase = "crash_execute")

(***************************************************************************)
(* Refinement: the statement is a one-shot cursor.                         *)
(***************************************************************************)
Cursor == INSTANCE OneShotCursor WITH
  opened <- result, size <- total, delivered <- pos, closed <- phase = "freed"

\* Rows come from one result set, in order and one at a time, none after the
\* destructor, under every interleaving of execute, fetch and closeCursor.
RefinesCursor == Cursor!CursorSpec

(***************************************************************************)
(* What the documentation says and the code does not do.                   *)
(***************************************************************************)

\* README.md:220: execute returns true or false.
ExecuteReturns == phase # "crash_execute"

\* README.md:222: rowCount is the number of rows the execution affected.
RowCountIsCurrent ==
  call = "idle" /\ phase = "live" /\ result # 0 => row_count = affected

\* taos_statement.c:184: with too few parameters bound the hook stops execute.
TooFewRejected ==
  call = "pre" /\ phase = "live" /\ todo = {} /\ Registered # {} => Registered = Slots

\* taos_statement.c:532: execute starts the query, so the rows fetched after it
\* are those of the latest execution.
ResultIsCurrent ==
  call = "idle" /\ phase = "live" /\ result # 0 => result = execs

=============================================================================
