# A TLA+ model of the PDO driver for TDengine

The driver (`taos_driver.c`, `taos_statement.c`, `pdo_taos.c`) is a set of
callbacks. The PDO core of PHP calls them on behalf of a script; they call the
TDengine client library. There are four copies of it, one per PHP generation:
`70000`, `70300`, `80000` and `80100`.

Where the copies differ, the model has all of them: which one a build compiles,
`get_col`, `describe`, the row buffers, the parameter hook and the quoter. The
state machines of the statement and of the connection are written from `80100`.
Their control is that of the older copies too, whose differences are casts,
signatures and the layout of the result buffers. `map` in `PROJECT.json` names
the lines of each copy for what is modelled per copy, and those of `80100`
otherwise.

## Inventory

| Component | State | Operations | What makes it correct |
|---|---|---|---|
| Prepared statement, `taos_statement.c` | `pdo_taos_stmt`: library handle, `params` with `is_null`/`length` pointers, `params_given`, `result`, `bound_result`, `current_data`; in `pdo_stmt_t`: `row_count`, `column_count`, `columns`, `executed`, `error_code` | `param_hook` (ALLOC, EXEC_PRE), `execute`, `describe`, `fetch`, `get_col`, `get_column_meta`, `dtor` | pointers valid when used; what is bound is what was registered; one result, freed once; buffers freed by the count they were made with; errors explained; loops end |
| Connection, `taos_driver.c` | `pdo_taos_db_handle`: `server`, `einfo`; `dbh->error_code`, `is_persistent` | factory, closer, preparer, doer, quoter, attributes, `fetch_err`, `in_transaction` | errors recorded where they are read; messages valid and freed as allocated; statements closed before their connection |
| Module, `pdo_taos.c` | `taos_inited`, registered constants | MINIT, MSHUTDOWN, MINFO | library cleaned up once, after every connection |
| Column values, `get_col` | the row buffers, the time zone of the process | one conversion per column type | a script reads what the library stored, over the whole range of each type |
| Parameters and error codes, hook, `php_pdo_taos_int.h`, `pdo_taos.c` | one `TAOS_MULTI_BIND` per parameter, `in_null`, `einfo` | the `PARAM_TAOS_*` table, EXEC_PRE, `pdo_taos_convert_errno` | the library reads what the script bound; every write inside its block; codes survive |
| Quoter | local variables of `taos_handle_quoter` | its two loops | every quote doubled, the block filled exactly |
| Version selection, `src/taos_*.c` | none | two ladders of `#if` | the copy fits the interface of the PHP it is built for |
| Build files, vendored headers | none | - | the macros the driver uses are modelled, the rest has no behaviour here |

How they interact. One PHP thread runs a script. `PDO::prepare` makes the core
call the preparer; `bindParam`/`bindValue` raise ALLOC in the hook;
`PDOStatement::execute` registers its argument array (ALLOC again), raises
EXEC_PRE for every registered parameter, calls `execute` and, the first time,
`describe` for each column; `fetch` calls `fetch` and then `get_col` for each
column, except that a `PDO::FETCH_LAZY` row calls `get_col` when a property is
read; `closeCursor` calls `fetch` until it fails, as the driver gives no
`cursor_closer`. A statement keeps its connection object alive. Persistent
handles survive the request; the memory of a request does not.

What is hard. There is no concurrency inside a process. The difficulty is in
long legal call sequences: re-execution, registration of the same parameter
twice, an execution that stops half way, rows read after their cursor moved,
errors recorded on one object and read from another, memory of one lifetime
held by an object of another, and the order in which objects die. The list of
hazards in `PROJECT.json` has each of them at its line.

## Modules

**`TaosStatement`** - one prepared statement from `PDO::prepare` to its
destructor. Each callback is an action; `call` and `todo` are the position of
the core inside a PDO method, so a method that calls the driver several times is
several steps and may stop between them.

* `wired` are the slots of `S->params` whose `is_null` and `length` are set,
  `data` what their buffer type and buffer pointer hold (`zero` after `memset`,
  `filled` with the registered value, `stale` when the value they point at has
  been dropped). The hook's cases of text set the lengths as well, those of
  numbers leave them as they were; the library knows how long a number is.
* `result` is the number of the execution whose result `S->result` is (0 for
  NULL); `openRes` are the results the library has handed out and not got back.
* `buffers` counts the column buffers that are allocated.
* `crash_execute` is the write through `*b->is_null` of a slot that is not
  wired, `crash_get_col` the read of `row[colno]` with a NULL row: the process
  ends there.
* Bounded by `MaxParams`, `MaxCols`, `MaxRows`, `MaxExec` (executions) and
  `MaxGiven` (registrations). The last two are guards of the core's steps.

An execution that fails raises an exception through the connection, and leaves
the statement's own SQLSTATE alone: the outcome is `exception`. A `false` is
what the core answers in silent error mode. `S->stmt` is set in every statement
the preparer accepts, so the branches for a statement without a handle
(`execute` lines 133-144, `get_col` lines 374-378 and 492-497) are never taken
and have no action.

**`OneShotCursor`** - what the statement amounts to for the reader of rows: at
most one result set for life, its rows in order, once each, none after the
destructor. `TaosStatement!RefinesCursor` is the refinement, with
`opened <- result`, `size <- total`, `delivered <- pos`.

**`TaosConnection`** - the handles of a process over several requests, with
`einfo` and the SQLSTATE of each, the statements that keep them in use, the
teardown of a request by reference count or, when a cycle keeps objects alive,
in any order, and module shutdown. PHP may free a cycle at the end of the request
or, by its collector, while the script runs; the script waits meanwhile
(`Collecting`). `errmsg` says which memory the message
is in: `request` while the request that `estrdup`ed it runs, `released` once it
has ended. `crash_free` is `pefree(errmsg, 1)` of such memory under PHP's own
allocator. `Inquire` stands for the quoter and the attributes, which only clear
the SQLSTATE: `emulate_prepares`, the one thing they set, is read by nobody.
`crash_commit` is the call of a `commit` that `taos_methods` does not have,
after `in_transaction` has said that there is something to commit. A
statement's inside is left out: what matters here is that it exists and that
its errors go to the connection.

**`HandleLife`** - what the connections amount to for the script: a handle is
opened without an error, is used only while open and keeps the code of its last
error until it is closed; the library runs before the first handle is opened and
is stopped after the last is closed. `TaosConnection!RefinesLife` is the
refinement, with `opened <- server` and `last` the `errcode` of the connected
handles.

**`TaosVersions`** - the two ladders of `#if` (`StatementCopy`, `DriverCopy`)
and the interface that a PHP of a given version calls (`ZvalInterface`,
external). The other modules take `build` from it, so that a copy compiled for
the wrong interface shows as wrong values there.

**`TaosTypes`** - the column types, and their integers in two's complement of
any width: `Half[t]` is half the range of type `t`.

**`TaosValues`** - from column to script. `Execute` makes the row buffer,
`Describe` and `FetchRow` follow, `FetchValue` is `get_col` of the copy in use
and what the core makes of its answer. A value is what the conversion does to a
number, to the split of a timestamp into seconds and fraction, and to the length
of a text; characters are left out. A FLOAT is rounded to the five decimals of
`%.5f`, a DOUBLE to the nine of `%.9lf` (`Rounded`, `Grain`); their numbers are
counted in parts of 10^-9, `Fine` of which make one, so that every finite double
is a whole number of them. Infinities, NaN and the sign of a zero are left out.
The length of a number as text is not tied to the number, but for the point and
the decimals of the two (`Decimals`). `FetchValueSmashes` is the process not
surviving a `sprintf` into `value[S->out_length[colno]]` that is too short; it
may also survive it. `Options` is the zone that a DSN gives the whole process.

**`TaosParams`** - from script to library, one parameter at a time: `Alloc`
(bindParam, bindValue), `Assign` (a variable bound by reference gets another
value before the execution), `ExecPre` (null flag, then slot),
`execute_prepared` (what the library reads of the slot, which is then zeroed).
`slot.where` is what `b->buffer` points at: the eight bytes of the PHP value, a
float of its own, to which the double was narrowed (`AsFloat`), the characters
of a string, or an address made of a value that is no string. `flag` is the byte
offset of `&S->in_null[paramno]`, `owned` the memory the statement has
allocated, `errcode` what is left of the library's answer. The order in which
several parameters are registered, registered again and filled is
`TaosStatement`'s.

**`TaosQuoter`** - `taos_handle_quoter` as a state machine, one action per turn
of a loop: it counts quotes, allocates, copies the chunks between quotes, copies
the remainder. The loops use `strchr` and `strncpy`, which stop at a NUL, while
the lengths are those of the PHP string, which does not; `qcount` is an int and
wraps at `HalfCount`.

**`TaosRoundTrip`** - a script writes a row and reads it back: `TaosParams`,
extended, is the writer, `TaosValues`, instantiated, the reader, and `table` the
row in between. The library's store is external (`ColumnsFor`, `StoredAs`): a
column takes values of its own type, keeps the numbers it has and texts at their
length, NULL as NULL; of anything else the model lets it keep what it likes. The
library may also refuse the row (`InsertFails`). The table is that of the
parameter in hand, and is read once the statement is freed; the two do not share
memory, so nothing is lost by reading no earlier.

**`Taos*Proofs`** - theorems about the module of that name. The quoter has two:
`TaosQuoterProofs` for sizes and ends, `TaosQuotingProofs` for the text.
**`MCTaos*`** - the instances for TLC.

How they fit. `TaosStatement` has the order of the events, `TaosParams` and
`TaosValues` the data that one of them moves, `TaosConnection` what outlives a
statement. `TaosRoundTrip` joins `TaosParams` and `TaosValues` through the
table. Else the modules share the constants of `TaosVersions` and `TaosTypes`,
not variables: the data of one parameter or column does not influence the order
of calls but for the answer of EXEC_PRE, which `TaosStatement` therefore leaves
open where it depends on the data.

### What is taken from outside the repository

The PDO core: `bindParam` registers by number; a second registration replaces
the first; `execute([...])` drops all registrations first; EXEC_PRE visits
registered parameters and stops at the first refusal; columns are allocated
once, when `stmt->columns` is NULL at a first execution; `closeCursor` resets
`executed`; a persistent handle is not closed with its object, and is closed
before MSHUTDOWN runs; PDO's own types convert the value at registration; before
PHP 8.1 the core copies what `*ptr` and `*len` say once `get_col` has returned.

The library: a call returns; `taos_stmt_use_result` answers NULL or the result
of the last execution, with the same columns for the same statement; an open
result is not changed by executing its statement again; `taos_fetch_row(NULL)`
is NULL; of a slot it reads as many bytes as the type has;
`taos_options(TSDB_OPTION_TIMEZONE)` sets the zone of the process. The orders of
arguments and of registrations are free.

PHP and the platform: `zend_long` and `time_t` have 64 bits, integers are little
endian and in two's complement, an `int` that overflows wraps, years have four
digits, PHP's allocator serves multiples of eight bytes (`InNullBlock`), `sprintf`
rounds to the nearest last place, a tie to the even one (no property depends on
which way a tie goes), and `(float)` makes a double of a double. PHP frees the
objects of a cycle in any order and runs no code of the script in between. A
process has finitely many handles and statements.
`TaosStatement` takes the null flags of different parameters to be distinct
memory; how far behind their block they go is `TaosParams`' subject.

## Runs

| Run | Instance | Shows |
|---|---|---|
| `Statement` | all kinds of parameter, 2 parameters, 2 columns, 2 rows, 2 executions, 4 registrations, fairness of the methods | type and safety invariants, the inductive invariant, `NeverRejectsComplete`, `ArgsArrayIsSafe`, the progress and the return of every method, the refinement |
| `StatementReexecution` | violation | executing again without binding again dies at `*b->is_null` |
| `StatementRowCount` | violation | `rowCount()` stays that of the first execution |
| `StatementTooFew` | violation | one placeholder bound twice passes for two |
| `StatementOldResult` | violation | a re-executed query reads the first result set |
| `Connection` | 2 handles, 1 statement, 1 code, 2 requests, fairness of teardown | errors, persistent handles, closing order, progress and end of teardown, library start and end, the inductive invariant, the refinement |
| `ConnectionExec` | violation | `PDO::exec` throws where the README says it answers -1 |
| `Values` | 7 builds, integers of 4, 8 and 10 values, 3 precisions, 23 fractional numbers, 2 zones | every column type through each copy of `get_col` |
| `Params` | 2 builds, 3 parameters, integers of 2 and 4 values, error numbers of 4 values | every declared type with every type of value, null flags, memory, error codes |
| `ParamsFlags` | violation | the null flag of a third parameter is written behind its block |
| `Quoter` | 5 builds, all texts of up to 5 characters, a counter of 8 values, fairness | length, content, progress and end of the quoter |
| `RoundTrip` | the oldest and the newest copy, 1 parameter, integers of 2 and 4 values, no other zone | what is bound is what is read |

Why the bounds suffice. *Statement:* two parameters give an unregistered one
beside a registered one and, with number 2, one out of range. Four registrations
allow a parameter to be registered again after an execution of both. Two
executions are a first one and a re-execution, after success, failure or
`closeCursor`. Two rows distinguish first, last and past the last; two columns
differ from the number of parameters in both directions. *Connection:* two
requests let a persistent handle carry state from one to the next; two handles
tell an error on one from an error on the other; one statement suffices since
the error paths of two statements of one handle are those of one statement
failing twice. *Values:* the builds are the first and the last of each copy; the
three half ranges, 2, 4 and 5, have both ends, zero and both signs, and differ,
so a value read at another type's width shows; the instants are zero and one
second of each precision, one tick more and less, on both sides of 1970; the
fractional numbers are halves of the last place of a FLOAT and of a DOUBLE, odd
and even, with a part more and less, of both signs, whole places, and 10^-7; three
characters are the longest variable-length value, one below `HalfLen`, so the
length in front of it is tried up to its largest value. *Params:* the null flag
of a third parameter is the first that can leave its block; an integer of one
bit in one of two bits is one that is narrowed; error answers are a negative
and a positive one. The four copies have the same code here, so the oldest and
the newest suffice. *Quoter:* five characters hold two quotes, a NUL before,
between or behind them, and a remainder; five quotes make the counter, which
goes to 3, overflow. *RoundTrip:* writer and reader have their own runs; what is
new is that a value passes both, which one parameter and one row show. The two
copies are one that copies a number out of a dead frame and one that does not;
integers of one and of two bits, signed and unsigned, tell a value read at
another width or sign from the one that was bound; of the three doubles two are one
float, which rounds down where the larger double would round up. Its timestamps
are few enough to lie within one second of 1970 on either side: whole seconds are
in `Values`, and the theorem has every instant.

`CHECK_DEADLOCK` is off in all runs: a freed statement, a dead process, a process
after module shutdown and a script that quotes no more do nothing.

Fairness. `TaosStatement!FairSpec` has weak fairness of `Continue`, the steps
inside a PDO method: one thread runs a method to its end, and the library's
calls return. `TaosQuoter!FairSpec` has it of the steps inside the quoter, for
the same reason. Nothing is assumed of the script. `TaosConnection!FairSpec` has
weak fairness of teardown once the request ends: PHP always runs it.

What the properties say:

* `NeverRejectsComplete`, `TooFewRejected`: the counter errs in one direction
  only. A complete registration is never refused; an incomplete one may pass.
* `CrashesExplained`: each null dereference has one cause.
* `FreshWhenTyped`: the library reads no leftovers for typed parameters. A
  `PDO::PARAM_LOB` parameter is the exception: the hook reads the stream and
  does not fill the slot.
* `ArgsArrayIsSafe`: the way of re-executing that does not die. An argument
  array registers its parameters anew, EXEC_PRE then finds every pointer set, and
  keeps finding them set to its end.
* `MethodsProgress`, `QuoterProgress`: each callback inside a PDO method, and
  each turn of the quoter's loops, lessens a natural number (`Outstanding`,
  `ToGo`). So a method makes at most two callbacks for each parameter and three
  more, or one for each remaining row and one more; the quoter at most two
  turns for each character and three. `CallsReturn` and `QuoteReturns` say with
  fairness what these say of the steps themselves.
* `OneResult`, `NothingLeftBehind`, `DescribedMatches`: pointer, library and
  core agree on the result, its buffers and its columns.
* `FalseIsExplained`: only an unknown PHP type is refused without an SQLSTATE.
* `InfoReadable`: the messages that `errorInfo` reads are valid on handles of one
  request. A persistent handle keeps a message whose memory has gone.
* `StmtsClosedFirst`, `CleanupExplained`: the order of destruction, with the two
  ways it goes wrong named. That no connection outlives the module
  (`NoConnectionLeft`) is a theorem and part of `RefinesLife`.
* `TeardownProgress`, `RequestsEnd`: whatever the order in which PHP frees
  objects, each step takes one handle or statement away or ends the request
  (`Undone`), and none of them hands a message of the request to another
  allocator, as the handles that die with a request are not persistent. A second
  error on a persistent handle does, and so does closing one.
* `RefinesLife`: a statement's error goes to a connection that is still open,
  also in a later request of a persistent handle, and a handle that is connected
  again starts without it.
* `FetchFaithful`: a script reads what the library stored, on every PHP.
  `Excused` names the cells for which it may not: a DECIMAL, for which `get_col`
  has no case, reads as NULL; an instant before 1970 that is no whole second is
  split towards zero; a FLOAT with more than five decimals or a DOUBLE with more
  than nine is rounded, 10^-7 in a FLOAT to 0.00000; before 8.1 numbers and
  timestamps are copied out of an array of a function that has returned. Its
  second part, `Recoverable`, bounds what is lost of a cell that is printed: no
  tick of an instant, and at most half of the last place of a number.
* `OverrunExplained`: which types can be printed longer than their column is
  wide, and that only a text that long does it. From 8.1 on the integers below 64
  bits are no longer among them. A BOOL, a FLOAT and a DOUBLE that are not NULL
  overrun on every PHP: the shortest texts of the last two, `0.00000` and
  `0.000000000`, are longer than their four and eight bytes.
* `ZoneAsAsked`: timestamps are shown in the zone of their connection, unless
  some DSN of the process, of a connection that failed included, named another.
* `TakenAsBound`: for each `PARAM_TAOS_*` type and each value that type is for,
  the library reads the value that was bound. `CrashExplained`: EXEC_PRE dies
  only on a value declared as text that is no string, which a variable bound by
  reference can become after registration.
* `ReadsBack`: a value bound as a type it fits comes back as that value: an
  integer from the whole range of its type, a timestamp to the tick of its
  precision, a double to half of the last place that its column is printed with,
  and as the float it was narrowed to in a FLOAT column, text at its length, NULL
  as NULL. The two conversions were written apart and have to agree on width, sign
  and tick. Before 8.1 all but text may
  come back as what is left in a frame. A BOOL column is told about 0 and 1 only.
* `FlagsInside`, `FlagsInBlock`: `in_null` has a byte for each parameter and is
  indexed as an array of ints. The flags of the first two parameters lie in the
  block all the same, whatever their number. That every flag does is false from
  three parameters on: the example at `README.md:200-209` of the repository, which
  binds ten, writes six flags behind a block of sixteen bytes.
* `LeaksExplained`: what is left of a statement is its float cells and its
  rewritten query, and nothing when it was never prepared.
* `CodeReported`: a failure is reported with a positive code, from which the
  library's answer can be told but for its highest bit.
* `QuotedFits`, `QuotedRight`, `QuoteReturns`: what the first loop counts is what
  the second one writes; the answer is the C string with its quotes doubled, and
  text behind a NUL becomes NULs; both loops end.

## Proofs

Each proof module holds for any value of the constants that satisfies the named
assumptions of its module; TLC evaluates them in the runs. The safety properties
are not inductive by themselves; each `IInv` adds the reasons, each action has a
lemma or a step of its own, and the temporal theorems follow from that by `PTL`.
TLC checks every `IInv` in a run, and every action property.

Every invariant and every action property of the passing runs is a theorem, and
so are both refinements. What is left to TLC is liveness.

`TaosStatementProofs` - every safety invariant of the `Statement` run,
`NeverRejectsComplete`, `ArgsArrayIsSafe`, `MethodsProgress` and the refinement, from `KindsAssumption` and
`BoundsAssumption`:

* `GivenInv`: registrations lie in range and number at most `params_given`.
  With every placeholder registered the finite-set theorems give
  `num_params <= params_given`, hence `NeverRejectsComplete`.
* `WiredInv`: a registered slot loses its pointers only to an execution, and
  while an argument array is being registered every registered slot has them,
  since `execute([...])` has dropped the older registrations. Hence
  `ArgsArrayIsSafe`.
* `PreInv`: what EXEC_PRE has visited is filled; errors are clear on the way.
* `CursorInv`: the cursor stays inside its result, and without a result there
  are no rows and no columns. This is what the refinement rests on.
* `BuffersInv`, `DescribedInv`: buffers and columns are those of the one
  result, and once columns are described their result is there to stay.
* `MethodsAdvance`: `Outstanding` is the number of parameters to visit, by
  cardinality, or of rows to skip. Registering an argument array takes one
  element from `todo`; the change to EXEC_PRE, which visits what is registered,
  is paid for by `MaxParams + 3`; in `closeCursor` the row that
  `NextRow` passes is one of the `total - pos` that are left (`CursorInv`).

`TaosConnectionProofs` - the safety invariants of the `Connection` run and the
refinement of `HandleLife`, for any number of handles, statements and requests:

* `HeldInv`: a handle in use is connected, and one that is connected without
  being in use is persistent. It gives `NothingStaysOpen`.
* `OwnerInv`: a statement keeps its handle in use until PHP breaks cycles; so
  `StmtFree` finds its connection open, hence `StmtsClosedFirst`, and
  `StmtFails` has an open one to report to, which the refinement needs.
* `MessageInv`: on a handle of one request a code comes with its message, hence
  `InfoReadable`. The codes never being cleared makes it inductive.
* `InitedInv`: the flag follows the first connection, hence `CleanupExplained`.
* `TeardownAdvances`: `Undone` is the number of handles in use and of statements,
  by cardinality, and one more until the request is over; the
  closer is called for handles of one request only, so its `pefree` gives their
  messages back to PHP's allocator (`CloserSucceeds`).

`TaosValuesProofs` - every invariant of the `Values` run, for any widths,
instants, lengths, zones and builds from 7.0 on. `SignedRoundTrip` and
`UnsignedRoundTrip` say that a read at a type's own width and sign gives the
stored number back;
`WidthInv`, `DescribedInv` and `CellInv` carry the buffer, the description and
the cell from `Execute` to `FetchValue`, and `ZoneInv` says that the zone of the
process is one that was named. `RoundedIsNear` is the rounding: for any number of
parts and any last place, what is printed is within half of that place, and the
number itself if that is a whole number of places.

`TaosParamsProofs` - every invariant of the `Params` run, for any number of
parameters and any widths. `SlotInv` (the slot is what the hook made of the
parameter) carries EXEC_PRE's result to the library, where the lemmas on low bytes
(`SignedLowBytes`, `UnsignedLowBytes`) apply; `FlagInv`, `OwnedInv` and `ErrorInv` do the same for flags, memory and
codes. `FirstFlagsInside` is arithmetic over
`InNullBlock`, and so is its counterpart `LastFlagOutside`: for every `n > 2` the
flag of the last of `n` parameters lies behind the block, so what `ParamsFlags`
shows for three holds for every larger number.

`TaosQuoterProofs` - `QuotedFits`, the types and `QuoterProgress` for texts of any
length over any characters, from `SizeInv`. Its `LoopInv` divides the quotes into
those the loop has passed (`QuotesBefore`) and those ahead (`QuotesFrom`); the
count is the cardinality of the former, the length written is the position plus
that cardinality, and the closing quote fits since both loops pass the same set.
The number of quotes has to be one an `int` holds (`Countable`); that the loops
advance holds without it.

`TaosQuotingProofs` - `QuotedRight`, for the same texts: the answer is the text
with its quotes doubled. The reference, `Doubled`, is a flattened sequence, and
the library's induction theorems take an operator the provers cannot instantiate,
so the induction is built here: `Least` takes a least element from the
well-foundedness of `<` on the naturals (`WFMin`), `Rising` makes of it induction
along an interval, stated for a set. With it the left-to-right fold exists
(`FlattensExists`) and has one value, and a text one character longer is doubled
by appending that character, doubled (`DoubledStep`); so a turn of the loop
appends what `Doubled` would. `CopiedInv` is the strengthening: while the second loop runs,
the block holds the doubled text before `l`, and there is no NUL in that text.
Without the second part the remainder could not be shown to end where the C
string does.

`TaosRoundTripProofs` - `ReadsBack`, for any widths, lengths, precisions and
builds from 7.0 on. Every step of the pair is a step of the writer or of the
reader, or leaves it alone, so the theorems of `TaosParamsProofs` and
`TaosValuesProofs` hold of the pair (`WriterHolds`, `ReaderHolds`). `TableInv`
says that the row holds the value that was bound, in a column of its type; it
rests on `TakenAsBound`. `HandInv` says that what the reader has in hand is that
row. With both, `FetchFaithful` says that what is read is what was bound. The
lemmas `SameCells` to `SameNext` state that the two instances of `TaosValues`,
the model's and the proofs', are one.

Model-checked only: `CallsReturn`, `RequestsEnd` and `QuoteReturns`. They are
liveness under fairness, which needs ENABLED and is out of the prover's reach;
the progress properties above are the part of each that can be proved. The
`violation` runs are counterexamples and have no theorem but for
`LastFlagOutside`. `TableInv` and `HandInv` have a
theorem but no run.

## Plan

Done: the statement, the connection, values, parameters, the quoter, the choice of
versions and the round trip of a value, with the safety of each proved. What would
come next:

1. `TaosSystem`: several statements and connections composed, to relate the
   errors of one statement to the `errorInfo` of another through their
   connection, instead of `TaosConnection`'s summary of a statement.
2. The PDO cores of 7.0 to 8.0 under the statement, where they differ from
   8.1's in what they do between callbacks.
3. The content of texts: the digits of numbers, the calendar of
   `localtime`, the character set of the process.

## Not modelled

* Wording of messages, `MINFO`, column metadata (`get_column_meta` only reads),
  build files: no state and no control that a property could be about.
* The data-source parser, port, timeout and user of a DSN: they go to
  `taos_connect` as they are; it answers a connection or none.
* `pdo_taos_check_liveness`, `taos_handle_begin`, `_commit`, `_rollback`: in the
  source, but in no table of methods, so never called.
* The library's side of `taos_stmt_bind_param`, `taos_stmt_add_batch` and
  `taos_stmt_is_insert`, whose answers the driver drops, its handling of a dead
  connection and of its character set: not visible in this repository.
* Whether SQL reads a backslash in a quoted text as an escape: a matter of
  TDengine's grammar, not of this code.
* The rest of the vendored headers, which the driver does not use.
