---------------------------- MODULE TaosRoundTrip ----------------------------
(***************************************************************************)
(* What a script binds it reads back.  A statement writes a row: TaosParams *)
(* takes its parameter from PHP to the library.  When the script has let go *)
(* of it, it reads the row: TaosValues takes the column from the library to *)
(* PHP.  Between the two is the table, which is the library's.              *)
(***************************************************************************)
EXTENDS TaosParams

CONSTANTS \* of TaosValues
  Fine, Lengths, MaxVarLen, HalfLen, Zones

ASSUME ReaderAssumption ==
  /\ Fine \in Nat \ {0}
  /\ Lengths \subseteq Nat \ {0}
  /\ MaxVarLen \in Nat /\ HalfLen \in Nat /\ MaxVarLen < HalfLen
  /\ Zones \cap {"system", "closed", "none"} = {}

VARIABLES
  zone, named, asked, step, column, out_length, buffer_length, param_type, cell, result,
  shown,  \* of TaosValues
  table   \* the row of the parameter in hand, if it has been written

readerVars == <<zone, named, asked, step, column, out_length, buffer_length, param_type, cell,
                result, shown>>
tripVars == <<vars, readerVars, table>>

\* A TIMESTAMP column holds any number of eight bytes, FLOAT and DOUBLE columns
\* the doubles of scripts.
Reader == INSTANCE TaosValues WITH Stamps <- IntRange("BIGINT"), Floats <- Doubles

-----------------------------------------------------------------------------
(***************************************************************************)
(* The table.                                                              *)
(***************************************************************************)

\* The columns a slot can be bound to: those of its type, or any for a NULL.
ColumnsFor(t) == {col \in Reader!Columns : t \in {"NULL", col.type}}

\* What the table holds for what was taken from a slot: a number the column has,
\* a text at its length, NULL for NULL.  Of anything else there is no telling.
StoredAs(col, v) ==
  {c \in Reader!Cells(col) :
     /\ c.null => c.number = 0
     /\ v.type # "garbage" => (c.null <=> v.type = "null")
     /\ v.type \in {"number", "real"} /\ v.n \in Reader!Numbers(col.type) => c.number = v.n
     /\ v.type = "text" => c.length = v.n}

\* taos_stmt_execute succeeds, or fails.
Inserts ==
  /\ errcode' = errcode /\ errno' = errno
  /\ \E col \in ColumnsFor(slot.type) : \E c \in StoredAs(col, taken') :
       table' = {[column |-> col, cell |-> c]}
InsertFails ==
  /\ \E e \in Errnos : Report(e)
  /\ UNCHANGED table

-----------------------------------------------------------------------------
TripInit == Init /\ Reader!Init /\ table = {}

\* The statement.  A parameter that is registered anew has no row yet.
Executes == answer = "true" /\ answer' = "executed"
Registers == answer' = "none"

Write ==
  /\ Next
  /\ IF Executes THEN Inserts \/ InsertFails
     ELSE table' = IF Registers THEN {} ELSE table
  /\ UNCHANGED readerVars

\* The script reads once it has let go of the statement.
Read ==
  /\ phase = "freed" /\ table # {}
  /\ Reader!Next
  /\ \A row \in table :
       /\ step' = "executed" => column' = row.column
       /\ step' = "fetched" => cell' = row.cell
  /\ UNCHANGED <<vars, table>>

TripNext == Write \/ Read

TripSpec == TripInit /\ [][TripNext]_tripVars

-----------------------------------------------------------------------------
(***************************************************************************)
(* Properties.                                                             *)
(***************************************************************************)

\* What a column gives back is the value v that was bound.
SameValue(v, col, r) ==
  /\ v.type = "null" <=> r = Reader!Null
  /\ v.type = "long" /\ col.type \in Integral => r.of = <<v.n>>
  /\ v.type = "long" /\ col.type = "BOOL" /\ v.n \in {0, 1} => r.of = <<v.n>>
  /\ v.type = "long" /\ col.type = "TIMESTAMP" =>
       r.of[1] * Reader!Ticks[col.precision] + r.of[2] = v.n
  /\ v.type = "double" =>
       Reader!Near(r.of[1], IF col.type = "FLOAT" THEN AsFloat[v.n] ELSE v.n,
                   Reader!Grain[col.type])
  /\ v.type = "string" => r.length = v.n

\* A value that is bound as a type it fits is read back as that value: an integer
\* from the whole range of its type, a timestamp to the tick, a double to half of
\* the last place its column is printed with, and as the float it was narrowed to
\* in a FLOAT column, text at its length, NULL as NULL.  Before PHP 8.1 all but text may be lost in the frame that
\* get_col has left.
ReadsBack ==
  step = "read" /\ Fits(param.declared, param.value) =>
    \A row \in table :
      \/ build < 80100 /\ row.column.type \notin VarTypes /\ result = Reader!Garbage
      \/ SameValue(param.value, row.column, result)

\* The reasons, in a form every step preserves: the table has what was bound, in
\* a column of its type, and what the reader has in hand is the table's.
ColumnType(k) == IF k = "PARAM_STR" THEN "BINARY" ELSE TypeOf(k)
TableInv ==
  \A row \in table :
    /\ row.column \in Reader!Columns
    /\ row.cell \in Reader!Cells(row.column)
    /\ Fits(param.declared, param.value) =>
         /\ row.cell \in StoredAs(row.column, Wanted(param.declared, param.value))
         /\ param.value.type # "null" => row.column.type = ColumnType(param.declared)
HandInv ==
  /\ step # "start" => phase = "freed"
  /\ \A row \in table :
       /\ step \notin {"start", "connected"} => column = row.column
       /\ step \in {"fetched", "read"} => cell = row.cell

=============================================================================
