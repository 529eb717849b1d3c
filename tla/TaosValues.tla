----------------------------- MODULE TaosValues -----------------------------
(***************************************************************************)
(* What a script reads from a column: the buffers the execute callback     *)
(* makes for a result, the description of the column, the row the library  *)
(* fetches, the conversion in get_col - of all four copies - and what the  *)
(* PDO core makes of its answer.  Timestamps are printed in the time zone  *)
(* of the process, which any connection may set.                           *)
(*                                                                         *)
(* The conversions are modelled by what they do to the number, its         *)
(* rounding, the split of a timestamp and the length of a text; the        *)
(* characters of a text are left out, and so are infinities, NaN and the   *)
(* sign of a zero.                                                         *)
(***************************************************************************)
EXTENDS TaosVersions, TaosTypes, Sequences

CONSTANTS
  Stamps,    \* timestamps, in ticks of the result's precision
  Floats,    \* numbers of FLOAT and DOUBLE columns, in parts of 10^-9 ...
  Fine,      \* ... and how many of these make 10^-9
  Lengths,   \* lengths of integers as text, signs included
  MaxVarLen, \* longest value of a variable-length column
  HalfLen,   \* half the range of the length in front of it
  Zones      \* time zones a DSN may name

Precisions == {"MILLI", "MICRO", "NANO"}

ASSUME StampsAssumption == Stamps \subseteq Int
\* A finite double is a whole number of parts if Fine is a large power of two.
ASSUME FloatsAssumption == Floats \subseteq Int /\ Fine \in Nat \ {0}
ASSUME LengthsAssumption == Lengths \subseteq Nat \ {0}
\* ttype.h:14: the length is 16 bits wide and no value is longer than 32767.
ASSUME VarAssumption == MaxVarLen \in Nat /\ HalfLen \in Nat /\ MaxVarLen < HalfLen
ASSUME ZonesAssumption == Zones \cap {"system", "closed", "none"} = {}

VARIABLES
  build,         \* PHP_VERSION_ID
  zone,          \* the time zone of the process
  named,         \* history: the zones DSNs have named
  asked,         \* the zone of the reading connection, or "closed"
  step,          \* where the reading script is
  column,        \* type and precision of the result's column
  out_length,    \* S->out_length of the column
  buffer_length, \* S->bound_result[..].buffer_length
  param_type,    \* cols[..].param_type
  cell,          \* what S->current_data holds for the column
  result,        \* what the script was given
  shown          \* history: the process's zone at the last get_col

zoneVars   == <<zone, named, asked>>
columnVars == <<column, out_length, buffer_length, param_type>>
vars == <<build, zoneVars, step, columnVars, cell, result, shown>>

-----------------------------------------------------------------------------
(***************************************************************************)
(* Columns and cells.                                                      *)
(***************************************************************************)

\* The precision matters to timestamps only.
Columns == {col \in [type : Types, precision : Precisions] :
              col.type # "TIMESTAMP" => col.precision = "MILLI"}

\* TAOS_FIELD.bytes of a column whose values have a fixed width.
Bytes(t) ==
  IF t \in {"BOOL", "TINYINT", "UTINYINT", "NULL"} THEN 1
  ELSE IF t \in {"SMALLINT", "USMALLINT"} THEN 2
  ELSE IF t \in {"INT", "UINT", "FLOAT"} THEN 4
  ELSE IF t \in {"BIGINT", "UBIGINT", "DOUBLE", "TIMESTAMP"} THEN 8
  ELSE MaxVarLen

FloatTypes == {"FLOAT", "DOUBLE"}

\* Numbers a column may hold; other contents are not told apart.
Numbers(t) ==
  IF t \in Integral THEN IntRange(t)
  ELSE IF t \in FloatTypes THEN Floats
  ELSE IF t = "BOOL" THEN {0, 1}
  ELSE IF t = "TIMESTAMP" THEN Stamps
  ELSE {0}

\* "YYYY-MM-DD hh:mm:ss." and three, six or nine digits.
StampLength == [MILLI |-> 23, MICRO |-> 26, NANO |-> 29]

\* The point and the decimals of "%.5f" and "%.9lf".
Decimals == [FLOAT |-> 6, DOUBLE |-> 10]

\* How long a value is as text.
TextLengths(t, p) ==
  IF t = "BOOL" THEN {1}
  ELSE IF t \in FloatTypes THEN {n + Decimals[t] : n \in Lengths}
  ELSE IF t = "TIMESTAMP" THEN {StampLength[p]}
  ELSE IF t \in VarTypes THEN 0 .. MaxVarLen
  ELSE Lengths

Cells(col) ==
  [number : Numbers(col.type), length : TextLengths(col.type, col.precision), null : BOOLEAN]

NoCell == [number |-> 0, length |-> 0, null |-> TRUE]

\* What a script is given.
Null == [kind |-> "null", of |-> <<>>, length |-> 0]
Garbage == [kind |-> "garbage", of |-> <<>>, length |-> 0]
Long(n) == [kind |-> "int", of |-> <<n>>, length |-> 0]
Text(content, n) == [kind |-> "string", of |-> content, length |-> n]
Results == [kind : {"null", "garbage", "int", "string"}, of : Seq(Int), length : Int]

-----------------------------------------------------------------------------
(***************************************************************************)
(* Reading a value that the library has put in a row.                      *)
(***************************************************************************)

\* An integer, at the width and with the sign of its type.
ReadNumber(t, n) == ReadInt(t, Stored(n, Half[t]))

\* varDataLen: an int16_t in front of the value.
VarLen(n) == AsSigned(Stored(n, HalfLen), HalfLen)

\* Division and remainder of C go towards zero.
CDiv(a, b) == IF a >= 0 THEN a \div b ELSE -((-a) \div b)
CMod(a, b) == a - b * CDiv(a, b)

Ticks == [MILLI |-> 1000, MICRO |-> 1000000, NANO |-> 1000000000]

\* tt and the digits behind the point.
SplitPositiveRest(p, n) == <<CDiv(n, Ticks[p]), n % Ticks[p]>>
SplitStamp(p, n) == <<CDiv(n, Ticks[p]), CMod(n, Ticks[p])>>

\* The last place that is printed of a FLOAT, 10^-5, and of a DOUBLE, 10^-9;
\* sprintf rounds to the nearest one, a tie to the even one.
Grain == [FLOAT |-> 10000 * Fine, DOUBLE |-> Fine]
Rounded(n, g) ==
  LET q == n \div g
      r == n % g
  IN  IF 2 * r < g \/ (2 * r = g /\ q % 2 = 0) THEN q * g ELSE (q + 1) * g

-----------------------------------------------------------------------------
(***************************************************************************)
(* get_col.  A cell of the library's NULL or of a type without a case      *)
(* (DECIMAL) leaves the answer as the core initialised it.                 *)
(***************************************************************************)

HasCase(t) == t \notin {"NULL", "DECIMAL"}

Content(col, c) ==
  IF col.type \in Integral THEN <<ReadNumber(col.type, c.number)>>
  ELSE IF col.type \in FloatTypes THEN <<Rounded(c.number, Grain[col.type])>>
  ELSE IF col.type = "BOOL" THEN <<IF c.number = 1 THEN 1 ELSE 0>>
  ELSE IF col.type = "TIMESTAMP" THEN SplitStamp(col.precision, c.number)
  ELSE <<c.number>>

\* The length in front of a variable-length value, or that of the printed text.
TextLength(col, c) == IF col.type \in VarTypes THEN VarLen(c.length) ELSE c.length

\* Types whose value becomes a zend_long.
LongTypes == Integral \ {"BIGINT", "UBIGINT"}

get_col_80100(col, c) ==
  IF c.null \/ ~HasCase(col.type) THEN Null
  ELSE IF col.type \in LongTypes THEN Long(ReadNumber(col.type, c.number))
  ELSE Text(Content(col, c), TextLength(col, c))

\* Before 8.1 the answer is *ptr and *len.  Numbers and timestamps are printed
\* into arrays of get_col itself, which are gone when it has returned; the
\* value of a variable-length column lies in the library's row.
Unset == [to |-> "nothing", of |-> <<>>, length |-> 0]
get_col_80000(col, c) ==
  IF c.null \/ ~HasCase(col.type) THEN Unset
  ELSE [to     |-> IF col.type \in VarTypes THEN "row" ELSE "frame",
        of     |-> Content(col, c),
        length |-> IF out_length > buffer_length THEN buffer_length
                   ELSE IF col.type = "BOOL" THEN out_length
                   ELSE TextLength(col, c)]
\* 70300 has the code of 80000, 70000 the same at other lines.
get_col_70300(col, c) == get_col_80000(col, c)
get_col_70000(col, c) == get_col_80000(col, c)

LegacyGetCol(copy, col, c) ==
  IF copy = "80000" THEN get_col_80000(col, c)
  ELSE IF copy = "70300" THEN get_col_70300(col, c)
  ELSE get_col_70000(col, c)

\* Types printed into char value[S->out_length[colno]].
ValuePrintedStamps(copy) == Integral \cup {"BOOL", "FLOAT", "DOUBLE", "TIMESTAMP"}
ValuePrinted(copy) ==
  FloatTypes \cup {"BOOL", "BIGINT", "UBIGINT"}
    \cup (IF copy = "80100" THEN {} ELSE Integral)

\* sprintf ends the text with a NUL.
Overruns(copy, col, c) ==
  /\ ~c.null
  /\ col.type \in ValuePrinted(copy)
  /\ c.length + 1 > out_length

\* What fetch_value copies out of a legacy answer: an array whose function has
\* returned may still be as it was, or not.
Copied(type, answer) ==
  IF type # "STR" \/ answer.to = "nothing" THEN {Null}
  ELSE {Text(answer.of, answer.length)}
         \cup (IF answer.to = "frame" THEN {Garbage} ELSE {})

\* A copy called through the interface of the other generation answers nothing
\* of use.
Fetched(b, col, c) ==
  IF ZvalInterface(b) # (StatementCopy(b) = "80100") THEN {Garbage}
  ELSE IF ZvalInterface(b) THEN {get_col_80100(col, c)}
  ELSE Copied(param_type, LegacyGetCol(StatementCopy(b), col, c))

-----------------------------------------------------------------------------
(***************************************************************************)
(* The script and the other users of the process.                          *)
(***************************************************************************)

Steps == {"start", "connected", "executed", "described", "fetched", "read", "smashed"}

Init ==
  /\ build \in Builds
  /\ zone = "system" /\ named = {} /\ asked = "closed" /\ shown = "system"
  /\ step = "start"
  /\ column = [type |-> "NULL", precision |-> "MILLI"]
  /\ out_length = 0 /\ buffer_length = 0 /\ param_type = "none"
  /\ cell = NoCell /\ result = Null

\* taos_options(TSDB_OPTION_TIMEZONE) of the factory, whether or not it goes on
\* to connect: the zone of the whole process.
OptionsUnguarded(z) == zone' = z /\ named' = named \cup {z}
OptionsFirstLost(z) ==
  IF z = "none" THEN UNCHANGED <<zone, named>>
  ELSE /\ zone' = IF named = {} THEN zone ELSE z
       /\ named' = named \cup {z}
Options(z) ==
  IF z = "none" THEN UNCHANGED <<zone, named>>
  ELSE zone' = z /\ named' = named \cup {z}

Connect(z) ==
  /\ step = "start"
  /\ Options(z)
  /\ asked' = IF z = "none" THEN "system" ELSE z
  /\ step' = "connected"
  /\ UNCHANGED <<build, columnVars, cell, result, shown>>

\* Another connection of the process, or an attempt at one.
OtherConnects(z) ==
  /\ step # "smashed"
  /\ Options(z)
  /\ UNCHANGED <<build, asked, step, columnVars, cell, result, shown>>

\* The execute callback makes a buffer as long as the column is wide.
RowBuffer(n) == [out_length |-> n, buffer_length |-> n]
execute_prepared_80100(n) == RowBuffer(n)
execute_prepared_80000(n) == RowBuffer(n)
execute_prepared_70300(n) == RowBuffer(n)
execute_prepared_70000(n) == RowBuffer(n)

execute_prepared(copy, n) ==
  IF copy = "80100" THEN execute_prepared_80100(n)
  ELSE IF copy = "80000" THEN execute_prepared_80000(n)
  ELSE IF copy = "70300" THEN execute_prepared_70300(n)
  ELSE execute_prepared_70000(n)

Execute(col) ==
  LET row == execute_prepared(StatementCopy(build), Bytes(col.type))
  IN  /\ step \in {"connected", "read"}
      /\ step' = "executed"
      /\ column' = col
      /\ out_length' = row.out_length
      /\ buffer_length' = row.buffer_length
      /\ param_type' = "none"
      /\ cell' = NoCell /\ result' = Null
      /\ UNCHANGED <<build, zoneVars, shown>>

\* cols[..].param_type, which PHP 8.1 no longer has.
describe_80100 == "none"
describe_80000 == "STR"
describe_70300 == "STR"
describe_70000 == "STR"
describe(copy) ==
  IF copy = "80100" THEN describe_80100
  ELSE IF copy = "80000" THEN describe_80000
  ELSE IF copy = "70300" THEN describe_70300
  ELSE describe_70000

Describe ==
  /\ step = "executed"
  /\ step' = "described"
  /\ param_type' = describe(StatementCopy(build))
  /\ UNCHANGED <<build, zoneVars, column, out_length, buffer_length, cell, result, shown>>

\* The fetch callback.
FetchRow(c) ==
  /\ step \in {"described", "read"}
  /\ step' = "fetched"
  /\ cell' = c
  /\ result' = Null
  /\ UNCHANGED <<build, zoneVars, columnVars, shown>>

FetchValue ==
  /\ step = "fetched"
  /\ step' = "read"
  /\ result' \in Fetched(build, column, cell)
  /\ shown' = zone
  /\ UNCHANGED <<build, zoneVars, columnVars, cell>>

\* The text does not fit the array: the process may go on as if nothing had
\* happened (FetchValue), or not.
FetchValueSmashes ==
  /\ step = "fetched"
  /\ Overruns(StatementCopy(build), column, cell)
  /\ step' = "smashed"
  /\ UNCHANGED <<build, zoneVars, columnVars, cell, result, shown>>

Next ==
  \/ \E z \in Zones \cup {"none"} : Connect(z)
  \/ \E z \in Zones \cup {"none"} : OtherConnects(z)
  \/ \E col \in Columns : Execute(col)
  \/ Describe
  \/ \E c \in Cells(column) : FetchRow(c)
  \/ FetchValue
  \/ FetchValueSmashes

Spec == Init /\ [][Next]_vars

-----------------------------------------------------------------------------
(***************************************************************************)
(* Properties.                                                             *)
(***************************************************************************)

TypeOK ==
  /\ build \in Builds
  /\ zone \in Zones \cup {"system"}
  /\ named \subseteq Zones
  /\ asked \in Zones \cup {"system", "closed"}
  /\ shown \in Zones \cup {"system"}
  /\ step \in Steps
  /\ column \in Columns
  /\ out_length \in Nat /\ buffer_length \in Nat
  /\ param_type \in {"none", "STR"}
  /\ cell \in Cells(column) \cup {NoCell}
  /\ result \in Results

\* What the value of a cell is, said without the arithmetic of C.
Meaning(col, c) ==
  IF col.type = "TIMESTAMP"
    THEN <<c.number \div Ticks[col.precision], c.number % Ticks[col.precision]>>
    ELSE <<c.number>>
Promise(b, col, c) ==
  IF c.null \/ col.type = "NULL" THEN Null
  ELSE IF b >= 80100 /\ col.type \in LongTypes THEN Long(c.number)
  ELSE Text(Meaning(col, c), c.length)

\* The cells a script may not get as they are: a DECIMAL reads as NULL, an
\* instant before 1970 that is no whole second is split towards zero, a FLOAT
\* with more than five decimals or a DOUBLE with more than nine is rounded to
\* them (1e-7 in a FLOAT reads as 0.00000), and before PHP 8.1 all but
\* variable-length text comes from a dead stack frame.
Excused(b, col, c, r) ==
  \/ col.type = "DECIMAL" /\ r = Null
  \/ /\ col.type = "TIMESTAMP" /\ c.number < 0 /\ c.number % Ticks[col.precision] # 0
     /\ r.kind = "string"
  \/ /\ col.type \in FloatTypes /\ c.number % Grain[col.type] # 0
     /\ r.kind = "string"
  \/ b < 80100 /\ col.type \notin VarTypes /\ r = Garbage

\* What is lost of such a cell when it is printed at all: nothing of an instant,
\* whose seconds and fraction still add up, the fraction with a minus sign before
\* 1970; of a FLOAT or DOUBLE at most half of the last place.
Near(a, b, g) == 2 * (a - b) <= g /\ 2 * (b - a) <= g
Recoverable(col, c, r) ==
  r.kind = "string" =>
    /\ col.type = "TIMESTAMP" => r.of[1] * Ticks[col.precision] + r.of[2] = c.number
    /\ col.type \in FloatTypes => Near(r.of[1], c.number, Grain[col.type])

\* A script reads the value the library stored: each integer over the whole
\* range of its type, signed or not, each instant to the tick, each number with
\* a fraction that its decimals hold, each text at its length, NULL for NULL; on
\* every PHP, but for the cells named in Excused, of which Recoverable bounds
\* the loss.
FetchFaithful ==
  step = "read" =>
    /\ result = Promise(build, column, cell) \/ Excused(build, column, cell, result)
    /\ Recoverable(column, cell, result)

\* The array on the stack is overrun by values whose text is at least as long as
\* their column is wide, of the types that are printed into it: from PHP 8.1 on
\* no integer below 64 bits, and never a timestamp or a text.  A BOOL, a FLOAT
\* and a DOUBLE always overrun it: one digit fills an array of one byte, and
\* with their decimals 0.00000 and 0.000000000 are longer than four and eight.
OverrunExplained ==
  /\ step = "smashed" =>
       /\ column.type \in {"BOOL", "FLOAT", "DOUBLE", "BIGINT", "UBIGINT"}
                            \cup (IF build >= 80100 THEN {} ELSE Integral)
       /\ cell.length >= Bytes(column.type)
  /\ step = "fetched" /\ column.type \in {"BOOL", "FLOAT", "DOUBLE"} /\ ~cell.null =>
       Overruns(StatementCopy(build), column, cell)

\* As long as no DSN of the process named another zone, timestamps are printed
\* in the zone the reading connection asked for.
ZoneAsAsked ==
  step = "read" /\ named \subseteq {asked} => shown = asked

\* The reasons, in a form every step preserves.
WidthInv == step \notin {"start", "connected"} =>
  out_length = Bytes(column.type) /\ buffer_length = Bytes(column.type)
DescribedInv == step \in {"described", "fetched", "read"} /\ build < 80100 => param_type = "STR"
CellInv == step \in {"fetched", "read"} => cell \in Cells(column)
ZoneInv ==
  /\ IF named = {} THEN zone = "system" ELSE zone \in named
  /\ step # "start" /\ asked # "system" => asked \in named
  /\ step # "start" => asked # "closed"
IInv ==
  /\ TypeOK /\ WidthInv /\ DescribedInv /\ CellInv /\ ZoneInv
  /\ FetchFaithful /\ OverrunExplained /\ ZoneAsAsked

=============================================================================
