------------------------- MODULE TaosRoundTripProofs -------------------------
(***************************************************************************)
(* What is bound is read back, for any widths, lengths, zones and builds.  *)
(* The invariants of the writer and of the reader are theorems of their    *)
(* own modules: here the steps of the pair are shown to be steps of each,  *)
(* and what lies between the two is an invariant of the table.             *)
(***************************************************************************)
EXTENDS TaosRoundTrip, TaosParamsProofs

ReaderP == INSTANCE TaosValuesProofs WITH Stamps <- IntRange("BIGINT"), Floats <- Doubles

(***************************************************************************)
(* The reader of the model and the reader of the proofs are two instances  *)
(* of one module: what one defines is what the other defines.              *)
(***************************************************************************)

\* The columns, the cells and the numbers of each type.
LEMMA SameCells ==
  /\ Reader!Columns = ReaderP!Columns
  /\ \A t : Reader!Numbers(t) = ReaderP!Numbers(t)
  /\ \A col : Reader!Cells(col) = ReaderP!Cells(col)
<1> USE DEF Reader!Integral, Reader!SignedInts, Reader!UnsignedInts, Reader!VarTypes,
            Reader!FloatTypes, ReaderP!Integral, ReaderP!SignedInts, ReaderP!UnsignedInts,
            ReaderP!VarTypes, ReaderP!FloatTypes
<1>1. Reader!Columns = ReaderP!Columns
  BY DEF Reader!Columns, Reader!Types, Reader!Precisions,
         ReaderP!Columns, ReaderP!Types, ReaderP!Precisions
<1>2. \A t : Reader!Numbers(t) = ReaderP!Numbers(t)
  BY DEF Reader!Numbers, Reader!IntRange, ReaderP!Numbers, ReaderP!IntRange
<1>3. \A col : Reader!Cells(col) = ReaderP!Cells(col)
  BY <1>2 DEF Reader!Cells, Reader!TextLengths, Reader!StampLength, Reader!Decimals,
              ReaderP!Cells, ReaderP!TextLengths, ReaderP!StampLength, ReaderP!Decimals
<1> QED
  BY <1>1, <1>2, <1>3

\* What get_col makes of a cell.
LEMMA SameContent ==
  ASSUME NEW col, NEW c
  PROVE  /\ Reader!ReadNumber(col.type, c.number) = ReaderP!ReadNumber(col.type, c.number)
         /\ Reader!Content(col, c) = ReaderP!Content(col, c)
         /\ Reader!TextLength(col, c) = ReaderP!TextLength(col, c)
<1>1. Reader!ReadNumber(col.type, c.number) = ReaderP!ReadNumber(col.type, c.number)
  BY DEF Reader!ReadNumber, Reader!ReadInt, Reader!Stored, Reader!AsSigned, Reader!AsUnsigned,
         Reader!SignedInts, ReaderP!ReadNumber, ReaderP!ReadInt, ReaderP!Stored,
         ReaderP!AsSigned, ReaderP!AsUnsigned, ReaderP!SignedInts
<1>2. Reader!Rounded(c.number, Reader!Grain[col.type])
      = ReaderP!Rounded(c.number, ReaderP!Grain[col.type])
  BY DEF Reader!Rounded, Reader!Grain, ReaderP!Rounded, ReaderP!Grain
<1>3. Reader!Content(col, c) = ReaderP!Content(col, c)
  BY <1>1, <1>2
     DEF Reader!Content, Reader!FloatTypes, Reader!Integral, Reader!SignedInts,
         Reader!UnsignedInts,
         Reader!SplitStamp, Reader!CDiv, Reader!CMod, Reader!Ticks,
         ReaderP!Content, ReaderP!FloatTypes, ReaderP!Integral, ReaderP!SignedInts,
         ReaderP!UnsignedInts,
         ReaderP!SplitStamp, ReaderP!CDiv, ReaderP!CMod, ReaderP!Ticks
<1>4. Reader!TextLength(col, c) = ReaderP!TextLength(col, c)
  BY DEF Reader!TextLength, Reader!VarLen, Reader!Stored, Reader!AsSigned, Reader!VarTypes,
         ReaderP!TextLength, ReaderP!VarLen, ReaderP!Stored, ReaderP!AsSigned, ReaderP!VarTypes
<1> QED
  BY <1>1, <1>3, <1>4

\* What a script is given.
LEMMA SameFetched ==
  ASSUME NEW b, NEW col, NEW c
  PROVE  Reader!Fetched(b, col, c) = ReaderP!Fetched(b, col, c)
<1> USE DEF Reader!Null, Reader!Garbage, Reader!Text, Reader!HasCase, Reader!VarTypes,
            ReaderP!Null, ReaderP!Garbage, ReaderP!Text, ReaderP!HasCase, ReaderP!VarTypes
<1>1. Reader!get_col_80100(col, c) = ReaderP!get_col_80100(col, c)
  <2>1. Reader!LongTypes = ReaderP!LongTypes
    BY DEF Reader!LongTypes, Reader!Integral, Reader!SignedInts, Reader!UnsignedInts,
           ReaderP!LongTypes, ReaderP!Integral, ReaderP!SignedInts, ReaderP!UnsignedInts
  <2> QED
    BY <2>1, SameContent
       DEF Reader!get_col_80100, Reader!Long, ReaderP!get_col_80100, ReaderP!Long
<1>2. Reader!get_col_80000(col, c) = ReaderP!get_col_80000(col, c)
  BY SameContent DEF Reader!get_col_80000, Reader!Unset, ReaderP!get_col_80000, ReaderP!Unset
<1>3. \A copy : Reader!LegacyGetCol(copy, col, c) = ReaderP!LegacyGetCol(copy, col, c)
  BY <1>2
     DEF Reader!LegacyGetCol, Reader!get_col_70300, Reader!get_col_70000,
         ReaderP!LegacyGetCol, ReaderP!get_col_70300, ReaderP!get_col_70000
<1>4. \A type, answr : Reader!Copied(type, answr) = ReaderP!Copied(type, answr)
  BY DEF Reader!Copied, ReaderP!Copied
<1>5. Reader!StatementCopy(b) = ReaderP!StatementCopy(b)
  BY DEF Reader!StatementCopy, ReaderP!StatementCopy
<1>6. Reader!Copied(param_type, Reader!LegacyGetCol(Reader!StatementCopy(b), col, c))
      = ReaderP!Copied(param_type, ReaderP!LegacyGetCol(ReaderP!StatementCopy(b), col, c))
  BY <1>3, <1>4, <1>5
<1> QED
  BY <1>1, <1>5, <1>6
     DEF Reader!Fetched, Reader!ZvalInterface, ReaderP!Fetched, ReaderP!ZvalInterface

\* The states it starts in, and its steps.
LEMMA SameInit == Reader!Init => ReaderP!Init
BY DEF Reader!Init, Reader!NoCell, Reader!Null, ReaderP!Init, ReaderP!NoCell, ReaderP!Null

LEMMA SameNext == Reader!Next => ReaderP!Next
<1> SUFFICES ASSUME Reader!Next
             PROVE  ReaderP!Next
  OBVIOUS
<1> USE DEF Reader!zoneVars, Reader!columnVars, ReaderP!zoneVars, ReaderP!columnVars
<1>1. ASSUME NEW z \in Zones \cup {"none"}, Reader!Connect(z) PROVE ReaderP!Connect(z)
  BY <1>1 DEF Reader!Connect, Reader!Options, ReaderP!Connect, ReaderP!Options
<1>2. ASSUME NEW z \in Zones \cup {"none"}, Reader!OtherConnects(z) PROVE ReaderP!OtherConnects(z)
  BY <1>2 DEF Reader!OtherConnects, Reader!Options, ReaderP!OtherConnects, ReaderP!Options
<1>3. ASSUME NEW col \in Reader!Columns, Reader!Execute(col) PROVE ReaderP!Execute(col)
  BY <1>3
     DEF Reader!Execute, Reader!execute_prepared, Reader!execute_prepared_80100,
         Reader!execute_prepared_80000, Reader!execute_prepared_70300,
         Reader!execute_prepared_70000, Reader!RowBuffer, Reader!Bytes, Reader!StatementCopy,
         Reader!NoCell, Reader!Null,
         ReaderP!Execute, ReaderP!execute_prepared, ReaderP!execute_prepared_80100,
         ReaderP!execute_prepared_80000, ReaderP!execute_prepared_70300,
         ReaderP!execute_prepared_70000, ReaderP!RowBuffer, ReaderP!Bytes,
         ReaderP!StatementCopy, ReaderP!NoCell, ReaderP!Null
<1>4. Reader!Describe => ReaderP!Describe
  BY DEF Reader!Describe, Reader!describe, Reader!describe_80100, Reader!describe_80000,
         Reader!describe_70300, Reader!describe_70000, Reader!StatementCopy,
         ReaderP!Describe, ReaderP!describe, ReaderP!describe_80100, ReaderP!describe_80000,
         ReaderP!describe_70300, ReaderP!describe_70000, ReaderP!StatementCopy
<1>5. ASSUME NEW c \in Reader!Cells(column), Reader!FetchRow(c) PROVE ReaderP!FetchRow(c)
  BY <1>5 DEF Reader!FetchRow, Reader!Null, ReaderP!FetchRow, ReaderP!Null
<1>6. Reader!FetchValue => ReaderP!FetchValue
  BY SameFetched DEF Reader!FetchValue, ReaderP!FetchValue
<1>7. Reader!FetchValueSmashes => ReaderP!FetchValueSmashes
  BY DEF Reader!FetchValueSmashes, Reader!Overruns, Reader!ValuePrinted, Reader!StatementCopy,
         Reader!FloatTypes, Reader!Integral, Reader!SignedInts, Reader!UnsignedInts,
         ReaderP!FetchValueSmashes, ReaderP!Overruns, ReaderP!ValuePrinted, ReaderP!FloatTypes,
         ReaderP!StatementCopy, ReaderP!Integral, ReaderP!SignedInts, ReaderP!UnsignedInts
<1>8. CASE \E z \in Zones \cup {"none"} : Reader!Connect(z)
  BY <1>1, <1>8 DEF ReaderP!Next
<1>9. CASE \E z \in Zones \cup {"none"} : Reader!OtherConnects(z)
  BY <1>2, <1>9 DEF ReaderP!Next
<1>10. CASE \E col \in Reader!Columns : Reader!Execute(col)
  BY <1>3, <1>10, SameCells DEF ReaderP!Next
<1>11. CASE \E c \in Reader!Cells(column) : Reader!FetchRow(c)
  BY <1>5, <1>11, SameCells DEF ReaderP!Next
<1>12. CASE Reader!Describe \/ Reader!FetchValue \/ Reader!FetchValueSmashes
  BY <1>4, <1>6, <1>7, <1>12 DEF ReaderP!Next
<1> QED
  BY <1>8, <1>9, <1>10, <1>11, <1>12 DEF Reader!Next

(***************************************************************************)
(* The pair takes steps of the writer and of the reader, so what each of   *)
(* them promises holds of the pair.                                        *)
(***************************************************************************)

\* The constants are as TaosValues wants them.
LEMMA ReaderConstants ==
  /\ Half \in [ReaderP!Integral -> Nat \ {0}]
  /\ IntRange("BIGINT") \subseteq Int
  /\ Doubles \subseteq Int /\ Fine \in Nat \ {0}
  /\ Lengths \subseteq Nat \ {0}
  /\ MaxVarLen \in Nat /\ HalfLen \in Nat /\ MaxVarLen < HalfLen
  /\ Zones \cap {"system", "closed", "none"} = {}
<1>1. Half \in [ReaderP!Integral -> Nat \ {0}]
  BY HalfAssumption
     DEF ReaderP!Integral, ReaderP!SignedInts, ReaderP!UnsignedInts, Integral, SignedInts,
         UnsignedInts
<1>2. IntRange("BIGINT") \subseteq Int
  BY HalfAssumption DEF IntRange, Integral, SignedInts, UnsignedInts
<1> QED
  BY <1>1, <1>2, ReaderAssumption, ContentsAssumption

\* No step of the statement touches the build.
LEMMA BuildStays == [TripNext]_tripVars => build' = build
BY DEF TripNext, tripVars, Write, Read, Next, vars, Prepare, ParseFails, PrepareFails, Alloc,
       Assign, ExecPre, execute_prepared, Dtor

LEMMA ReaderSteps == [TripNext]_tripVars => [ReaderP!Next]_(ReaderP!vars)
<1> SUFFICES ASSUME [TripNext]_tripVars
             PROVE  ReaderP!Next \/ UNCHANGED ReaderP!vars
  OBVIOUS
<1>1. CASE Read
  BY <1>1, SameNext DEF Read
<1>2. CASE ~Read
  BY <1>2, BuildStays
     DEF TripNext, tripVars, Write, readerVars, ReaderP!vars, ReaderP!zoneVars, ReaderP!columnVars
<1> QED
  BY <1>1, <1>2

\* The writer keeps its invariant, whatever the reader does.
LEMMA WriterHolds == TripSpec => []IInv
<1>1. TripInit => Init
  BY DEF TripInit
<1>2. [TripNext]_tripVars => [Next]_vars
  BY DEF TripNext, tripVars, Write, Read
<1> QED
  BY <1>1, <1>2, ParamsInvariance, PTL DEF TripSpec, Spec

\* The reader keeps its invariant, whatever the writer does.
LEMMA ReaderHolds == TripSpec => []ReaderP!IInv
<1>1. TripInit => ReaderP!Init
  BY SameInit DEF TripInit
<1>2. ReaderP!Spec => []ReaderP!IInv
  BY ReaderP!ValuesInvariance, BuildsAssumption, ReaderConstants
<1> QED
  BY <1>1, <1>2, ReaderSteps, PTL DEF TripSpec, ReaderP!Spec

(***************************************************************************)
(* The table between them.                                                 *)
(***************************************************************************)

\* A freed statement does nothing more, an execution is execute_prepared, and
\* the parameter in hand changes only where it has not been written yet.
LEMMA WriterSteps ==
  Next => /\ phase # "freed"
          /\ Executes => execute_prepared
          /\ ~Registers => param' = param
BY DEF Next, Executes, Registers, Prepare, ParseFails, PrepareFails, Alloc, Assign, ExecPre,
       execute_prepared, Dtor, paramVars

\* The slot of a value that its declared type is for has the type of its column.
LEMMA AcceptedHasType ==
  ASSUME NEW copy, NEW k \in Declarable, NEW v \in Values, NEW s,
         Accept(s) \in hook(copy, k, v), Fits(k, v), v.type # "null"
  PROVE  s.type = ColumnType(k) /\ s.type # "NULL"
<1> DEFINE t == TypeOf(k)
<1>1. Accept(s) \in hook_80000(k, v)
  BY CopiesAgree
<1>2. /\ \A r : Accept(s) = Accept(r) => s = r
      /\ Accept(s) # Reject /\ Accept(s) # Crash
  BY DEF Accept, Reject, Crash
<1>3. ~IsNull(k, v)
  BY DEF IsNull, Fits, Integral, SignedInts, UnsignedInts, VarTypes
<1>4. CASE t \in UnionTypes \cup {"FLOAT"} \cup VarTypes
  <2>1. s.type = t
    BY <1>1, <1>2, <1>3, <1>4 DEF hook_80000, InUnion, Slot
  <2>2. t # "PARAM_STR" /\ t # "NULL"
    BY <1>4 DEF UnionTypes, Integral, SignedInts, UnsignedInts, VarTypes
  <2>3. k # "PARAM_STR"
    BY <2>2 DEF TypeOf
  <2> QED
    BY <2>1, <2>2, <2>3 DEF ColumnType
<1>5. CASE t \notin UnionTypes \cup {"FLOAT"} \cup VarTypes
  <2>1. k = "PARAM_STR" /\ v.type = "string"
    BY <1>5 DEF Fits, UnionTypes, TypeOf
  <2>2. Accept(s) \in FillDefault(k, v)
    BY <1>1, <1>3, <1>5 DEF hook_80000, InUnion
  <2>3. s = Slot("BINARY", "text")
    BY <1>2, <2>1, <2>2 DEF FillDefault
  <2> QED
    BY <2>1, <2>3 DEF Slot, ColumnType
<1> QED
  BY <1>4, <1>5

LEMMA TripInitInv == TripInit => TableInv /\ HandInv
BY DEF TripInit, Reader!Init, TableInv, HandInv

\* Writing keeps the table what was bound.
LEMMA WriteKeeps ==
  ASSUME IInv, IInv', TableInv, HandInv, Write
  PROVE  TableInv' /\ HandInv'
<1>1. /\ phase # "freed"
      /\ Executes => execute_prepared
      /\ ~Registers => param' = param
  BY WriterSteps DEF Write
<1>2. HandInv'
  BY <1>1 DEF Write, readerVars, HandInv
<1>3. CASE Executes /\ Inserts
  <2>1. param' = param /\ answer = "true" /\ answer' = "executed"
    BY <1>1, <1>3 DEF execute_prepared, Executes
  <2>2. PICK col \in ColumnsFor(slot.type) :
          \E c \in StoredAs(col, taken') : table' = {[column |-> col, cell |-> c]}
    BY <1>3 DEF Inserts
  <2>3. PICK c \in StoredAs(col, taken') : table' = {[column |-> col, cell |-> c]}
    BY <2>2
  <2>4. col \in Reader!Columns /\ c \in Reader!Cells(col)
    BY <2>2, <2>3 DEF ColumnsFor, StoredAs
  <2>5. ASSUME Fits(param.declared, param.value)
        PROVE  /\ c \in StoredAs(col, Wanted(param.declared, param.value))
               /\ param.value.type # "null" => col.type = ColumnType(param.declared)
    <3>1. taken' = Wanted(param.declared, param.value)
      BY <2>1, <2>5 DEF IInv, TakenAsBound
    <3>2. PICK copy \in Copies : Accept(slot) \in hook(copy, param.declared, param.value)
      BY <2>1 DEF IInv, SlotInv
    <3>3. param.declared \in Declarable /\ param.value \in Values
      BY DEF IInv, TypeOK
    <3>4. param.value.type # "null" =>
            slot.type = ColumnType(param.declared) /\ slot.type # "NULL"
      BY <2>5, <3>2, <3>3, AcceptedHasType
    <3> QED
      BY <2>2, <2>3, <3>1, <3>4 DEF ColumnsFor
  <2> QED
    BY <1>2, <2>1, <2>3, <2>4, <2>5 DEF TableInv
<1>4. CASE Executes /\ InsertFails
  <2>1. param' = param /\ table' = table
    BY <1>1, <1>4 DEF execute_prepared, InsertFails
  <2> QED
    BY <1>2, <2>1 DEF TableInv
<1>5. CASE ~Executes /\ Registers
  BY <1>2, <1>5 DEF Write, TableInv
<1>6. CASE ~Executes /\ ~Registers
  BY <1>1, <1>2, <1>6 DEF Write, TableInv
<1> QED
  BY <1>3, <1>4, <1>5, <1>6 DEF Write

\* Reading keeps in hand what is in the table.
LEMMA ReadKeeps ==
  ASSUME TableInv, HandInv, Read
  PROVE  TableInv' /\ HandInv'
<1>1. /\ phase' = phase /\ phase = "freed" /\ table' = table /\ param' = param
      /\ \A row \in table :
           /\ step' = "executed" => column' = row.column
           /\ step' = "fetched" => cell' = row.cell
  BY DEF Read, vars, paramVars
<1>2. TableInv'
  BY <1>1 DEF TableInv
<1>3. /\ step' \notin {"start", "connected", "executed"} =>
           column' = column /\ step \notin {"start", "connected"}
      /\ step' = "read" => cell' = cell /\ step \in {"fetched", "read"}
  BY DEF Read, Reader!Next, Reader!Connect, Reader!OtherConnects, Reader!Execute, Reader!Describe,
         Reader!FetchRow, Reader!FetchValue, Reader!FetchValueSmashes, Reader!columnVars
<1> QED
  BY <1>1, <1>2, <1>3 DEF HandInv

\* The table has what was bound, and the reader what is in the table.
THEOREM TableAgrees == TripSpec => [](TableInv /\ HandInv)
<1>1. IInv /\ IInv' /\ TableInv /\ HandInv /\ [TripNext]_tripVars => (TableInv /\ HandInv)'
  <2>1. CASE UNCHANGED tripVars
    BY <2>1 DEF tripVars, vars, paramVars, readerVars, TableInv, HandInv
  <2> QED
    BY <2>1, WriteKeeps, ReadKeeps DEF TripNext
<1> QED
  BY <1>1, TripInitInv, WriterHolds, PTL DEF TripSpec

(***************************************************************************)
(* What is read.                                                           *)
(***************************************************************************)

\* The values a declared type is for, and the type of the column they are in.
LEMMA FittingValues ==
  ASSUME NEW k, NEW v \in Values, Fits(k, v), NEW t, t = ColumnType(k)
  PROVE  \/ v.type = "null"
         \/ v.type = "long" /\ t \in Integral /\ v.n \in IntRange(t)
         \/ v.type = "long" /\ t = "TIMESTAMP" /\ v.n \in IntRange("BIGINT")
         \/ v.type = "long" /\ t = "BOOL"
         \/ v.type = "double" /\ t \in {"FLOAT", "DOUBLE"}
         \/ v.type = "string" /\ t \in VarTypes
<1>1. CASE k = "PARAM_STR"
  BY <1>1
     DEF Fits, ColumnType, TypeOf, Integral, SignedInts, UnsignedInts, VarTypes
<1>2. CASE k # "PARAM_STR"
  BY <1>2 DEF Fits, ColumnType, TypeOf
<1> QED
  BY <1>1, <1>2

\* A cell with a bound value in it is read as that value.
LEMMA CellReadsBack ==
  ASSUME NEW k \in Declarable, NEW v \in Values, Fits(k, v),
         NEW col \in ReaderP!Columns, NEW c \in StoredAs(col, Wanted(k, v)),
         v.type # "null" => col.type = ColumnType(k),
         NEW r,
         \/ r = ReaderP!Promise(build, col, c)
         \/ ReaderP!Excused(build, col, c, r),
         ReaderP!Recoverable(col, c, r)
  PROVE  \/ build < 80100 /\ col.type \notin VarTypes /\ r = Reader!Garbage
         \/ SameValue(v, col, r)
<1> DEFINE lost == build < 80100 /\ col.type \notin VarTypes /\ r = Reader!Garbage
<1> USE DEF Reader!Null, ReaderP!Null, SameValue
<1>1. /\ c.null => c.number = 0
      /\ Wanted(k, v).type # "garbage" => (c.null <=> Wanted(k, v).type = "null")
      /\ /\ Wanted(k, v).type \in {"number", "real"}
         /\ Wanted(k, v).n \in ReaderP!Numbers(col.type)
         => c.number = Wanted(k, v).n
      /\ Wanted(k, v).type = "text" => c.length = v.n
      /\ c.null \in BOOLEAN
  BY SameCells DEF StoredAs, Wanted, Nothing, Number, Real, Chars, Value, ReaderP!Cells
<1>2. ReaderP!Excused(build, col, c, r) =>
        \/ col.type = "DECIMAL" /\ r = ReaderP!Null
        \/ col.type = "TIMESTAMP" /\ c.number < 0 /\ r.kind = "string"
        \/ col.type \in {"FLOAT", "DOUBLE"} /\ c.number # 0 /\ r.kind = "string"
        \/ lost
  <2>1. \A t \in {"FLOAT", "DOUBLE"} : 0 % ReaderP!Grain[t] = 0
    BY ReaderAssumption DEF ReaderP!Grain
  <2> QED
    BY <2>1
       DEF ReaderP!Excused, ReaderP!FloatTypes, ReaderP!Garbage, Reader!Garbage,
           ReaderP!VarTypes, VarTypes
<1>3. CASE v.type = "null"
  <2>1. c.null /\ c.number = 0
    BY <1>1, <1>3 DEF Wanted, Nothing, Value
  <2>2. ReaderP!Promise(build, col, c) = ReaderP!Null
    BY <2>1 DEF ReaderP!Promise
  <2> QED
    BY <1>2, <1>3, <2>1, <2>2
<1>4. CASE v.type # "null"
  <2> DEFINE t == ColumnType(k)
  <2>1. ~c.null /\ col.type = t
    BY <1>1, <1>4, FittingValues DEF Wanted, Number, Real, Chars, Value
  <2>2. CASE v.type = "long" /\ t \in Integral /\ v.n \in IntRange(t)
    <3>1. c.number = v.n
      BY <1>1, <2>1, <2>2
         DEF Wanted, Number, Value, ReaderP!Numbers, ReaderP!IntRange, IntRange,
             ReaderP!Integral, ReaderP!SignedInts, ReaderP!UnsignedInts, Integral, SignedInts,
             UnsignedInts
    <3>2. t \notin {"NULL", "BOOL", "FLOAT", "DOUBLE", "TIMESTAMP", "DECIMAL"}
      BY <2>2 DEF Integral, SignedInts, UnsignedInts
    <3>3. r = ReaderP!Promise(build, col, c) => r.of = <<v.n>> /\ r # ReaderP!Null
      BY <2>1, <3>1, <3>2
         DEF ReaderP!Promise, ReaderP!Meaning, ReaderP!Long, ReaderP!Text
    <3> QED
      BY <1>2, <2>1, <2>2, <3>2, <3>3
  <2>3. CASE v.type = "long" /\ t = "TIMESTAMP" /\ v.n \in IntRange("BIGINT")
    <3>1. c.number = v.n
      BY <1>1, <2>1, <2>3
         DEF Wanted, Number, Value, ReaderP!Numbers, ReaderP!FloatTypes, ReaderP!Integral,
             ReaderP!SignedInts, ReaderP!UnsignedInts
    <3>2. r = ReaderP!Promise(build, col, c) => r.kind = "string"
      BY <2>1, <2>3
         DEF ReaderP!Promise, ReaderP!Text, ReaderP!LongTypes, ReaderP!Integral,
             ReaderP!SignedInts, ReaderP!UnsignedInts
    <3>3. lost \/ r.kind = "string"
      BY <1>2, <2>1, <2>3, <3>2
    <3>4. Reader!Ticks = ReaderP!Ticks
      BY DEF Reader!Ticks, ReaderP!Ticks
    <3>5. lost \/ r.of[1] * Reader!Ticks[col.precision] + r.of[2] = v.n
      BY <2>1, <2>3, <3>1, <3>3, <3>4 DEF ReaderP!Recoverable
    <3> QED
      BY <2>1, <2>3, <3>3, <3>5 DEF Integral, SignedInts, UnsignedInts
  <2>4. CASE v.type = "long" /\ t = "BOOL"
    <3>1. v.n \in {0, 1} => c.number = v.n
      BY <1>1, <2>1, <2>4
         DEF Wanted, Number, Value, ReaderP!Numbers, ReaderP!FloatTypes, ReaderP!Integral,
             ReaderP!SignedInts, ReaderP!UnsignedInts
    <3>2. r = ReaderP!Promise(build, col, c) => r.of = <<c.number>> /\ r.kind = "string"
      BY <2>1, <2>4
         DEF ReaderP!Promise, ReaderP!Text, ReaderP!Meaning, ReaderP!LongTypes,
             ReaderP!Integral, ReaderP!SignedInts, ReaderP!UnsignedInts
    <3> QED
      BY <1>2, <2>1, <2>4, <3>1, <3>2 DEF Integral, SignedInts, UnsignedInts
  <2>5. CASE v.type = "double" /\ t \in {"FLOAT", "DOUBLE"}
    <3> DEFINE d == IF t = "FLOAT" THEN AsFloat[v.n] ELSE v.n
    <3>1. v.n \in Doubles /\ d \in Doubles
      BY <2>5, FloatAssumption DEF Values, Value
    <3>2. Wanted(k, v) = Real(d)
      BY <2>5 DEF Wanted, ColumnType, TypeOf
    <3>3. c.number = d
      BY <1>1, <2>1, <2>5, <3>1, <3>2
         DEF Real, Value, ReaderP!Numbers, ReaderP!FloatTypes, ReaderP!Integral,
             ReaderP!SignedInts, ReaderP!UnsignedInts
    <3>4. lost \/ r.kind = "string"
      <4>1. r = ReaderP!Promise(build, col, c) => r.kind = "string"
        BY <2>1, <2>5
           DEF ReaderP!Promise, ReaderP!Text, ReaderP!LongTypes, ReaderP!Integral,
               ReaderP!SignedInts, ReaderP!UnsignedInts
      <4> QED
        BY <1>2, <2>1, <2>5, <4>1
    <3>5. lost \/ Reader!Near(r.of[1], d, Reader!Grain[t])
      BY <2>1, <2>5, <3>3, <3>4
         DEF ReaderP!Recoverable, ReaderP!FloatTypes, ReaderP!Near, ReaderP!Grain,
             Reader!Near, Reader!Grain
    <3> QED
      BY <2>1, <2>5, <3>4, <3>5
  <2>6. CASE v.type = "string" /\ t \in VarTypes
    <3>1. c.length = v.n
      BY <1>1, <2>6 DEF Wanted, Chars, Value
    <3>2. t \notin {"NULL", "FLOAT", "DOUBLE", "TIMESTAMP", "DECIMAL"} \cup Integral
      BY <2>6 DEF VarTypes, Integral, SignedInts, UnsignedInts
    <3>3. r = ReaderP!Promise(build, col, c) => r.length = v.n /\ r.kind = "string"
      BY <2>1, <3>1, <3>2
         DEF ReaderP!Promise, ReaderP!Text, ReaderP!LongTypes, ReaderP!Integral,
             ReaderP!SignedInts, ReaderP!UnsignedInts, Integral, SignedInts, UnsignedInts
    <3> QED
      BY <1>2, <2>1, <2>6, <3>2, <3>3
  <2> QED
    BY <1>4, <2>2, <2>3, <2>4, <2>5, <2>6, FittingValues
<1> QED
  BY <1>3, <1>4

\* A value bound as a type it fits is read back as that value: what TaosParams
\* hands to the library and what TaosValues makes of it fit together, for every
\* PHP, type and width; a double to half of the last printed place.
THEOREM BoundIsRead == TripSpec => []ReadsBack
<1>1. IInv /\ ReaderP!IInv /\ TableInv /\ HandInv => ReadsBack
  <2> SUFFICES ASSUME IInv, ReaderP!IInv, TableInv, HandInv,
                      step = "read", Fits(param.declared, param.value), NEW row \in table
               PROVE  \/ build < 80100 /\ row.column.type \notin VarTypes /\ result = Reader!Garbage
                      \/ SameValue(param.value, row.column, result)
    BY DEF ReadsBack
  <2>1. row.column = column /\ row.cell = cell
    BY DEF HandInv
  <2>2. /\ result = ReaderP!Promise(build, column, cell)
             \/ ReaderP!Excused(build, column, cell, result)
        /\ ReaderP!Recoverable(column, cell, result)
    BY DEF ReaderP!IInv, ReaderP!FetchFaithful
  <2>3. param.declared \in Declarable /\ param.value \in Values
    BY DEF IInv, TypeOK
  <2>4. /\ column \in ReaderP!Columns
        /\ cell \in StoredAs(column, Wanted(param.declared, param.value))
        /\ param.value.type # "null" => column.type = ColumnType(param.declared)
    BY <2>1, SameCells DEF TableInv
  <2> QED
    BY <2>1, <2>2, <2>3, <2>4, CellReadsBack
<1> QED
  BY <1>1, WriterHolds, ReaderHolds, TableAgrees, PTL

=============================================================================
