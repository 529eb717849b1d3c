-------------------------- MODULE TaosValuesProofs --------------------------
(***************************************************************************)
(* Theorems about TaosValues, for any widths, instants, zones and builds:  *)
(* the arithmetic of the conversions first, then what one get_col answers, *)
(* then the invariant of the process.                                      *)
(***************************************************************************)
EXTENDS TaosValues, TLAPS

(***************************************************************************)
(* Arithmetic.                                                             *)
(***************************************************************************)

\* A signed integer survives storing and reading, over its whole range.
LEMMA SignedRoundTrip ==
  ASSUME NEW h \in Nat \ {0}, NEW n \in -h .. h - 1
  PROVE  AsSigned(Stored(n, h), h) = n
BY DEF AsSigned, Stored

\* So does an unsigned one.
LEMMA UnsignedRoundTrip ==
  ASSUME NEW h \in Nat \ {0}, NEW n \in 0 .. 2 * h - 1
  PROVE  AsUnsigned(Stored(n, h), h) = n
BY DEF AsUnsigned, Stored

\* The number a get_col reads is the number the library stored, for each
\* integer type.
LEMMA IntegersRead ==
  ASSUME NEW t \in Integral, NEW n \in Numbers(t)
  PROVE  ReadNumber(t, n) = n /\ n \in Int
<1>1. Half[t] \in Nat \ {0}
  BY HalfAssumption
<1>2. CASE t \in SignedInts
  <2>1. n \in -Half[t] .. Half[t] - 1
    BY <1>2 DEF Numbers, IntRange, Integral
  <2> QED
    BY <1>1, <1>2, <2>1, SignedRoundTrip DEF ReadNumber, ReadInt
<1>3. CASE t \in UnsignedInts
  <2>1. n \in 0 .. 2 * Half[t] - 1 /\ t \notin SignedInts
    BY <1>3 DEF Numbers, IntRange, Integral, SignedInts, UnsignedInts
  <2> QED
    BY <1>1, <2>1, UnsignedRoundTrip DEF ReadNumber, ReadInt
<1> QED
  BY <1>2, <1>3 DEF Integral

\* The 16 bits in front of a value hold its length.
LEMMA VarLenReads ==
  ASSUME NEW n \in 0 .. MaxVarLen
  PROVE  VarLen(n) = n
BY VarAssumption DEF VarLen, AsSigned, Stored

\* Seconds and fraction: integers that give back the instant; and the calendar
\* second and a fraction of it whenever the instant is not negative or is a
\* whole second.
LEMMA SplitIsExact ==
  ASSUME NEW p \in Precisions, NEW n \in Int
  PROVE  /\ Ticks[p] \in Nat
         /\ CDiv(n, Ticks[p]) \in Int /\ CMod(n, Ticks[p]) \in Int
         /\ CDiv(n, Ticks[p]) * Ticks[p] + CMod(n, Ticks[p]) = n
         /\ n >= 0 \/ n % Ticks[p] = 0 =>
              CDiv(n, Ticks[p]) = n \div Ticks[p] /\ CMod(n, Ticks[p]) = n % Ticks[p]
<1>1. CASE p = "MILLI"
  <2>1. Ticks[p] = 1000
    BY <1>1 DEF Ticks
  <2> QED
    BY <2>1 DEF CDiv, CMod
<1>2. CASE p = "MICRO"
  <2>1. Ticks[p] = 1000000
    BY <1>2 DEF Ticks
  <2> QED
    BY <2>1 DEF CDiv, CMod
<1>3. CASE p = "NANO"
  <2>1. Ticks[p] = 1000000000
    BY <1>3 DEF Ticks
  <2> QED
    BY <2>1 DEF CDiv, CMod
<1> QED
  BY <1>1, <1>2, <1>3 DEF Precisions

\* Division of TLA+: a whole quotient and a rest below the divisor.
LEMMA DivisionHolds ==
  ASSUME NEW n \in Int, NEW g \in Nat \ {0}
  PROVE  /\ n \div g \in Int /\ n % g \in 0 .. g - 1
         /\ n = (n \div g) * g + (n % g)
OBVIOUS

\* A rounded number is at most half a last place away from the number, and is
\* the number if that has no more decimals.
LEMMA RoundedIsNear ==
  ASSUME NEW n \in Int, NEW g \in Nat \ {0}
  PROVE  /\ Rounded(n, g) \in Int
         /\ Near(Rounded(n, g), n, g)
         /\ n % g = 0 => Rounded(n, g) = n
<1> DEFINE q == n \div g
           r == n % g
<1>1. q \in Int /\ r \in 0 .. g - 1 /\ n = q * g + r
  BY DivisionHolds
<1>2. q * g \in Int /\ (q + 1) * g = q * g + g
  BY <1>1
<1>3. Rounded(n, g) = IF 2 * r < g \/ (2 * r = g /\ q % 2 = 0) THEN q * g ELSE (q + 1) * g
  BY DEF Rounded
<1> HIDE DEF q, r
<1> QED
  BY <1>1, <1>2, <1>3 DEF Near

\* The last places of a FLOAT and of a DOUBLE.
LEMMA GrainType == \A t \in FloatTypes : Grain[t] \in Nat \ {0}
BY FloatsAssumption DEF FloatTypes, Grain

(***************************************************************************)
(* One get_col.                                                            *)
(***************************************************************************)

\* A cell's number is an integer, its length a natural number.
LEMMA CellTypes ==
  ASSUME NEW col \in Columns, NEW c \in Cells(col)
  PROVE  /\ col.type \in Types /\ col.precision \in Precisions
         /\ c.number \in Numbers(col.type) /\ c.number \in Int
         /\ c.length \in Nat /\ c.null \in BOOLEAN
<1>1. col.type \in Types /\ col.precision \in Precisions
  BY DEF Columns
<1>2. /\ c.number \in Numbers(col.type) /\ c.null \in BOOLEAN
      /\ c.length \in TextLengths(col.type, col.precision)
  BY DEF Cells
<1>3. c.number \in Int
  <2>1. CASE col.type \in Integral
    BY <1>2, <2>1, IntegersRead
  <2>2. CASE col.type \notin Integral
    <3>1. \/ Numbers(col.type) = {0, 1}
          \/ Numbers(col.type) = Stamps
          \/ Numbers(col.type) = Floats
          \/ Numbers(col.type) = {0}
      BY <2>2 DEF Numbers
    <3>2. \A s \in Stamps \cup Floats : s \in Int
      BY StampsAssumption, FloatsAssumption
    <3>3. c.number \in {0, 1} \/ c.number \in Stamps \cup Floats
      BY <1>2, <3>1
    <3> QED
      BY <3>2, <3>3
  <2> QED
    BY <2>1, <2>2
<1>4. StampLength[col.precision] \in Nat
  BY <1>1 DEF StampLength, Precisions
<1>5. c.length \in Nat
  <2>1. \/ c.length = 1
        \/ c.length = StampLength[col.precision]
        \/ c.length \in 0 .. MaxVarLen
        \/ c.length \in Lengths
        \/ \E n \in Lengths : c.length = n + Decimals["FLOAT"] \/ c.length = n + Decimals["DOUBLE"]
    BY <1>2 DEF TextLengths, FloatTypes
  <2>2. \A k \in Lengths : k \in Nat /\ k + Decimals["FLOAT"] \in Nat /\ k + Decimals["DOUBLE"] \in Nat
    BY LengthsAssumption DEF Decimals
  <2>3. \A k \in 0 .. MaxVarLen : k \in Nat
    BY VarAssumption
  <2> QED
    BY <1>4, <2>1, <2>2, <2>3
<1> QED
  BY <1>1, <1>2, <1>3, <1>5

\* The length handed on is the length of the text, for every type.
LEMMA TextLengthReads ==
  ASSUME NEW col \in Columns, NEW c \in Cells(col)
  PROVE  TextLength(col, c) = c.length
<1>1. CASE col.type \in VarTypes
  <2>1. c.length \in 0 .. MaxVarLen
    BY <1>1 DEF Cells, TextLengths, VarTypes, FloatTypes
  <2> QED
    BY <1>1, <2>1, VarLenReads DEF TextLength
<1>2. CASE col.type \notin VarTypes
  BY <1>2 DEF TextLength
<1> QED
  BY <1>1, <1>2

\* What get_col makes of a cell: a tuple of integers, which gives back an instant
\* and is near a FLOAT or DOUBLE, and the meaning of the cell unless that is an
\* instant before 1970 between two seconds or has too many decimals.
LEMMA ContentReads ==
  ASSUME NEW col \in Columns, NEW c \in Cells(col)
  PROVE  /\ Content(col, c) \in Seq(Int)
         /\ col.type = "TIMESTAMP" =>
              Content(col, c)[1] * Ticks[col.precision] + Content(col, c)[2] = c.number
         /\ col.type \in FloatTypes => Near(Content(col, c)[1], c.number, Grain[col.type])
         /\ \/ Content(col, c) = Meaning(col, c)
            \/ /\ col.type = "TIMESTAMP" /\ c.number < 0
               /\ c.number % Ticks[col.precision] # 0
            \/ col.type \in FloatTypes /\ c.number % Grain[col.type] # 0
<1> USE CellTypes
<1> USE DEF FloatTypes, Integral, SignedInts, UnsignedInts
<1>1. CASE col.type \in Integral
  <2>1. col.type # "TIMESTAMP" /\ col.type \notin FloatTypes
    BY <1>1
  <2>2. ReadNumber(col.type, c.number) = c.number
    BY <1>1, IntegersRead
  <2> QED
    BY <1>1, <2>1, <2>2 DEF Content, Meaning
<1>2. CASE col.type = "TIMESTAMP"
  <2>1. col.type \notin Integral \cup FloatTypes /\ col.type # "BOOL"
    BY <1>2
  <2>2. Content(col, c) = <<CDiv(c.number, Ticks[col.precision]), CMod(c.number, Ticks[col.precision])>>
    BY <1>2, <2>1 DEF Content, SplitStamp
  <2>3. Meaning(col, c) = <<c.number \div Ticks[col.precision], c.number % Ticks[col.precision]>>
    BY <1>2 DEF Meaning
  <2> QED
    BY <1>2, <2>1, <2>2, <2>3, SplitIsExact
<1>3. CASE col.type = "BOOL"
  <2>1. c.number \in {0, 1}
    BY <1>3 DEF Numbers
  <2> QED
    BY <1>3, <2>1 DEF Content, Meaning
<1>4. CASE col.type \in FloatTypes
  <2> DEFINE g == Grain[col.type]
  <2>1. Content(col, c) = <<Rounded(c.number, g)>> /\ Meaning(col, c) = <<c.number>>
    BY <1>4 DEF Content, Meaning
  <2>2. /\ Rounded(c.number, g) \in Int /\ Near(Rounded(c.number, g), c.number, g)
        /\ c.number % g = 0 => Rounded(c.number, g) = c.number
    BY <1>4, GrainType, RoundedIsNear
  <2> QED
    BY <1>4, <2>1, <2>2
<1>5. CASE col.type \notin Integral \cup FloatTypes \cup {"TIMESTAMP", "BOOL"}
  BY <1>5 DEF Content, Meaning
<1> QED
  BY <1>1, <1>2, <1>3, <1>4, <1>5

\* The two generations never meet: the copy a build compiles is the one for
\* the interface of its PHP.
LEMMA RightInterface ==
  ASSUME NEW b \in Builds
  PROVE  ZvalInterface(b) <=> StatementCopy(b) = "80100"
BY BuildsAssumption DEF ZvalInterface, StatementCopy

\* NULL, and a type without a case, read as NULL.
LEMMA NullReads ==
  ASSUME NEW b, NEW col \in Columns, NEW c \in Cells(col), c.null \/ ~HasCase(col.type)
  PROVE  /\ Null \in Results /\ Recoverable(col, c, Null)
         /\ Null = Promise(b, col, c) \/ Excused(b, col, c, Null)
<1>1. Null \in Results /\ Recoverable(col, c, Null)
  BY DEF Null, Results, Recoverable
<1>2. CASE c.null \/ col.type = "NULL"
  BY <1>1, <1>2 DEF Promise
<1>3. CASE col.type = "DECIMAL"
  BY <1>1, <1>3 DEF Excused
<1> QED
  BY <1>1, <1>2, <1>3 DEF HasCase

\* A text with the content and the length of the cell is what was promised.
LEMMA TextReads ==
  ASSUME NEW b, NEW col \in Columns, NEW c \in Cells(col),
         Promise(b, col, c) = Text(Meaning(col, c), c.length),
         NEW r, r = Text(Content(col, c), c.length)
  PROVE  /\ r \in Results
         /\ r = Promise(b, col, c) \/ Excused(b, col, c, r)
         /\ Recoverable(col, c, r)
<1>1. c.length \in Int
  BY CellTypes
<1>2. r.of = Content(col, c) /\ r.kind = "string"
  BY DEF Text
<1>3. Content(col, c) \in Seq(Int)
  BY ContentReads
<1>4. r \in Results
  BY <1>1, <1>3 DEF Text, Results
<1>5. r = Promise(b, col, c) \/ Excused(b, col, c, r)
  <2>1. CASE Content(col, c) = Meaning(col, c)
    BY <2>1
  <2>2. CASE Content(col, c) # Meaning(col, c)
    BY <1>2, <2>2, ContentReads DEF Excused
  <2> QED
    BY <2>1, <2>2
<1>6. Recoverable(col, c, r)
  BY <1>2, ContentReads DEF Recoverable
<1> QED
  BY <1>4, <1>5, <1>6

\* The answer of get_col in PHP 8.1 and later.
LEMMA GetCol80100Reads ==
  ASSUME NEW b \in Builds, b >= 80100, NEW col \in Columns, NEW c \in Cells(col),
         NEW r, r = get_col_80100(col, c)
  PROVE  /\ r \in Results
         /\ r = Promise(b, col, c) \/ Excused(b, col, c, r)
         /\ Recoverable(col, c, r)
<1>a. /\ c.number \in Int /\ c.length \in Nat
      /\ TextLength(col, c) = c.length
  BY CellTypes, TextLengthReads
<1>1. CASE c.null \/ ~HasCase(col.type)
  <2>1. r = Null
    BY <1>1 DEF get_col_80100
  <2> QED
    BY <1>1, <2>1, NullReads
<1>2. CASE ~c.null /\ HasCase(col.type) /\ col.type \in LongTypes
  <2>1. r = Long(c.number)
    BY <1>2, CellTypes, IntegersRead DEF get_col_80100, LongTypes
  <2>2. col.type \notin {"NULL", "TIMESTAMP"}
    BY <1>2 DEF LongTypes, Integral, SignedInts, UnsignedInts
  <2>3. r = Promise(b, col, c)
    BY <1>2, <2>1, <2>2 DEF Promise
  <2> QED
    BY <1>a, <2>1, <2>3 DEF Long, Results, Recoverable
<1>3. CASE ~c.null /\ HasCase(col.type) /\ col.type \notin LongTypes
  <2>1. r = Text(Content(col, c), c.length)
    BY <1>3, <1>a DEF get_col_80100
  <2>2. Promise(b, col, c) = Text(Meaning(col, c), c.length)
    BY <1>3 DEF Promise, HasCase
  <2> QED
    BY <1>a, <2>1, <2>2, TextReads
<1> QED
  BY <1>1, <1>2, <1>3

\* What the core copies out of a legacy get_col.
LEMMA LegacyReads ==
  ASSUME NEW b \in Builds, b < 80100, NEW col \in Columns, NEW c \in Cells(col), NEW copy,
         out_length = Bytes(col.type), buffer_length = Bytes(col.type),
         NEW r \in Copied("STR", LegacyGetCol(copy, col, c))
  PROVE  /\ r \in Results
         /\ r = Promise(b, col, c) \/ Excused(b, col, c, r)
         /\ Recoverable(col, c, r)
<1>a. /\ c.number \in Int /\ c.length \in Nat
      /\ TextLength(col, c) = c.length
  BY CellTypes, TextLengthReads
<1> DEFINE answer == get_col_80000(col, c)
<1>1. r \in Copied("STR", answer)
  BY DEF LegacyGetCol, get_col_70300, get_col_70000
<1>2. CASE c.null \/ ~HasCase(col.type)
  <2>1. answer = Unset
    BY <1>2 DEF get_col_80000
  <2>2. r = Null
    BY <1>1, <2>1 DEF Copied, Unset
  <2> QED
    BY <1>2, <2>2, NullReads
<1>3. CASE ~c.null /\ HasCase(col.type)
  <2>1. Bytes(col.type) \in Nat
    BY VarAssumption DEF Bytes
  <2>2. col.type = "BOOL" => c.length = 1 /\ Bytes(col.type) = 1
    BY DEF Cells, TextLengths, Bytes
  <2>3. /\ answer.to = IF col.type \in VarTypes THEN "row" ELSE "frame"
        /\ answer.of = Content(col, c)
        /\ answer.length = c.length
    BY <1>3, <1>a, <2>1, <2>2 DEF get_col_80000
  <2>4. \/ r = Text(Content(col, c), c.length)
        \/ r = Garbage /\ col.type \notin VarTypes
    BY <1>1, <2>3 DEF Copied
  <2>5. Promise(b, col, c) = Text(Meaning(col, c), c.length)
    BY <1>3, BuildsAssumption DEF Promise, HasCase
  <2>6. CASE r = Text(Content(col, c), c.length)
    BY <1>a, <2>5, <2>6, TextReads
  <2>7. CASE r = Garbage /\ col.type \notin VarTypes
    BY <2>7 DEF Garbage, Results, Excused, Recoverable
  <2> QED
    BY <2>4, <2>6, <2>7
<1> QED
  BY <1>2, <1>3

(***************************************************************************)
(* The process.                                                            *)
(***************************************************************************)

\* Whatever get_col may answer for a fetched cell is typed and faithful.
LEMMA FetchedReads ==
  ASSUME TypeOK, WidthInv, DescribedInv, CellInv, step = "fetched",
         NEW r \in Fetched(build, column, cell)
  PROVE  /\ r \in Results
         /\ r = Promise(build, column, cell) \/ Excused(build, column, cell, r)
         /\ Recoverable(column, cell, r)
<1>1. build \in Builds /\ build \in Nat /\ column \in Columns /\ cell \in Cells(column)
  BY BuildsAssumption DEF TypeOK, CellInv
<1>2. ZvalInterface(build) <=> StatementCopy(build) = "80100"
  BY <1>1, RightInterface
<1>3. CASE build >= 80100
  <2>1. r = get_col_80100(column, cell)
    BY <1>2, <1>3 DEF Fetched, ZvalInterface
  <2> QED
    BY <1>1, <1>3, <2>1, GetCol80100Reads
<1>4. CASE build < 80100
  <2>1. r \in Copied(param_type, LegacyGetCol(StatementCopy(build), column, cell))
    BY <1>1, <1>2, <1>4 DEF Fetched, ZvalInterface
  <2>2. param_type = "STR"
    BY <1>4 DEF DescribedInv
  <2>3. out_length = Bytes(column.type) /\ buffer_length = Bytes(column.type)
    BY DEF WidthInv
  <2> QED
    BY <1>1, <1>4, <2>1, <2>2, <2>3, LegacyReads
<1> QED
  BY <1>1, <1>3, <1>4

\* The width of a column is a number of bytes.
LEMMA BytesType == \A t \in Types : Bytes(t) \in Nat
BY VarAssumption DEF Bytes

\* Setting an option keeps the zone among those named.
LEMMA OptionsKeepsZones ==
  ASSUME TypeOK, ZoneInv, NEW z \in Zones \cup {"none"}, Options(z)
  PROVE  /\ zone' \in Zones \cup {"system"} /\ named' \subseteq Zones
         /\ IF named' = {} THEN zone' = "system" ELSE zone' \in named'
         /\ named \subseteq named' /\ (z # "none" => z \in named')
<1>1. CASE z = "none"
  <2>1. zone' = zone /\ named' = named
    BY <1>1 DEF Options
  <2>2. named \subseteq Zones /\ zone \in Zones \cup {"system"}
    BY DEF TypeOK
  <2>3. IF named = {} THEN zone = "system" ELSE zone \in named
    BY DEF ZoneInv
  <2> QED
    BY <1>1, <2>1, <2>2, <2>3
<1>2. CASE z # "none"
  BY <1>2 DEF TypeOK, ZoneInv, Options
<1> QED
  BY <1>1, <1>2

\* The one digit of a BOOL and the NUL behind it do not fit an array of one byte,
\* nor do a digit, a point and the decimals those of a FLOAT and a DOUBLE.
LEMMA ShortArraysOverrun ==
  ASSUME NEW copy, NEW c \in Cells(column), WidthInv, step \notin {"start", "connected"},
         column.type \in {"BOOL", "FLOAT", "DOUBLE"}, ~c.null
  PROVE  Overruns(copy, column, c)
<1>1. out_length = IF column.type = "BOOL" THEN 1 ELSE IF column.type = "FLOAT" THEN 4 ELSE 8
  BY DEF WidthInv, Bytes
<1>2. CASE column.type = "BOOL"
  <2>1. c.length = 1
    BY <1>2 DEF Cells, TextLengths
  <2> QED
    BY <1>1, <1>2, <2>1 DEF Overruns, ValuePrinted
<1>3. CASE column.type \in FloatTypes
  <2>1. PICK n \in Lengths : c.length = n + Decimals[column.type]
    BY <1>3 DEF Cells, TextLengths, FloatTypes
  <2>2. n \in Nat \ {0}
    BY LengthsAssumption
  <2>3. c.length + 1 > out_length
    BY <1>1, <1>3, <2>1, <2>2 DEF FloatTypes, Decimals
  <2> QED
    BY <1>3, <2>3 DEF Overruns, ValuePrinted
<1> QED
  BY <1>2, <1>3 DEF FloatTypes

\* The invariant holds at the start.
LEMMA InitIInv == Init => IInv
<1> SUFFICES ASSUME Init PROVE IInv
  OBVIOUS
<1>1. TypeOK
  BY DEF Init, TypeOK, Steps, Columns, Types, Precisions, NoCell, Null, Results
<1>2. WidthInv /\ DescribedInv /\ CellInv /\ ZoneInv
  BY DEF Init, WidthInv, DescribedInv, CellInv, ZoneInv
<1> QED
  BY <1>1, <1>2 DEF Init, IInv, FetchFaithful, OverrunExplained, ZoneAsAsked

\* Every step of the script and of the other connections keeps it.
LEMMA NextIInv == IInv /\ [Next]_vars => IInv'
<1> SUFFICES ASSUME IInv, [Next]_vars PROVE IInv'
  OBVIOUS
<1> USE DEF IInv
<1>1. ASSUME NEW z \in Zones \cup {"none"}, Connect(z) PROVE IInv'
  <2>1. /\ zone' \in Zones \cup {"system"} /\ named' \subseteq Zones
        /\ IF named' = {} THEN zone' = "system" ELSE zone' \in named'
        /\ z # "none" => z \in named'
    BY <1>1, OptionsKeepsZones DEF Connect
  <2>2. TypeOK'
    BY <1>1, <2>1 DEF Connect, TypeOK, Steps, columnVars
  <2>3. ZoneInv'
    BY <1>1, <2>1, ZonesAssumption DEF Connect, ZoneInv
  <2> QED
    BY <1>1, <2>2, <2>3 DEF Connect, WidthInv, DescribedInv, CellInv, FetchFaithful,
       OverrunExplained, ZoneAsAsked
<1>2. ASSUME NEW z \in Zones \cup {"none"}, OtherConnects(z) PROVE IInv'
  <2>1. /\ zone' \in Zones \cup {"system"} /\ named' \subseteq Zones
        /\ IF named' = {} THEN zone' = "system" ELSE zone' \in named'
        /\ named \subseteq named'
    BY <1>2, OptionsKeepsZones DEF OtherConnects
  <2>2. UNCHANGED <<build, asked, step, columnVars, cell, result, shown>>
    BY <1>2 DEF OtherConnects
  <2>3. TypeOK'
    BY <2>1, <2>2 DEF TypeOK, columnVars
  <2>4. ZoneInv'
    BY <2>1, <2>2 DEF ZoneInv
  <2>5. ZoneAsAsked'
    BY <2>1, <2>2 DEF ZoneAsAsked
  <2> QED
    BY <2>2, <2>3, <2>4, <2>5 DEF WidthInv, DescribedInv, CellInv, FetchFaithful,
       OverrunExplained, Overruns, columnVars
<1>3. ASSUME NEW col \in Columns, Execute(col) PROVE IInv'
  <2>1. out_length' = Bytes(col.type) /\ buffer_length' = Bytes(col.type)
    BY <1>3 DEF Execute, execute_prepared, execute_prepared_80100, execute_prepared_80000,
       execute_prepared_70300, execute_prepared_70000, RowBuffer
  <2>2. Bytes(col.type) \in Nat
    BY BytesType DEF Columns
  <2>3. TypeOK'
    BY <1>3, <2>1, <2>2 DEF Execute, TypeOK, Steps, zoneVars, Null, Results
  <2>4. WidthInv'
    BY <1>3, <2>1 DEF Execute, WidthInv
  <2>5. ZoneInv'
    BY <1>3 DEF Execute, ZoneInv, zoneVars
  <2> QED
    BY <1>3, <2>3, <2>4, <2>5 DEF Execute, DescribedInv, CellInv, FetchFaithful,
       OverrunExplained, ZoneAsAsked
<1>4. ASSUME Describe PROVE IInv'
  <2>1. param_type' = IF StatementCopy(build) = "80100" THEN "none" ELSE "STR"
    BY <1>4 DEF Describe, describe, describe_80100, describe_80000, describe_70300, describe_70000
  <2>2. TypeOK'
    BY <1>4, <2>1 DEF Describe, TypeOK, Steps, zoneVars
  <2>3. DescribedInv'
    BY <1>4, <2>1, RightInterface, BuildsAssumption
       DEF Describe, DescribedInv, TypeOK, ZvalInterface
  <2>4. ZoneInv'
    BY <1>4 DEF Describe, ZoneInv, zoneVars
  <2> QED
    BY <1>4, <2>2, <2>3, <2>4 DEF Describe, WidthInv, CellInv, FetchFaithful,
       OverrunExplained, ZoneAsAsked
<1>5. ASSUME NEW c \in Cells(column), FetchRow(c) PROVE IInv'
  <2>1. TypeOK'
    BY <1>5 DEF FetchRow, TypeOK, Steps, zoneVars, columnVars, Null, Results
  <2>2. CellInv'
    BY <1>5 DEF FetchRow, CellInv, columnVars
  <2>3. DescribedInv' /\ WidthInv' /\ ZoneInv'
    BY <1>5 DEF FetchRow, DescribedInv, WidthInv, ZoneInv, columnVars, zoneVars
  <2>4. OverrunExplained'
    <3>1. /\ UNCHANGED columnVars /\ cell' = c /\ step \notin {"start", "connected"}
          /\ step' = "fetched" /\ build' = build
      BY <1>5 DEF FetchRow
    <3>2. column.type \in {"BOOL", "FLOAT", "DOUBLE"} /\ ~c.null =>
            Overruns(StatementCopy(build), column, c)
      BY <3>1, ShortArraysOverrun
    <3> QED
      BY <3>1, <3>2 DEF OverrunExplained, Overruns, columnVars
  <2> QED
    BY <1>5, <2>1, <2>2, <2>3, <2>4 DEF FetchRow, FetchFaithful, ZoneAsAsked
<1>6. ASSUME FetchValue PROVE IInv'
  <2>1. /\ result' \in Results
        /\ result' = Promise(build, column, cell) \/ Excused(build, column, cell, result')
        /\ Recoverable(column, cell, result')
    BY <1>6, FetchedReads DEF FetchValue
  <2>2. UNCHANGED <<build, zone, named, asked, column, out_length, buffer_length, param_type, cell>>
        /\ step = "fetched" /\ step' = "read" /\ shown' = zone
    BY <1>6 DEF FetchValue, zoneVars, columnVars
  <2>3. TypeOK'
    BY <2>1, <2>2 DEF TypeOK, Steps
  <2>4. FetchFaithful'
    BY <2>1, <2>2 DEF FetchFaithful
  <2>5. ZoneAsAsked'
    BY <2>2 DEF ZoneAsAsked, ZoneInv
  <2> QED
    BY <2>2, <2>3, <2>4, <2>5 DEF WidthInv, DescribedInv, CellInv, ZoneInv, OverrunExplained
<1>7. ASSUME FetchValueSmashes PROVE IInv'
  <2>1. UNCHANGED <<build, zone, named, asked, column, out_length, buffer_length, param_type, cell,
                    result, shown>>
        /\ step = "fetched" /\ step' = "smashed"
    BY <1>7 DEF FetchValueSmashes, zoneVars, columnVars
  <2>2. TypeOK'
    BY <2>1 DEF TypeOK, Steps
  <2>3. cell \in Cells(column) /\ column \in Columns
    BY <2>1 DEF CellInv, TypeOK
  <2>4. cell.length \in Nat /\ Bytes(column.type) \in Nat
    BY <2>3, CellTypes, BytesType DEF Columns
  <2>5. cell.length >= Bytes(column.type)
    BY <1>7, <2>1, <2>4 DEF FetchValueSmashes, Overruns, WidthInv
  <2>6. column.type \in {"BOOL", "FLOAT", "DOUBLE", "BIGINT", "UBIGINT"}
                            \cup (IF build >= 80100 THEN {} ELSE Integral)
    BY <1>7, RightInterface DEF FetchValueSmashes, Overruns, ValuePrinted, FloatTypes, TypeOK, ZvalInterface
  <2>7. OverrunExplained'
    BY <2>1, <2>5, <2>6 DEF OverrunExplained
  <2> QED
    BY <2>1, <2>2, <2>7 DEF WidthInv, DescribedInv, CellInv, ZoneInv, FetchFaithful,
       ZoneAsAsked
<1>8. CASE UNCHANGED vars
  BY <1>8 DEF vars, zoneVars, columnVars, TypeOK, WidthInv, DescribedInv, CellInv, ZoneInv,
     FetchFaithful, OverrunExplained, Overruns, ZoneAsAsked
<1> QED
  BY <1>1, <1>2, <1>3, <1>4, <1>5, <1>6, <1>7, <1>8 DEF Next

\* The inductive invariant of the reading process holds in every reachable state.
THEOREM ValuesInvariance == Spec => []IInv
BY InitIInv, NextIInv, PTL DEF Spec

\* Every variable keeps its type.
THEOREM ValuesTypeCorrect == Spec => []TypeOK
<1>1. IInv => TypeOK
  BY DEF IInv
<1> QED
  BY <1>1, ValuesInvariance, PTL

\* A script reads what the library stored, for any width of the integers, any
\* instants, any finite numbers and any PHP, but for the cells that Excused names;
\* of those that are printed at all no tick of an instant is lost, and at most
\* half of the last place of a FLOAT or DOUBLE.
THEOREM ValuesAreFaithful == Spec => []FetchFaithful
<1>1. IInv => FetchFaithful
  BY DEF IInv
<1> QED
  BY <1>1, ValuesInvariance, PTL

\* Timestamps are printed in the zone the connection asked for unless another
\* DSN named a different one.
THEOREM ZonesAreShared == Spec => []ZoneAsAsked
<1>1. IInv => ZoneAsAsked
  BY DEF IInv
<1> QED
  BY <1>1, ValuesInvariance, PTL

\* Which columns overrun the array they are printed into.
THEOREM OverrunsAreExplained == Spec => []OverrunExplained
<1>1. IInv => OverrunExplained
  BY DEF IInv
<1> QED
  BY <1>1, ValuesInvariance, PTL

=============================================================================
