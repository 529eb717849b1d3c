----------------------------- MODULE TaosParams -----------------------------
(***************************************************************************)
(* What the library is given for a bound parameter, and the memory a       *)
(* statement needs for it.  TaosStatement has the order of the events of   *)
(* all parameters; here one parameter at a time is followed from its       *)
(* registration through EXEC_PRE to taos_stmt_bind_param, with the type    *)
(* the script declares, the type and the number of the PHP value, the      *)
(* place of its null flag, and the blocks that are allocated on the way.   *)
(***************************************************************************)
EXTENDS TaosVersions, TaosTypes, FiniteSets

CONSTANTS
  MaxParams, \* placeholders of a statement
  Doubles,   \* PHP doubles
  AsFloat,   \* the float that (float) makes of each of them
  Texts,     \* lengths of PHP strings
  Errnos,    \* what a failing library call answers: nonzero 32-bit integers
  HalfErrno  \* half the range of an int

ASSUME ParamsAssumption == MaxParams \in Nat
\* 1 stands for the length of a number that was converted to text.
ASSUME ContentsAssumption == Doubles \subseteq Int /\ Texts \subseteq Nat /\ 1 \in Texts
\* A float is a double.
ASSUME FloatAssumption == AsFloat \in [Doubles -> Doubles]
\* A BIGINT has more than one bit: it holds the number of a bool.
ASSUME LongAssumption == Half["BIGINT"] > 1
ASSUME ErrnoAssumption ==
  /\ HalfErrno \in Nat \ {0}
  /\ Errnos \subseteq (-HalfErrno .. HalfErrno - 1) \ {0}

VARIABLES
  build,      \* PHP_VERSION_ID
  phase,      \* "new", "live", "failed", "freed", "crash"
  num_params, \* S->num_params
  owned,      \* memory of the request the statement has allocated and not freed
  param,      \* the parameter in hand: number, declared type and PHP value
  slot,       \* its TAOS_MULTI_BIND
  flag,       \* offset behind S->in_null written through its is_null
  taken,      \* what the library made of it
  answer,     \* the hook's answer to EXEC_PRE
  errcode,    \* einfo->errcode, an unsigned int
  prepared,   \* history: taos_handle_preparer succeeded
  errno       \* history: what the last failing library call answered

errorVars  == <<errcode, errno>>
paramVars  == <<param, slot, flag, taken, answer>>
vars == <<build, phase, num_params, owned, paramVars, errorVars, prepared>>

-----------------------------------------------------------------------------
(***************************************************************************)
(* Types and values.                                                       *)
(***************************************************************************)

\* The PARAM_TAOS_* constants of PHP_MINIT, all apart from PDO's own types.
PHP_MINIT == Types \cup {"VARCHAR"}
PdoTypes  == {"PARAM_NULL", "PARAM_INT", "PARAM_STR", "PARAM_BOOL", "PARAM_LOB"}
Declarable == PHP_MINIT \cup PdoTypes

\* TSDB_DATA_TYPE_VARCHAR is another name of TSDB_DATA_TYPE_BINARY.
TypeOf(k) == IF k = "VARCHAR" THEN "BINARY" ELSE k

\* PHP values; an integer has the width of a BIGINT.
Value(t, n) == [type |-> t, n |-> n]
Values ==
  {Value("null", 0), Value("bool", 0), Value("bool", 1), Value("stream", 0), Value("notstream", 0)}
    \cup {Value("long", n) : n \in IntRange("BIGINT")}
    \cup {Value("double", d) : d \in Doubles}
    \cup {Value("string", k) : k \in Texts}

\* bindParam and bindValue convert for PDO's own types.
Converted(k, v) ==
  IF k = "PARAM_STR" /\ v.type \notin {"null", "string"} THEN Value("string", 1)
  ELSE IF k = "PARAM_INT" /\ v.type = "bool" THEN Value("long", v.n)
  ELSE IF k = "PARAM_BOOL" /\ v.type = "long" THEN Value("bool", IF v.n = 0 THEN 0 ELSE 1)
  ELSE v

-----------------------------------------------------------------------------
(***************************************************************************)
(* EXEC_PRE of pdo_taos_stmt_param_hook: where b->buffer points and what   *)
(* the type of the slot says.                                              *)
(***************************************************************************)

\* "union" is the eight bytes of the PHP value itself, "cell" a float of its
\* own, "text" the characters of a string, "stray" an address made from a value
\* that is no string.
Slot(t, where) == [type |-> t, where |-> where]
Zeroed == Slot("NULL", "unset")

UnionTypes == Integral \cup {"BOOL", "DOUBLE", "DECIMAL", "TIMESTAMP"}
FloatAsUnion(t) == t \in UnionTypes \cup {"FLOAT"}
InUnion(t) == t \in UnionTypes

Accept(s) == [answer |-> "true", slot |-> s]
Reject == [answer |-> "false", slot |-> Zeroed]
Crash  == [answer |-> "crash", slot |-> Zeroed]

\* The cases of PDO::PARAM_LOB and of PDO's other types.  A LOB leaves the switch
\* without having filled the slot.
FillDefault(k, v) ==
  IF k = "PARAM_LOB" THEN IF v.type = "notstream" THEN {Reject} ELSE {Accept(Zeroed)}
  ELSE IF v.type = "string" THEN {Accept(Slot("BINARY", "text"))}
  ELSE IF v.type = "long" THEN {Accept(Slot("BIGINT", "union"))}
  ELSE IF v.type = "double" THEN {Accept(Slot("DOUBLE", "union"))}
  ELSE {Reject}

\* A null of either kind goes out before the value is looked at.
IsNullByType(k, v) == TypeOf(k) = "NULL"
IsNull(k, v) == v.type = "null" \/ TypeOf(k) = "NULL"

\* Reading the length of a string that is none may end the process.
hook_80000(k, v) ==
  LET t == TypeOf(k)
  IN  IF IsNull(k, v) THEN {Accept(Slot("NULL", "nowhere"))}
      ELSE IF InUnion(t) THEN {Accept(Slot(t, "union"))}
      ELSE IF t = "FLOAT" THEN {Accept(Slot("FLOAT", "cell"))}
      ELSE IF t \in VarTypes
        THEN IF v.type = "string" THEN {Accept(Slot(t, "text"))}
             ELSE {Accept(Slot(t, "stray")), Crash}
      ELSE FillDefault(k, v)
\* The same code in the other copies.
hook_80100(k, v) == hook_80000(k, v)
hook_70300(k, v) == hook_80000(k, v)
hook_70000(k, v) == hook_80000(k, v)
hook(copy, k, v) ==
  IF copy = "80100" THEN hook_80100(k, v)
  ELSE IF copy = "80000" THEN hook_80000(k, v)
  ELSE IF copy = "70300" THEN hook_70300(k, v)
  ELSE hook_70000(k, v)

(***************************************************************************)
(* taos_stmt_bind_param: the library reads as many bytes as the type has,  *)
(* the lowest of a PHP integer.                                            *)
(***************************************************************************)
Nothing == Value("null", 0)
Number(n) == Value("number", n)
Real(d) == Value("real", d)
Chars(k) == Value("text", k)
Garbage == Value("garbage", 0)

IntegerOf(t) == IF t = "TIMESTAMP" THEN "BIGINT" ELSE IF t = "BOOL" THEN "TINYINT" ELSE t
LowBytes(t, n) == ReadInt(t, n % (2 * Half[t]))

Take(s, v) ==
  IF s.where = "nowhere" THEN Nothing
  ELSE IF s.where = "text" THEN Chars(v.n)
  ELSE IF s.where = "cell" /\ v.type = "double" THEN Real(AsFloat[v.n])
  ELSE IF s.where = "union" /\ s.type = "DOUBLE" /\ v.type = "double" THEN Real(v.n)
  ELSE IF s.where = "union" /\ s.type \in Integral \cup {"BOOL", "TIMESTAMP"} /\ v.type = "long"
    THEN Number(LowBytes(IntegerOf(s.type), v.n))
  ELSE Garbage

-----------------------------------------------------------------------------
(***************************************************************************)
(* Memory.                                                                 *)
(***************************************************************************)

\* ecalloc(n, sizeof(zend_bool)) is served from blocks of multiples of eight
\* bytes.
InNullBlock(n) == 8 * ((n + 7) \div 8)

\* &S->in_null[paramno], where in_null is an int *.
FlagOffsetLong(i) == 8 * i
FlagOffset(i) == 4 * i

\* The arrays of taos_handle_preparer, when there are parameters.
ParamBlocks(n) == IF n > 0 THEN {"params", "in_null", "in_length"} ELSE {}

\* The rewritten query, which taos_handle_preparer releases when it fails only.
KeptAlways(rw, succeeds) == IF rw THEN {"nsql"} ELSE {}
Kept(rw, succeeds) == IF rw /\ succeeds THEN {"nsql"} ELSE {}

DtorForgetsLengths == {"S", "params", "in_null"}
DtorFrees == {"S", "params", "in_null", "in_length"}

-----------------------------------------------------------------------------
(***************************************************************************)
(* Errors: pdo_taos_convert_errno, whose answer becomes an unsigned int.   *)
(***************************************************************************)

\* Negative codes lose their highest bit, 0 gains it; the cast to int32_t makes
\* that a negative number again.
ConvertUnchanged(e) == e
convert_errno(e) ==
  LET m == IF e > 0 THEN e ELSE e + HalfErrno
  IN  AsSigned(m, HalfErrno)
ErrcodeSigned(e) == convert_errno(e)
Errcode(e) == Stored(convert_errno(e), HalfErrno)

-----------------------------------------------------------------------------
Unwritten == -1
NoParam == [no |-> 0, declared |-> "NULL", value |-> Value("null", 0)]

Init ==
  /\ build \in Builds
  /\ phase = "new" /\ num_params = 0 /\ prepared = FALSE
  /\ owned = {}
  /\ param = NoParam /\ slot = Zeroed /\ flag = Unwritten /\ taken = Nothing /\ answer = "unbound"
  /\ errcode = 0 /\ errno = 0

\* _pdo_taos_error with the converted answer of the library.
Report(e) == errcode' = Errcode(e) /\ errno' = e

\* taos_handle_preparer; rw says whether pdo_parse_params answered a new query.
Prepare(n, rw) ==
  /\ phase = "new"
  /\ phase' = "live"
  /\ prepared' = TRUE
  /\ num_params' = n
  /\ owned' = {"S"} \cup ParamBlocks(n) \cup Kept(rw, TRUE)
  /\ UNCHANGED <<build, paramVars, errorVars>>

\* The placeholders do not parse, or taos_stmt_init (no code), taos_stmt_prepare
\* or taos_stmt_num_params (with the code 0 of the call before it) fails.
ParseFails ==
  /\ phase = "new"
  /\ phase' = "failed"
  /\ owned' = {"S"}
  /\ UNCHANGED <<build, num_params, paramVars, errorVars, prepared>>
PrepareFails(rw, e) ==
  /\ phase = "new"
  /\ phase' = "failed"
  /\ owned' = {"S"} \cup Kept(rw, FALSE)
  /\ \/ Report(e)
     \/ errcode' = 0 /\ errno' = 0
  /\ UNCHANGED <<build, num_params, paramVars, prepared>>

\* bindParam or bindValue: the ALLOC event.  The slot is still zero, or zero again
\* since its last execution.  What becomes of a parameter that is registered anew
\* on its way, before EXEC_PRE or with its slot filled, is TaosStatement's.
Alloc(i, k, v) ==
  /\ phase = "live" /\ answer \notin {"none", "true"}
  /\ i < num_params
  /\ param' = [no |-> i, declared |-> k, value |-> Converted(k, v)]
  /\ slot' = Zeroed /\ flag' = Unwritten /\ taken' = Nothing /\ answer' = "none"
  /\ UNCHANGED <<build, phase, num_params, owned, errorVars, prepared>>

\* The script gives a variable bound by reference another value: not converted.
Assign(v) ==
  /\ phase = "live" /\ answer = "none"
  /\ param' = [param EXCEPT !.value = v]
  /\ UNCHANGED <<build, phase, num_params, owned, slot, flag, taken, answer,
                 errorVars, prepared>>

\* EXEC_PRE: the null flag is written first, then the slot is filled.
ExecPre ==
  /\ phase = "live" /\ answer = "none"
  /\ flag' = FlagOffset(param.no)
  /\ \E h \in hook(StatementCopy(build), param.declared, param.value) :
       /\ slot' = h.slot
       /\ answer' = h.answer
       /\ phase' = IF h.answer = "crash" THEN "crash" ELSE phase
       /\ owned' = IF h.slot.where = "cell" THEN owned \cup {"float"} ELSE owned
  /\ UNCHANGED <<build, num_params, param, taken, errorVars, prepared>>

\* pdo_pdo_taos_stmt_execute_prepared hands the slot to the library, zeroes it
\* and executes.
execute_prepared ==
  /\ phase = "live" /\ answer = "true"
  /\ taken' = Take(slot, param.value)
  /\ slot' = Zeroed
  /\ answer' = "executed"
  /\ \/ UNCHANGED errorVars
     \/ \E e \in Errnos : Report(e)
  /\ UNCHANGED <<build, phase, num_params, owned, param, flag, prepared>>

\* pdo_taos_stmt_dtor.
Dtor ==
  /\ phase \in {"live", "failed"}
  /\ phase' = "freed"
  /\ owned' = owned \ DtorFrees
  /\ UNCHANGED <<build, num_params, paramVars, errorVars, prepared>>

Next ==
  \/ \E n \in 0 .. MaxParams, rw \in BOOLEAN : Prepare(n, rw)
  \/ ParseFails
  \/ \E rw \in BOOLEAN, e \in Errnos \cup {0} : PrepareFails(rw, e)
  \/ \E i \in 0 .. MaxParams - 1, k \in Declarable, v \in Values : Alloc(i, k, v)
  \/ \E v \in Values : Assign(v)
  \/ ExecPre
  \/ execute_prepared
  \/ Dtor

Spec == Init /\ [][Next]_vars

-----------------------------------------------------------------------------
(***************************************************************************)
(* Properties.                                                             *)
(***************************************************************************)

TypeOK ==
  /\ build \in Builds
  /\ phase \in {"new", "live", "failed", "freed", "crash"}
  /\ num_params \in 0 .. MaxParams
  /\ owned \subseteq {"S", "nsql", "params", "in_null", "in_length", "float"}
  /\ param \in [no : 0 .. MaxParams, declared : Declarable, value : Values]
  /\ flag \in {FlagOffset(i) : i \in 0 .. MaxParams - 1} \cup {Unwritten}
  /\ slot \in [type : Types, where : {"unset", "nowhere", "union", "cell", "text", "stray"}]
  /\ taken \in [type : {"null", "number", "real", "text", "garbage"}, n : Int]
  /\ answer \in {"unbound", "none", "true", "false", "crash", "executed"}
  /\ errcode \in 0 .. 2 * HalfErrno - 1
  /\ errno \in Errnos \cup {0}
  /\ prepared \in BOOLEAN

\* The PHP values a declared type is for, and what the library should read: of a
\* double for a FLOAT, the float.
Fits(k, v) ==
  LET t == TypeOf(k)
  IN  \/ v.type = "null"
      \/ t \in Integral /\ v.type = "long" /\ v.n \in IntRange(t)
      \/ t = "TIMESTAMP" /\ v.type = "long" /\ v.n \in IntRange("BIGINT")
      \/ t = "BOOL" /\ v.type = "long" /\ v.n \in IntRange("TINYINT")
      \/ t \in {"FLOAT", "DOUBLE"} /\ v.type = "double"
      \/ t \in VarTypes \cup {"PARAM_STR"} /\ v.type = "string"
Wanted(k, v) ==
  IF v.type = "null" THEN Nothing
  ELSE IF v.type = "long" THEN Number(v.n)
  ELSE IF v.type = "double" THEN Real(IF TypeOf(k) = "FLOAT" THEN AsFloat[v.n] ELSE v.n)
  ELSE Chars(v.n)

\* The library reads the value the script bound, for every PARAM_TAOS_* constant
\* and every PHP value its type is for: an integer over the whole range of the
\* column, a double at the precision of the column, a NULL of any declared type.
TakenAsBound ==
  answer = "executed" /\ Fits(param.declared, param.value) =>
    taken = Wanted(param.declared, param.value)

\* EXEC_PRE never refuses such a value, and dies only on a value that is declared
\* as text and is no string.
CrashExplained ==
  /\ phase = "crash" => TypeOf(param.declared) \in VarTypes /\ param.value.type # "string"
  /\ answer = "false" => ~Fits(param.declared, param.value)

\* The null flags of the first two parameters lie inside the block of in_null, in
\* a statement of any number of them: what lies outside is a later one's.
FlagsInside == flag >= InNullBlock(num_params) => param.no >= 2

\* README.md:200-209 binds ten parameters and README.md:220 has execute answer: the
\* null flag of every parameter lies inside the block.
FlagsInBlock == flag # Unwritten => flag < InNullBlock(num_params)

\* After its destructor a statement has left nothing allocated but the float
\* cells of its executions and, if it was prepared, its rewritten query.
LeaksExplained ==
  phase = "freed" =>
    /\ owned \subseteq {"nsql", "float"}
    /\ owned # {} => prepared

\* A failure with an answer other than the smallest int is reported with a code
\* between 1 and the largest int, the answer but for its highest bit; so the
\* core finds a code to show.  An answer of 0 is reported as twice that bit.
CodeReported ==
  errno \notin {0, -HalfErrno} =>
    /\ errcode \in 1 .. HalfErrno - 1
    /\ errcode \in {errno, errno + HalfErrno}

\* The reasons, in a form every step preserves: the slot is what the hook made of
\* the parameter, the flag is the parameter's, the memory is the phase's, the code
\* is that of the last failure.
SlotInv ==
  answer = "true" =>
    \E copy \in Copies : Accept(slot) \in hook(copy, param.declared, param.value)
FlagInv ==
  /\ phase \in {"new", "failed"} => answer = "unbound" /\ flag = Unwritten
  /\ answer # "unbound" => param.no < num_params
  /\ flag # Unwritten => flag = FlagOffset(param.no) /\ param.no < num_params
OwnedInv ==
  /\ phase = "failed" => owned = {"S"}
  /\ phase \in {"live", "crash"} => prepared
ErrorInv == (errcode = 0 /\ errno = 0) \/ errcode = Errcode(errno)
IInv ==
  /\ TypeOK /\ SlotInv /\ FlagInv /\ OwnedInv /\ ErrorInv
  /\ TakenAsBound /\ CrashExplained /\ FlagsInside /\ LeaksExplained /\ CodeReported

=============================================================================
