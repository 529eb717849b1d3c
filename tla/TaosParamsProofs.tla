-------------------------- MODULE TaosParamsProofs --------------------------
(***************************************************************************)
(* Theorems about TaosParams, for any widths, numbers of parameters, error *)
(* numbers and builds: the bytes of an integer first, then what the hook   *)
(* makes of a parameter, then the invariant of the statement.              *)
(***************************************************************************)
EXTENDS TaosParams, TLAPS

(***************************************************************************)
(* Integers.                                                               *)
(***************************************************************************)

\* Reading a signed number from its low bytes gives it back.
LEMMA SignedLowBytes ==
  ASSUME NEW h \in Nat \ {0}, NEW n \in -h .. h - 1
  PROVE  AsSigned(n % (2 * h), h) = n
<1>1. CASE n >= 0
  <2>1. n % (2 * h) = n
    BY <1>1
  <2> QED
    BY <1>1, <2>1 DEF AsSigned
<1>2. CASE n < 0
  <2>1. n % (2 * h) = n + 2 * h
    BY <1>2
  <2> QED
    BY <1>2, <2>1 DEF AsSigned
<1> QED
  BY <1>1, <1>2

\* So does reading an unsigned one.
LEMMA UnsignedLowBytes ==
  ASSUME NEW h \in Nat \ {0}, NEW n \in 0 .. 2 * h - 1
  PROVE  AsUnsigned(n % (2 * h), h) = n
BY DEF AsUnsigned

\* The library reads the number of a PHP integer that its type has.
LEMMA LowBytesRead ==
  ASSUME NEW t \in Integral, NEW n \in IntRange(t)
  PROVE  LowBytes(t, n) = n
<1>1. Half[t] \in Nat \ {0}
  BY HalfAssumption
<1>2. CASE t \in SignedInts
  <2>1. n \in -Half[t] .. Half[t] - 1
    BY <1>2 DEF IntRange
  <2> QED
    BY <1>1, <1>2, <2>1, SignedLowBytes DEF LowBytes, ReadInt
<1>3. CASE t \in UnsignedInts
  <2>1. n \in 0 .. 2 * Half[t] - 1 /\ t \notin SignedInts
    BY <1>3 DEF IntRange, SignedInts, UnsignedInts
  <2> QED
    BY <1>1, <2>1, UnsignedLowBytes DEF LowBytes, ReadInt
<1> QED
  BY <1>2, <1>3 DEF Integral

\* Whatever it reads is a number.
LEMMA LowBytesType ==
  ASSUME NEW t \in Integral, NEW n \in Int
  PROVE  LowBytes(t, n) \in Int
<1>1. Half[t] \in Nat \ {0}
  BY HalfAssumption
<1>2. n % (2 * Half[t]) \in Int
  BY <1>1
<1> QED
  BY <1>1, <1>2 DEF LowBytes, ReadInt, AsSigned, AsUnsigned

(***************************************************************************)
(* One EXEC_PRE, one taos_stmt_bind_param.                                 *)
(***************************************************************************)

SlotType == [type : Types, where : {"unset", "nowhere", "union", "cell", "text", "stray"}]
TakenType == [type : {"null", "number", "real", "text", "garbage"}, n : Int]

\* A PHP value has a type and a number; only a long may be negative.
LEMMA ValueTypes ==
  ASSUME NEW v \in Values
  PROVE  /\ v.type \in {"null", "bool", "stream", "notstream", "long", "double", "string"}
         /\ v.n \in Int
         /\ v = Value(v.type, v.n)
         /\ v.type = "double" => v.n \in Doubles /\ AsFloat[v.n] \in Int
<1>1. IntRange("BIGINT") \subseteq Int
  BY HalfAssumption DEF IntRange, Integral, SignedInts, UnsignedInts
<1>2. \A d \in Doubles : d \in Int /\ AsFloat[d] \in Int
  BY ContentsAssumption, FloatAssumption
<1>3. \A k \in Texts : k \in Int
  BY ContentsAssumption
<1> QED
  BY <1>1, <1>2, <1>3 DEF Values, Value

\* The conversion of bindParam makes a PHP value of a PHP value.
LEMMA ConvertedIsValue ==
  ASSUME NEW k \in Declarable, NEW v \in Values
  PROVE  Converted(k, v) \in Values
<1>1. /\ Value("string", 1) \in Values
      /\ Value("bool", 0) \in Values /\ Value("bool", 1) \in Values
  BY ContentsAssumption DEF Values
<1>2. CASE k = "PARAM_INT" /\ v.type = "bool"
  <2>1. v.n \in {0, 1}
    BY <1>2 DEF Values, Value
  <2>2. v.n \in IntRange("BIGINT")
    BY <2>1, HalfAssumption, LongAssumption DEF IntRange, Integral, SignedInts
  <2> QED
    BY <1>2, <2>2 DEF Converted, Values
<1>3. CASE ~(k = "PARAM_INT" /\ v.type = "bool")
  BY <1>1, <1>3 DEF Converted
<1> QED
  BY <1>2, <1>3

\* The copies do the same.
LEMMA CopiesAgree ==
  ASSUME NEW copy, NEW k, NEW v
  PROVE  hook(copy, k, v) = hook_80000(k, v)
BY DEF hook, hook_80100, hook_80000, hook_70300, hook_70000

\* What the hook can answer: an accepted slot; a refusal, never of a value its
\* declared type is for; or the end of the process, only for a text that is none.
LEMMA HookAnswers ==
  ASSUME NEW copy, NEW k \in Declarable, NEW v \in Values, NEW a \in hook(copy, k, v)
  PROVE  /\ a.slot \in SlotType
         /\ a.answer \in {"true", "false", "crash"}
         /\ a.answer = "true" => a = Accept(a.slot)
         /\ a.answer = "crash" => TypeOf(k) \in VarTypes /\ v.type # "string"
         /\ a.answer = "false" => ~Fits(k, v)
<1> DEFINE t == TypeOf(k)
<1>1. a \in hook_80000(k, v)
  BY CopiesAgree
<1>2. CASE IsNull(k, v)
  BY <1>1, <1>2 DEF hook_80000, Accept, Slot, SlotType, Types
<1>3. CASE ~IsNull(k, v) /\ t \in UnionTypes
  BY <1>1, <1>3 DEF hook_80000, InUnion, UnionTypes, Accept, Slot, SlotType, Types
<1>4. CASE ~IsNull(k, v) /\ t = "FLOAT"
  BY <1>1, <1>4
     DEF hook_80000, InUnion, UnionTypes, Integral, SignedInts, UnsignedInts, Accept, Slot,
         SlotType, Types
<1>5. CASE ~IsNull(k, v) /\ t \in VarTypes
  BY <1>1, <1>5
     DEF hook_80000, InUnion, UnionTypes, Integral, SignedInts, UnsignedInts, VarTypes, Accept,
         Crash, Zeroed, Slot, SlotType, Types
<1>6. CASE ~IsNull(k, v) /\ t \notin UnionTypes \cup {"FLOAT"} \cup VarTypes
  <2>1. a \in FillDefault(k, v)
    BY <1>1, <1>6 DEF hook_80000, InUnion
  <2>2. /\ a.slot \in SlotType
        /\ a.answer \in {"true", "false"}
        /\ a.answer = "true" => a = Accept(a.slot)
    BY <2>1
       DEF FillDefault, Accept, Reject, Zeroed, Slot, SlotType, Types, Integral, SignedInts, VarTypes
  <2>3. a.answer = "false" => v.type # "string"
    BY <2>1 DEF FillDefault, Accept, Reject
  <2>4. a.answer = "false" => ~Fits(k, v)
    BY <1>6, <2>3 DEF Fits, IsNull, UnionTypes
  <2> QED
    BY <2>2, <2>4
<1> QED
  BY <1>2, <1>3, <1>4, <1>5, <1>6

\* What the library takes has a type.
LEMMA TakeTypes ==
  ASSUME NEW s \in SlotType, NEW v \in Values
  PROVE  Take(s, v) \in TakenType
<1>1. v.n \in Int /\ (v.type = "double" => AsFloat[v.n] \in Int)
  BY ValueTypes
<1>2. CASE s.type \in Integral \cup {"BOOL", "TIMESTAMP"}
  <2>1. IntegerOf(s.type) \in Integral
    BY <1>2 DEF IntegerOf, Integral, SignedInts, UnsignedInts
  <2>2. LowBytes(IntegerOf(s.type), v.n) \in Int
    BY <1>1, <2>1, LowBytesType
  <2> QED
    BY <1>1, <2>2 DEF Take, TakenType, Nothing, Number, Real, Chars, Garbage, Value
<1>3. CASE s.type \notin Integral \cup {"BOOL", "TIMESTAMP"}
  BY <1>1, <1>3 DEF Take, TakenType, Nothing, Number, Real, Chars, Garbage, Value
<1> QED
  BY <1>2, <1>3

\* An accepted slot gives the library the value its declared type is for.
LEMMA AcceptedIsTaken ==
  ASSUME NEW copy, NEW k \in Declarable, NEW v \in Values, NEW s,
         Accept(s) \in hook(copy, k, v), Fits(k, v)
  PROVE  Take(s, v) = Wanted(k, v)
<1> DEFINE t == TypeOf(k)
<1>1. Accept(s) \in hook_80000(k, v)
  BY CopiesAgree
<1>2. /\ \A r : Accept(s) = Accept(r) => s = r
      /\ Accept(s) # Reject /\ Accept(s) # Crash
  BY DEF Accept, Reject, Crash
<1>3. CASE IsNull(k, v)
  <2>1. s = Slot("NULL", "nowhere")
    BY <1>1, <1>2, <1>3 DEF hook_80000
  <2>2. v.type = "null"
    BY <1>3
       DEF IsNull, Fits, TypeOf, Integral, SignedInts, UnsignedInts, VarTypes
  <2> QED
    BY <2>1, <2>2 DEF Take, Slot, Wanted
<1>4. CASE ~IsNull(k, v) /\ t \in UnionTypes
  <2>1. s = Slot(t, "union") /\ v.type # "null"
    BY <1>1, <1>2, <1>4 DEF hook_80000, InUnion, IsNull
  <2>2. CASE t = "DOUBLE"
    <3>1. v.type = "double"
      BY <2>1, <2>2 DEF Fits, Integral, SignedInts, UnsignedInts, VarTypes
    <3> QED
      BY <2>1, <2>2, <3>1 DEF Take, Slot, Wanted
  <2>3. CASE t \in Integral \cup {"BOOL", "TIMESTAMP"}
    <3>1. /\ v.type = "long" /\ v.n \in IntRange(IntegerOf(t))
          /\ IntegerOf(t) \in Integral
      BY <2>1, <2>3 DEF Fits, IntegerOf, Integral, SignedInts, UnsignedInts, VarTypes
    <3>2. LowBytes(IntegerOf(t), v.n) = v.n
      BY <3>1, LowBytesRead
    <3> QED
      BY <2>1, <2>3, <3>1, <3>2 DEF Take, Slot, Wanted
  <2>4. t # "DECIMAL"
    BY <2>1 DEF Fits, Integral, SignedInts, UnsignedInts, VarTypes
  <2> QED
    BY <1>4, <2>2, <2>3, <2>4 DEF UnionTypes
<1>5. CASE ~IsNull(k, v) /\ t = "FLOAT"
  <2>1. s = Slot("FLOAT", "cell")
    BY <1>1, <1>2, <1>5
       DEF hook_80000, InUnion, UnionTypes, Integral, SignedInts, UnsignedInts
  <2>2. v.type = "double"
    BY <1>5 DEF IsNull, Fits, Integral, SignedInts, UnsignedInts, VarTypes
  <2>3. Take(s, v) = Real(AsFloat[v.n])
    BY <2>1, <2>2 DEF Take, Slot
  <2>4. Wanted(k, v) = Real(AsFloat[v.n])
    BY <1>5, <2>2 DEF Wanted
  <2> QED
    BY <2>3, <2>4
<1>6. CASE ~IsNull(k, v) /\ t \in VarTypes
  <2>1. v.type = "string"
    BY <1>6 DEF IsNull, Fits, Integral, SignedInts, UnsignedInts, VarTypes
  <2>2. s = Slot(t, "text")
    BY <1>1, <1>2, <1>6, <2>1
       DEF hook_80000, InUnion, UnionTypes, Integral, SignedInts, UnsignedInts, VarTypes
  <2> QED
    BY <2>1, <2>2 DEF Take, Slot, Wanted
<1>7. CASE ~IsNull(k, v) /\ t \notin UnionTypes \cup {"FLOAT"} \cup VarTypes
  <2>1. Accept(s) \in FillDefault(k, v)
    BY <1>1, <1>7 DEF hook_80000, InUnion
  <2>2. k = "PARAM_STR" /\ v.type = "string"
    BY <1>7 DEF IsNull, Fits, UnionTypes, TypeOf
  <2>3. s = Slot("BINARY", "text")
    BY <1>2, <2>1, <2>2 DEF FillDefault
  <2> QED
    BY <2>2, <2>3 DEF Take, Slot, Wanted
<1> QED
  BY <1>3, <1>4, <1>5, <1>6, <1>7

(***************************************************************************)
(* Errors.                                                                 *)
(***************************************************************************)

\* The code of a failure is an unsigned int; of every answer but 0 and the
\* smallest int, a positive int.
LEMMA Codes ==
  ASSUME NEW e \in Errnos \cup {0}
  PROVE  /\ Errcode(e) \in 0 .. 2 * HalfErrno - 1
         /\ e \notin {0, -HalfErrno} =>
              Errcode(e) \in 1 .. HalfErrno - 1 /\ Errcode(e) \in {e, e + HalfErrno}
<1>1. e \in -HalfErrno .. HalfErrno - 1 /\ HalfErrno \in Nat \ {0}
  BY ErrnoAssumption
<1> QED
  BY <1>1 DEF Errcode, convert_errno, Stored, AsSigned

(***************************************************************************)
(* The statement.                                                          *)
(***************************************************************************)

\* A new parameter is none, and its type and value are of their sets.
LEMMA NoParamType == NoParam \in [no : 0 .. MaxParams, declared : Declarable, value : Values]
BY ParamsAssumption DEF NoParam, Declarable, PHP_MINIT, Types, Values

LEMMA InitIInv == Init => IInv
<1> SUFFICES ASSUME Init
             PROVE  IInv
  OBVIOUS
<1>1. TypeOK
  <2>1. taken \in [type : {"null", "number", "real", "text", "garbage"}, n : Int]
        /\ slot \in [type : Types, where : {"unset", "nowhere", "union", "cell", "text", "stray"}]
    BY DEF Init, Nothing, Value, Zeroed, Slot, Types
  <2>2. num_params \in 0 .. MaxParams /\ errcode \in 0 .. 2 * HalfErrno - 1
    BY ParamsAssumption, ErrnoAssumption DEF Init
  <2> QED
    BY <2>1, <2>2, NoParamType DEF Init, TypeOK
<1>2. FlagsInside
  BY DEF Init, FlagsInside, InNullBlock, Unwritten
<1> QED
  BY <1>1, <1>2 DEF Init, IInv, SlotInv, FlagInv, OwnedInv, ErrorInv, TakenAsBound,
     CrashExplained, LeaksExplained, CodeReported

\* A failing call leaves a good code behind, whatever was there.
LEMMA Reporting ==
  ASSUME NEW e \in Errnos \cup {0}, Report(e)
  PROVE  /\ errcode' \in 0 .. 2 * HalfErrno - 1 /\ errno' \in Errnos \cup {0}
         /\ ErrorInv' /\ CodeReported'
BY Codes DEF Report, ErrorInv, CodeReported

LEMMA NextIInv == IInv /\ [Next]_vars => IInv'
<1> SUFFICES ASSUME IInv, [Next]_vars
             PROVE  IInv'
  OBVIOUS
<1> USE DEF IInv
<1>1. ASSUME NEW n \in 0 .. MaxParams, NEW rw \in BOOLEAN, Prepare(n, rw)
      PROVE  IInv'
  <2>1. /\ UNCHANGED <<build, param, slot, flag, taken, answer, errcode, errno>>
        /\ phase = "new" /\ phase' = "live" /\ prepared' = TRUE /\ num_params' = n
        /\ owned' = {"S"} \cup ParamBlocks(n) \cup Kept(rw, TRUE)
    BY <1>1 DEF Prepare, paramVars, errorVars
  <2>2. answer = "unbound" /\ flag = Unwritten
    BY <2>1 DEF FlagInv
  <2>3. TypeOK'
    BY <2>1 DEF TypeOK, ParamBlocks, Kept
  <2>4. FlagsInside'
    BY <2>1, <2>2 DEF FlagsInside, InNullBlock, Unwritten
  <2> QED
    BY <2>1, <2>2, <2>3, <2>4 DEF SlotInv, FlagInv, OwnedInv, ErrorInv, TakenAsBound,
       CrashExplained, LeaksExplained, CodeReported
<1>2. ASSUME ParseFails
      PROVE  IInv'
  <2>1. /\ UNCHANGED <<build, num_params, param, slot, flag, taken, answer, errcode, errno, prepared>>
        /\ phase = "new" /\ phase' = "failed" /\ owned' = {"S"}
    BY <1>2 DEF ParseFails, paramVars, errorVars
  <2>2. TypeOK'
    BY <2>1 DEF TypeOK
  <2> QED
    BY <2>1, <2>2 DEF SlotInv, FlagInv, OwnedInv, ErrorInv, TakenAsBound,
       CrashExplained, FlagsInside, LeaksExplained, CodeReported
<1>3. ASSUME NEW rw \in BOOLEAN, NEW e \in Errnos \cup {0}, PrepareFails(rw, e)
      PROVE  IInv'
  <2>1. /\ UNCHANGED <<build, num_params, param, slot, flag, taken, answer, prepared>>
        /\ phase = "new" /\ phase' = "failed" /\ owned' = {"S"}
    BY <1>3 DEF PrepareFails, paramVars, Kept
  <2>2. Report(e) \/ (errcode' = 0 /\ errno' = 0)
    BY <1>3 DEF PrepareFails
  <2>3. /\ errcode' \in 0 .. 2 * HalfErrno - 1 /\ errno' \in Errnos \cup {0}
        /\ ErrorInv' /\ CodeReported'
    BY <2>2, Reporting, ErrnoAssumption DEF ErrorInv, CodeReported
  <2>4. TypeOK'
    BY <2>1, <2>3 DEF TypeOK
  <2> QED
    BY <2>1, <2>3, <2>4 DEF SlotInv, FlagInv, OwnedInv, TakenAsBound,
       CrashExplained, FlagsInside, LeaksExplained
<1>4. ASSUME NEW i \in 0 .. MaxParams - 1, NEW k \in Declarable, NEW v \in Values, Alloc(i, k, v)
      PROVE  IInv'
  <2>1. /\ UNCHANGED <<build, phase, num_params, owned, errcode, errno, prepared>>
        /\ phase = "live" /\ i < num_params
        /\ param' = [no |-> i, declared |-> k, value |-> Converted(k, v)]
        /\ slot' = Zeroed /\ flag' = Unwritten /\ taken' = Nothing /\ answer' = "none"
    BY <1>4 DEF Alloc, errorVars
  <2>2. /\ param' \in [no : 0 .. MaxParams, declared : Declarable, value : Values]
        /\ taken' \in [type : {"null", "number", "real", "text", "garbage"}, n : Int]
        /\ slot' \in [type : Types, where : {"unset", "nowhere", "union", "cell", "text", "stray"}]
    BY <2>1, ConvertedIsValue, ParamsAssumption DEF Nothing, Value, Zeroed, Slot, Types
  <2>3. TypeOK'
    BY <2>1, <2>2 DEF TypeOK
  <2>4. FlagsInside'
    BY <2>1, <2>3 DEF TypeOK, FlagsInside, InNullBlock, Unwritten
  <2> QED
    BY <2>1, <2>3, <2>4 DEF SlotInv, FlagInv, OwnedInv, ErrorInv, TakenAsBound,
       CrashExplained, LeaksExplained, CodeReported
<1>5. ASSUME NEW v \in Values, Assign(v)
      PROVE  IInv'
  <2>1. /\ UNCHANGED <<build, phase, num_params, owned, slot, flag, taken, answer, errcode, errno,
                       prepared>>
        /\ phase = "live" /\ answer = "none"
        /\ param' = [param EXCEPT !.value = v]
    BY <1>5 DEF Assign, errorVars
  <2>2. /\ param' \in [no : 0 .. MaxParams, declared : Declarable, value : Values]
        /\ param'.no = param.no
    BY <2>1 DEF TypeOK
  <2>3. TypeOK'
    BY <2>1, <2>2 DEF TypeOK
  <2> QED
    BY <2>1, <2>2, <2>3 DEF SlotInv, FlagInv, OwnedInv, ErrorInv, TakenAsBound,
       CrashExplained, FlagsInside, LeaksExplained, CodeReported
<1>6. ASSUME ExecPre
      PROVE  IInv'
  <2> DEFINE copy == StatementCopy(build)
  <2>1. PICK a \in hook(copy, param.declared, param.value) :
          /\ slot' = a.slot
          /\ answer' = a.answer
          /\ phase' = IF a.answer = "crash" THEN "crash" ELSE phase
          /\ owned' = IF a.slot.where = "cell" THEN owned \cup {"float"} ELSE owned
    BY <1>6 DEF ExecPre
  <2>2. /\ UNCHANGED <<build, num_params, param, taken, errcode, errno, prepared>>
        /\ phase = "live" /\ answer = "none"
        /\ flag' = FlagOffset(param.no)
    BY <1>6 DEF ExecPre, errorVars
  <2>3. param.declared \in Declarable /\ param.value \in Values /\ param.no \in 0 .. MaxParams
    BY DEF TypeOK
  <2>4. /\ a.slot \in SlotType
        /\ a.answer \in {"true", "false", "crash"}
        /\ a.answer = "true" => a = Accept(a.slot)
        /\ a.answer = "crash" => TypeOf(param.declared) \in VarTypes /\ param.value.type # "string"
        /\ a.answer = "false" => ~Fits(param.declared, param.value)
    BY <2>3, HookAnswers
  <2>5. param.no < num_params /\ num_params \in 0 .. MaxParams /\ num_params' = num_params
    BY <2>2 DEF FlagInv, TypeOK
  <2>6. param.no \in 0 .. MaxParams - 1 /\ copy \in Copies
    BY <2>3, <2>5, ParamsAssumption DEF StatementCopy, Copies
  <2>7. TypeOK'
    BY <2>1, <2>2, <2>4, <2>6 DEF TypeOK, SlotType
  <2>8. SlotInv'
    BY <2>1, <2>2, <2>4, <2>6 DEF SlotInv
  <2>9. FlagsInside'
    BY <2>2, <2>3, <2>5 DEF FlagsInside, FlagOffset, InNullBlock
  <2> QED
    BY <2>1, <2>2, <2>4, <2>5, <2>7, <2>8, <2>9 DEF FlagInv, OwnedInv, ErrorInv, TakenAsBound,
       CrashExplained, LeaksExplained, CodeReported
<1>7. ASSUME execute_prepared
      PROVE  IInv'
  <2>1. /\ UNCHANGED <<build, phase, num_params, owned, param, flag, prepared>>
        /\ phase = "live" /\ answer = "true" /\ answer' = "executed"
        /\ taken' = Take(slot, param.value) /\ slot' = Zeroed
    BY <1>7 DEF execute_prepared
  <2>2. UNCHANGED <<errcode, errno>> \/ \E e \in Errnos : Report(e)
    BY <1>7 DEF execute_prepared, errorVars
  <2>3. /\ errcode' \in 0 .. 2 * HalfErrno - 1 /\ errno' \in Errnos \cup {0}
        /\ ErrorInv' /\ CodeReported'
    BY <2>2, Reporting DEF TypeOK, ErrorInv, CodeReported
  <2>4. /\ param.declared \in Declarable /\ param.value \in Values /\ slot \in SlotType
    BY DEF TypeOK, SlotType
  <2>5. /\ taken' \in [type : {"null", "number", "real", "text", "garbage"}, n : Int]
        /\ slot' \in [type : Types, where : {"unset", "nowhere", "union", "cell", "text", "stray"}]
    BY <2>1, <2>4, TakeTypes DEF TakenType, Zeroed, Slot, Types
  <2>6. TypeOK'
    BY <2>1, <2>3, <2>5 DEF TypeOK
  <2>7. TakenAsBound'
    <3>1. PICK copy \in Copies : Accept(slot) \in hook(copy, param.declared, param.value)
      BY <2>1 DEF SlotInv
    <3> QED
      BY <2>1, <2>4, <3>1, AcceptedIsTaken DEF TakenAsBound
  <2> QED
    BY <2>1, <2>3, <2>6, <2>7 DEF SlotInv, FlagInv, OwnedInv, CrashExplained, FlagsInside,
       LeaksExplained
<1>8. ASSUME Dtor
      PROVE  IInv'
  <2>1. /\ UNCHANGED <<build, num_params, param, slot, flag, taken, answer, errcode, errno, prepared>>
        /\ phase \in {"live", "failed"} /\ phase' = "freed"
        /\ owned' = owned \ DtorFrees
    BY <1>8 DEF Dtor, paramVars, errorVars
  <2>2. TypeOK'
    BY <2>1 DEF TypeOK
  <2>3. LeaksExplained'
    BY <2>1 DEF LeaksExplained, DtorFrees, OwnedInv, TypeOK
  <2> QED
    BY <2>1, <2>2, <2>3 DEF SlotInv, FlagInv, OwnedInv, ErrorInv, TakenAsBound,
       CrashExplained, FlagsInside, CodeReported
<1>9. CASE UNCHANGED vars
  BY <1>9 DEF vars, paramVars, errorVars, TypeOK, SlotInv, FlagInv, OwnedInv, ErrorInv,
     TakenAsBound, CrashExplained, FlagsInside, LeaksExplained, CodeReported
<1> QED
  BY <1>1, <1>2, <1>3, <1>4, <1>5, <1>6, <1>7, <1>8, <1>9 DEF Next

\* The inductive invariant of parameters holds in every reachable state.
THEOREM ParamsInvariance == Spec => []IInv
BY InitIInv, NextIInv, PTL DEF Spec

\* Every variable keeps its type.
THEOREM ParamsTypeCorrect == Spec => []TypeOK
<1>1. IInv => TypeOK
  BY DEF IInv
<1> QED
  BY <1>1, ParamsInvariance, PTL

\* The library reads what the script bound, for every declared type and any width of
\* the integers.
THEOREM ValuesGoOut == Spec => []TakenAsBound
<1>1. IInv => TakenAsBound
  BY DEF IInv
<1> QED
  BY <1>1, ParamsInvariance, PTL

\* EXEC_PRE refuses no value of a declared type's own, and dies of none.
THEOREM CrashesNeedMistypedText == Spec => []CrashExplained
<1>1. IInv => CrashExplained
  BY DEF IInv
<1> QED
  BY <1>1, ParamsInvariance, PTL

\* The null flags of the first two parameters lie inside their block, in a
\* statement of any number of parameters.
THEOREM FirstFlagsInside == Spec => []FlagsInside
<1>1. IInv => FlagsInside
  BY DEF IInv
<1> QED
  BY <1>1, ParamsInvariance, PTL

\* From three parameters on the null flag of the last one lies outside.
THEOREM LastFlagOutside ==
  ASSUME NEW n \in Nat, n > 2
  PROVE  FlagOffset(n - 1) >= InNullBlock(n)
BY DEF FlagOffset, InNullBlock

\* What a destroyed statement has left, for any number of executions.
THEOREM LeaksAreExplained == Spec => []LeaksExplained
<1>1. IInv => LeaksExplained
  BY DEF IInv
<1> QED
  BY <1>1, ParamsInvariance, PTL

\* The code of a failure is positive and the answer but for its highest bit, for an
\* int of any width.
THEOREM CodesAreReported == Spec => []CodeReported
<1>1. IInv => CodeReported
  BY DEF IInv
<1> QED
  BY <1>1, ParamsInvariance, PTL

=============================================================================
