--------------------------- MODULE TaosConnection ---------------------------
(***************************************************************************)
(* The connections of one PHP process: the pdo_taos_db_handle of every     *)
(* handle, its error information, the statements that hang off it, the     *)
(* requests the process serves and the start and end of the client         *)
(* library.  Statements appear here only as what keeps a handle in use and *)
(* reports errors through it; TaosStatement has their inside.              *)
(*                                                                         *)
(* The callbacks of taos_methods, pdo_taos_handle_factory and              *)
(* PHP_MSHUTDOWN are the driver's; the life of PDO objects, persistent     *)
(* handles and requests is the PDO core's and PHP's, external.             *)
(***************************************************************************)
EXTENDS Naturals, FiniteSets

CONSTANTS
  Conns,      \* database handles
  Stmts,      \* statements
  Codes,      \* error codes the client library answers
  MaxRequests \* requests the process serves, at most

(***************************************************************************)
(* Error codes that no library failure has: einfo->errcode before any      *)
(* error, and pdo_taos_convert_errno(0), which a failure reports whose     *)
(* errno the driver did not ask for; TaosParams has the arithmetic.         *)
(***************************************************************************)
ZeroCode == "0"
ConvertedZero == "2147483648"

ASSUME CodesAssumption == ZeroCode \notin Codes /\ ConvertedZero \notin Codes
ASSUME ConnsAssumption == "none" \notin Conns
\* What fits into the memory of a process.
ASSUME FiniteAssumption == IsFiniteSet(Conns) /\ IsFiniteSet(Stmts)
ASSUME RequestsAssumption == MaxRequests \in Nat

VARIABLES
  phase,       \* "up", "down" after module shutdown, or where the process died
  request,     \* "running", "ending" (PHP frees its objects) or "none"
  requests,    \* requests started
  taos_inited, \* the driver's flag
  library,     \* the client library is initialised
  server,      \* handles whose H->server is an open connection
  persistent,  \* handles allocated for PDO::ATTR_PERSISTENT
  held,        \* handles some PDO object of the request refers to
  errcode,     \* H->einfo.errcode
  errmsg,      \* H->einfo.errmsg: NULL, or memory of a request
  error_code,  \* dbh->error_code
  owner,       \* the handle of a statement, or "none"
  outcome,     \* what the last PDO::exec returned
  connected,   \* history: some taos_connect succeeded
  forced,      \* history: PHP freed a handle before its statements
  orphans      \* history: statements closed after their connection

processVars == <<phase, request, requests, taos_inited, library, connected>>
handleVars  == <<server, persistent, held>>
errorVars   == <<errcode, errmsg, error_code>>
stmtVars    == <<owner, orphans, forced>>
vars == <<processVars, handleVars, errorVars, stmtVars, outcome>>

TypeOK ==
  /\ phase \in {"up", "down", "crash_free", "crash_commit"}
  /\ request \in {"running", "ending", "none"}
  /\ requests \in 0 .. MaxRequests
  /\ taos_inited \in BOOLEAN
  /\ library \in BOOLEAN
  /\ server \in SUBSET Conns
  /\ persistent \in SUBSET Conns
  /\ held \in SUBSET Conns
  /\ errcode \in [Conns -> Codes \cup {ZeroCode, ConvertedZero}]
  /\ errmsg \in [Conns -> {"NULL", "request", "released"}]
  /\ error_code \in [Conns -> {"00000", "HY000", "HY093", "IM001"}]
  /\ owner \in [Stmts -> Conns \cup {"none"}]
  /\ outcome \in {"none", "0", "exception"}
  /\ connected \in BOOLEAN
  /\ forced \in BOOLEAN
  /\ orphans \in SUBSET Stmts

Init ==
  /\ phase = "up" /\ request = "none" /\ requests = 0
  /\ taos_inited = FALSE /\ library = FALSE /\ connected = FALSE
  /\ server = {} /\ persistent = {} /\ held = {}
  /\ errcode = [c \in Conns |-> ZeroCode]
  /\ errmsg = [c \in Conns |-> "NULL"]
  /\ error_code = [c \in Conns |-> "00000"]
  /\ owner = [s \in Stmts |-> "none"]
  /\ orphans = {} /\ forced = FALSE
  /\ outcome = "none"

StmtsOf(c) == {s \in Stmts : owner[s] = c}

\* PHP is freeing the objects of a cycle, and has not come to a statement yet
\* whose handle is gone.  The script waits, or is over.
Collecting == \E s \in Stmts : owner[s] \notin held \cup {"none"}
Running == phase = "up" /\ request = "running" /\ ~Collecting

-----------------------------------------------------------------------------
(***************************************************************************)
(* Errors: _pdo_taos_error.                                                *)
(***************************************************************************)

\* pefree of a message that estrdup took from the request's memory.
FreesAsPersistent(c) == TRUE
FreesAs(c) == c \in persistent

\* An old message must go before the new one is stored.  A persistent handle
\* hands it to free(), which it did not come from.
Corrupts(c) == errmsg[c] # "NULL" /\ FreesAs(c)

RecordNoMessage(c, code, msg) ==
  /\ errcode' = [errcode EXCEPT ![c] = code]
  /\ errmsg' = [errmsg EXCEPT ![c] = "NULL"]
  /\ error_code' = [error_code EXCEPT ![c] = "HY000"]

RecordNoDefault(c, code, msg) ==
  /\ errcode' = [errcode EXCEPT ![c] = code]
  /\ errmsg' = [errmsg EXCEPT ![c] = IF msg THEN "request" ELSE "NULL"]
  /\ error_code' = [error_code EXCEPT ![c] = "NULL"]

\* Whatever the error is about, the handle's einfo and SQLSTATE take it.
Record(c, code, msg) ==
  /\ errcode' = [errcode EXCEPT ![c] = code]
  /\ errmsg' = [errmsg EXCEPT ![c] = IF msg THEN "request" ELSE "NULL"]
  /\ error_code' = [error_code EXCEPT ![c] = "HY000"]

pdo_taos_error(c, code, msg) ==
  IF Corrupts(c)
    THEN phase' = "crash_free" /\ UNCHANGED errorVars
    ELSE /\ Record(c, code, msg)
         /\ UNCHANGED phase

\* PDO_DBH_CLEAR_ERR, and the SQLSTATEs that come from the core.
SetState(c, state) ==
  /\ error_code' = [error_code EXCEPT ![c] = state]
  /\ UNCHANGED <<errcode, errmsg>>

\* pdo_taos_fetch_error_func for a handle: what PDO::errorInfo adds to the
\* SQLSTATE.  A statement adds nothing, as no error is stored in its own einfo.
ErrorInfo(c) ==
  IF error_code[c] # "00000" /\ errcode[c] # ZeroCode
    THEN <<errcode[c], errmsg[c]>>
    ELSE <<>>

-----------------------------------------------------------------------------
(***************************************************************************)
(* Opening and closing handles.                                            *)
(***************************************************************************)

\* The einfo of a new handle: no error yet.
NewHandleUncleared(c) ==
  /\ errmsg' = [errmsg EXCEPT ![c] = "NULL"]
  /\ error_code' = [error_code EXCEPT ![c] = "00000"]
  /\ UNCHANGED errcode
NewHandle(c) ==
  /\ errcode' = [errcode EXCEPT ![c] = ZeroCode]
  /\ errmsg' = [errmsg EXCEPT ![c] = "NULL"]
  /\ error_code' = [error_code EXCEPT ![c] = "00000"]

\* pdo_taos_handle_factory; p says whether the DSN asks for a persistent handle.
Connect(c, p) ==
  /\ Running
  /\ c \notin server
  /\ server' = server \cup {c}
  /\ persistent' = (IF p THEN persistent \cup {c} ELSE persistent \ {c})
  /\ held' = held \cup {c}
  /\ NewHandle(c)
  /\ library' = TRUE /\ taos_inited' = TRUE /\ connected' = TRUE
  /\ UNCHANGED <<phase, request, requests, stmtVars, outcome>>

\* The library is initialised before the connection fails; the handle is closed
\* again by the factory itself.
ConnectFails(c) ==
  /\ Running
  /\ c \notin server
  /\ library' = TRUE
  /\ UNCHANGED <<phase, request, requests, taos_inited, connected>>
  /\ UNCHANGED <<handleVars, errorVars, stmtVars, outcome>>

\* PDO::__construct with a persistent DSN that an earlier request connected: the
\* core asks the driver nothing, since check_liveness is NULL.
Reuse(c) ==
  /\ Running
  /\ c \in server \cap persistent
  /\ c \notin held
  /\ held' = held \cup {c}
  /\ UNCHANGED <<processVars, server, persistent, errorVars, stmtVars, outcome>>

\* taos_handle_closer of the handles in C.
CloserClosesAll(C) ==
  IF \E c \in C : Corrupts(c)
    THEN phase' = "crash_free" /\ UNCHANGED <<server, errmsg>>
    ELSE /\ server' = {}
         /\ errmsg' = [c \in Conns |-> IF c \in C THEN "NULL" ELSE errmsg[c]]
         /\ UNCHANGED phase
taos_handle_closer(C) ==
  IF \E c \in C : Corrupts(c)
    THEN phase' = "crash_free" /\ UNCHANGED <<server, errmsg>>
    ELSE /\ server' = server \ C
         /\ errmsg' = [c \in Conns |-> IF c \in C THEN "NULL" ELSE errmsg[c]]
         /\ UNCHANGED phase

\* The last PDO object of a handle goes: the core closes the handle unless it is
\* persistent.  Statements hold a reference, so they are gone by now.
Release(c) ==
  /\ phase = "up" /\ request \in {"running", "ending"}
  /\ c \in held
  /\ StmtsOf(c) = {}
  /\ held' = held \ {c}
  /\ IF c \in persistent
       THEN UNCHANGED <<phase, server, errmsg>>
       ELSE taos_handle_closer({c})
  /\ UNCHANGED <<request, requests, taos_inited, library, connected, persistent>>
  /\ UNCHANGED <<errcode, error_code, stmtVars, outcome>>

-----------------------------------------------------------------------------
(***************************************************************************)
(* Using a handle.  Every method clears the handle's SQLSTATE first.       *)
(***************************************************************************)

\* taos_handle_preparer.
Prepare(c, s) ==
  /\ Running /\ c \in held
  /\ owner[s] = "none"
  /\ owner' = [owner EXCEPT ![s] = c]
  /\ orphans' = orphans \ {s}
  /\ SetState(c, "00000")
  /\ UNCHANGED <<processVars, handleVars, forced, outcome>>

\* taos_stmt_init gives no code and no message, taos_stmt_num_params is reported
\* with the code of the taos_stmt_prepare that succeeded.
PrepareFails(c) ==
  /\ Running /\ c \in held
  /\ \/ SetState(c, "HY093") /\ UNCHANGED phase
     \/ pdo_taos_error(c, ZeroCode, FALSE)
     \/ \E code \in Codes \cup {ConvertedZero} : pdo_taos_error(c, code, TRUE)
  /\ UNCHANGED <<request, requests, taos_inited, library, connected>>
  /\ UNCHANGED <<handleVars, stmtVars, outcome>>

\* pdo_taos_stmt_execute fails: the error goes to the statement's connection.
StmtFails(s) ==
  /\ Running /\ owner[s] # "none"
  /\ \E code \in Codes : pdo_taos_error(owner[s], code, TRUE)
  /\ UNCHANGED <<request, requests, taos_inited, library, connected>>
  /\ UNCHANGED <<handleVars, stmtVars, outcome>>

\* taos_handle_doer.  What becomes of the TAOS_RES is the library's memory and
\* left out: a failure does not free it.
Exec(c) ==
  /\ Running /\ c \in held
  /\ outcome' = "0"
  /\ SetState(c, "00000")
  /\ UNCHANGED <<processVars, handleVars, stmtVars>>

ExecFails(c) ==
  /\ Running /\ c \in held
  /\ outcome' = "exception"
  /\ \E code \in Codes \cup {ConvertedZero} : pdo_taos_error(c, code, TRUE)
  /\ UNCHANGED <<request, requests, taos_inited, library, connected>>
  /\ UNCHANGED <<handleVars, stmtVars>>

\* taos_handle_quoter, pdo_taos_set_attr and pdo_taos_get_attribute leave the
\* handle as it is but for emulate_prepares, which nothing reads.
Inquire(c) ==
  /\ Running /\ c \in held
  /\ SetState(c, "00000")
  /\ UNCHANGED <<processVars, handleVars, stmtVars, outcome>>

\* taos_handle_in_transaction says that there is a transaction to end, and
\* taos_methods has no function that ends one.  PDO::beginTransaction is refused
\* for the same answer and changes nothing.
in_transaction(c) == TRUE
Commit(c) ==
  /\ Running /\ c \in held
  /\ in_transaction(c)
  /\ phase' = "crash_commit"
  /\ UNCHANGED <<request, requests, taos_inited, library, connected>>
  /\ UNCHANGED <<handleVars, errorVars, stmtVars, outcome>>

\* PDO::getAttribute of an attribute that pdo_taos_get_attribute does not know,
\* and lastInsertId, which is NULL in taos_methods: the core answers IM001.
Unsupported(c) ==
  /\ Running /\ c \in held
  /\ SetState(c, "IM001")
  /\ UNCHANGED <<processVars, handleVars, stmtVars, outcome>>

StmtFreeNeedsServer(s) ==
  /\ phase = "up" /\ request \in {"running", "ending"}
  /\ owner[s] \in server
  /\ owner' = [owner EXCEPT ![s] = "none"]
  /\ UNCHANGED <<processVars, handleVars, errorVars, orphans, forced, outcome>>

\* pdo_taos_stmt_dtor: taos_stmt_close, whatever became of the connection.
StmtFree(s) ==
  /\ phase = "up" /\ request \in {"running", "ending"}
  /\ owner[s] # "none"
  /\ orphans' = (IF owner[s] \in server THEN orphans ELSE orphans \cup {s})
  /\ owner' = [owner EXCEPT ![s] = "none"]
  /\ UNCHANGED <<processVars, handleVars, errorVars, forced, outcome>>

-----------------------------------------------------------------------------
(***************************************************************************)
(* Requests and the process.                                               *)
(***************************************************************************)

RequestStart ==
  /\ phase = "up" /\ request = "none"
  /\ requests < MaxRequests
  /\ request' = "running"
  /\ requests' = requests + 1
  /\ UNCHANGED <<phase, taos_inited, library, connected>>
  /\ UNCHANGED <<handleVars, errorVars, stmtVars, outcome>>

\* The script is over; its objects go, by reference count or by force.
RequestEnding ==
  /\ Running
  /\ request' = "ending"
  /\ UNCHANGED <<phase, requests, taos_inited, library, connected>>
  /\ UNCHANGED <<handleVars, errorVars, stmtVars, outcome>>

\* Objects of a cycle are freed in whatever order PHP meets them: by its collector
\* while a script runs, or slot by slot at the end of the request, where slots
\* have been used again.  So a handle may go before its statements.
ForcedRelease(c) ==
  /\ phase = "up" /\ request \in {"running", "ending"}
  /\ c \in held
  /\ StmtsOf(c) # {}
  /\ forced' = TRUE
  /\ held' = held \ {c}
  /\ IF c \in persistent
       THEN UNCHANGED <<phase, server, errmsg>>
       ELSE taos_handle_closer({c})
  /\ UNCHANGED <<request, requests, taos_inited, library, connected, persistent>>
  /\ UNCHANGED <<errcode, error_code, owner, orphans, outcome>>

\* PHP releases the memory of the request, the messages of persistent handles
\* with it.
RequestEnd ==
  /\ phase = "up" /\ request = "ending"
  /\ held = {}
  /\ \A s \in Stmts : owner[s] = "none"
  /\ request' = "none"
  /\ errmsg' = [c \in Conns |-> IF errmsg[c] = "NULL" THEN "NULL" ELSE "released"]
  /\ outcome' = "none"
  /\ UNCHANGED <<phase, requests, taos_inited, library, connected>>
  /\ UNCHANGED <<handleVars, errcode, error_code, stmtVars>>

\* taos_cleanup when the flag says so.
CleanupForgets == taos_inited' = FALSE /\ UNCHANGED library
Cleanup ==
  /\ taos_inited' = FALSE
  /\ library' = (library /\ ~taos_inited)

\* PHP destroys its persistent handles, then runs PHP_MSHUTDOWN.
ModuleShutdown ==
  /\ phase = "up" /\ request = "none"
  /\ IF \E c \in server : Corrupts(c)
       THEN phase' = "crash_free" /\ UNCHANGED <<server, errmsg, taos_inited, library>>
       ELSE /\ phase' = "down"
            /\ server' = {}
            /\ errmsg' = [c \in Conns |-> "NULL"]
            /\ Cleanup
  /\ UNCHANGED <<request, requests, connected, persistent, held>>
  /\ UNCHANGED <<errcode, error_code, stmtVars, outcome>>

-----------------------------------------------------------------------------
Script ==
  \/ \E c \in Conns, p \in BOOLEAN : Connect(c, p)
  \/ \E c \in Conns : ConnectFails(c)
  \/ \E c \in Conns : Reuse(c)
  \/ \E c \in Conns, s \in Stmts : Prepare(c, s)
  \/ \E c \in Conns : PrepareFails(c)
  \/ \E s \in Stmts : StmtFails(s)
  \/ \E c \in Conns : Exec(c)
  \/ \E c \in Conns : ExecFails(c)
  \/ \E c \in Conns : Inquire(c)
  \/ \E c \in Conns : Commit(c)
  \/ \E c \in Conns : Unsupported(c)
  \/ RequestEnding

\* Releasing objects happens while a script runs and, by itself, when it is over.
Teardown ==
  \/ \E c \in Conns : Release(c)
  \/ \E c \in Conns : ForcedRelease(c)
  \/ \E s \in Stmts : StmtFree(s)
  \/ RequestEnd

Next ==
  \/ Script
  \/ Teardown
  \/ RequestStart
  \/ ModuleShutdown

Spec == Init /\ [][Next]_vars

\* PHP always tears a finished request down; what a script does is up to it.
FairSpec == Spec /\ WF_vars(request = "ending" /\ Teardown)

-----------------------------------------------------------------------------
(***************************************************************************)
(* The inductive invariant.                                                *)
(***************************************************************************)

\* A handle in use is connected; one that outlives its users is persistent.
HeldInv ==
  /\ held \subseteq server
  /\ server \ persistent \subseteq held
  /\ request = "none" => held = {}
  /\ phase = "down" => server = {} /\ request = "none"

\* A statement keeps its handle in use, until PHP breaks cycles.
OwnerInv ==
  /\ request = "none" => \A s \in Stmts : owner[s] = "none"
  /\ ~forced => \A s \in Stmts : owner[s] \in held \cup {"none"}

\* An error code comes with its message on a handle of one request.
MessageInv ==
  \A c \in server \ persistent : errcode[c] # ZeroCode => errmsg[c] = "request"

\* The driver's flag follows the first connection.
InitedInv == phase # "down" => (connected => taos_inited)

-----------------------------------------------------------------------------
(***************************************************************************)
(* Properties.                                                             *)
(***************************************************************************)

\* PDO::errorInfo never copies a NULL or a released message: an error code that
\* is reported has its message, through any sequence of errors and of methods
\* that clear only the SQLSTATE.  Persistent handles keep no such promise.
InfoReadable ==
  phase = "up" /\ request = "running" =>
    \A c \in held \ persistent : ErrorInfo(c) # <<>> => ErrorInfo(c)[2] = "request"

\* taos_stmt_close comes before taos_close of the same connection, unless PHP
\* had to break a cycle.
StmtsClosedFirst == orphans # {} => forced

\* Between requests only persistent connections are open, and after module
\* shutdown none is.
NoConnectionLeft ==
  /\ request = "none" => server \subseteq persistent
  /\ phase = "down" => server = {}

\* After module shutdown the client library is cleaned up, unless no connection
\* ever succeeded: a failed taos_connect leaves taos_inited unset.
CleanupExplained == phase = "down" /\ library => ~connected

\* A request that ends, ends: destructors and closers run to the last object
\* even when the order is forced, and whatever errors were recorded.
RequestsEnd == request = "ending" ~> request = "none"

\* Freeing an object or ending a request never meets a message of another
\* allocator, however many errors the handles and their statements have
\* recorded, as it closes handles of one request only; and it brings teardown
\* nearer to its end, whatever the order.  What hands a message to the wrong
\* allocator is another error on a persistent handle, or the end of the module.
Undone ==
  Cardinality(held) + Cardinality({s \in Stmts : owner[s] # "none"})
    + (IF request = "ending" THEN 1 ELSE 0)
TeardownProgress == [][Teardown => phase' = "up" /\ Undone' \in 0 .. Undone - 1]_vars

\* The reasons behind the properties above, in a form every step preserves: who
\* keeps a handle open, what keeps a message readable, what the flag records.
IInv ==
  /\ TypeOK
  /\ HeldInv
  /\ OwnerInv
  /\ MessageInv
  /\ InitedInv
  /\ StmtsClosedFirst
  /\ CleanupExplained

\* The connections implement HandleLife: the error of a statement goes only to a
\* connection that is open, a handle that is opened again starts without the
\* error of the one before it, and the library outlives every connection.  A
\* handle has the errcode of its einfo while it is connected.
Life == INSTANCE HandleLife WITH
  Handles <- Conns,
  Codes   <- Codes \cup {ZeroCode, ConvertedZero},
  NoError <- ZeroCode,
  opened  <- server,
  last    <- [c \in Conns |-> IF c \in server THEN errcode[c] ELSE ZeroCode],
  ever    <- connected,
  stopped <- phase = "down"
RefinesLife == Life!LifeSpec

\* README.md:167: PDO::exec returns 0, or -1 if it fails.
ExecAnswers == outcome # "exception"

=============================================================================
