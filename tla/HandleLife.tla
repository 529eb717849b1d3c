----------------------------- MODULE HandleLife -----------------------------
(***************************************************************************)
(* What the connections of a process promise, seen from the script: a      *)
(* handle is opened with the library running, is used only while it is     *)
(* open, starts its life without an error and keeps the code of its last   *)
(* error until it is closed.  Handles are closed one at a time; whatever   *)
(* is open when the module stops is closed then, the library is stopped    *)
(* after it, and nothing happens any more.                                 *)
(***************************************************************************)
EXTENDS Naturals

CONSTANTS
  Handles, \* database handles
  Codes,   \* codes an error may have
  NoError  \* the code of a handle without an error

VARIABLES
  opened,  \* handles that are open
  last,    \* the code of the last error of each handle
  library, \* the client library is running
  ever,    \* some handle was opened
  stopped  \* the module is gone

life == <<opened, last, library, ever, stopped>>

LifeInit ==
  /\ opened = {} /\ last = [h \in Handles |-> NoError]
  /\ library = FALSE /\ ever = FALSE /\ stopped = FALSE

Open(h) ==
  /\ ~stopped /\ h \notin opened
  /\ opened' = opened \cup {h}
  /\ library' = TRUE /\ ever' = TRUE
  /\ UNCHANGED <<last, stopped>>

\* A connection that cannot be made still starts the library.
OpenFails ==
  /\ ~stopped
  /\ library' = TRUE
  /\ UNCHANGED <<opened, last, ever, stopped>>

Fail(h, code) ==
  /\ ~stopped /\ h \in opened
  /\ last' = [last EXCEPT ![h] = code]
  /\ UNCHANGED <<opened, library, ever, stopped>>

Close(h) ==
  /\ ~stopped /\ h \in opened
  /\ opened' = opened \ {h}
  /\ last' = [last EXCEPT ![h] = NoError]
  /\ UNCHANGED <<library, ever, stopped>>

Stop ==
  /\ ~stopped /\ stopped' = TRUE
  /\ opened' = {}
  /\ last' = [h \in Handles |-> NoError]
  /\ library' \in BOOLEAN
  /\ ever => library' = FALSE
  /\ UNCHANGED ever

LifeNext ==
  \/ \E h \in Handles : Open(h) \/ Close(h) \/ \E code \in Codes : Fail(h, code)
  \/ OpenFails
  \/ Stop

LifeSpec == LifeInit /\ [][LifeNext]_life

=============================================================================
