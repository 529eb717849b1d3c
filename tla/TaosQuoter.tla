----------------------------- MODULE TaosQuoter -----------------------------
(***************************************************************************)
(* taos_handle_quoter, which PDO::quote calls: one loop counts the single  *)
(* quotes of a text, a block is allocated for the text with each of them   *)
(* doubled, and a second loop copies the text into it.  The loops see a C  *)
(* string, which ends at a NUL; the length is that of the PHP string,      *)
(* which may go on behind it.  All four copies have these loops.           *)
(***************************************************************************)
EXTENDS TaosVersions, FiniteSets, Sequences, SequencesExt

CONSTANTS
  Texts,     \* what a script may quote: sequences of characters
  HalfCount  \* half the range of qcount, an int

\* Characters that are neither a quote nor a NUL are not told apart.
Quote == "quote"
Nul == "NUL"
Chars == {Quote, Nul, "other"}

ASSUME TextsAssumption == Texts \subseteq Seq(Chars)
ASSUME CountAssumption == HalfCount \in Nat \ {0}

VARIABLES
  build,     \* PHP_VERSION_ID
  pc,        \* "idle", "count", "copy", "done", "crash"
  given,     \* the text the script has passed
  unquoted,  \* the text as the function sees it
  qcount,    \* quotes counted
  cu,        \* where the first loop is in the text
  quotedlen, \* the length of the answer
  l,         \* where the second loop is in the text
  quoted     \* what has been written to the block: c points behind it

vars == <<build, pc, given, unquoted, qcount, cu, quotedlen, l, quoted>>

-----------------------------------------------------------------------------
Init ==
  /\ build \in Builds
  /\ pc = "idle"
  /\ given = <<>> /\ unquoted = <<>> /\ qcount = 0 /\ cu = 1
  /\ quotedlen = 0 /\ l = 1 /\ quoted = <<>>

\* A copy for the other generation of PHP would take the pointer to a zend_string
\* for one to its characters, or the other way round.
Received(b, text) == IF ZvalInterface(b) = (DriverCopy(b) = "80100") THEN {text} ELSE Texts

\* r = strchr(i, '\''): the first quote at or behind i, before the end of the C
\* string.
QuotesFrom(i) ==
  {r \in i .. Len(unquoted) : unquoted[r] = Quote /\ \A j \in i .. r : unquoted[j] # Nul}
strchr(i, r) == r \in QuotesFrom(i) /\ \A s \in QuotesFrom(i) : r <= s

\* The call; an empty text needs no block of its own.
Call(text) ==
  /\ pc \in {"idle", "done"}
  /\ given' = text
  /\ unquoted' \in Received(build, text)
  /\ qcount' = 0 /\ cu' = 1 /\ l' = 1
  /\ IF Len(unquoted') = 0
       THEN pc' = "done" /\ quotedlen' = 2 /\ quoted' = <<Quote, Quote>>
       ELSE pc' = "count" /\ quotedlen' = 0 /\ quoted' = <<>>
  /\ UNCHANGED build

\* One turn of the first loop.  An int that overflows is taken to wrap.
Unwrapped(n) == n
Wrapped(n) == IF n < HalfCount THEN n ELSE n - 2 * HalfCount
CountQuoteSkips ==
  /\ pc = "count"
  /\ \E r \in QuotesFrom(cu) : strchr(cu, r) /\ cu' = r + 2
  /\ qcount' = Wrapped(qcount + 1)
  /\ UNCHANGED <<build, pc, given, unquoted, quotedlen, l, quoted>>
CountQuoteStays ==
  /\ pc = "count"
  /\ \E r \in QuotesFrom(cu) : strchr(cu, r) /\ cu' = r
  /\ qcount' = Wrapped(qcount + 1)
  /\ UNCHANGED <<build, pc, given, unquoted, quotedlen, l, quoted>>
CountQuote ==
  /\ pc = "count"
  /\ \E r \in QuotesFrom(cu) : strchr(cu, r) /\ cu' = r + 1
  /\ qcount' = Wrapped(qcount + 1)
  /\ UNCHANGED <<build, pc, given, unquoted, quotedlen, l, quoted>>

\* No quote is left: the block is allocated and opened with a quote.
AllocateShort ==
  /\ pc = "count" /\ QuotesFrom(cu) = {}
  /\ pc' = "copy"
  /\ quotedlen' = Len(unquoted) + qcount + 1
  /\ quoted' = <<Quote>>
  /\ UNCHANGED <<build, given, unquoted, qcount, cu, l>>
Allocate ==
  /\ pc = "count" /\ QuotesFrom(cu) = {}
  /\ pc' = "copy"
  /\ quotedlen' = Len(unquoted) + qcount + 2
  /\ quoted' = <<Quote>>
  /\ UNCHANGED <<build, given, unquoted, qcount, cu, l>>

\* One turn of the second loop: a chunk that ends in a quote, and a second quote.
CopyChunkOnce ==
  /\ pc = "copy"
  /\ \E r \in QuotesFrom(l) :
       /\ strchr(l, r)
       /\ quoted' = quoted \o SubSeq(unquoted, l, r)
       /\ l' = r + 1
  /\ UNCHANGED <<build, pc, given, unquoted, qcount, cu, quotedlen>>
CopyChunk ==
  /\ pc = "copy"
  /\ \E r \in QuotesFrom(l) :
       /\ strchr(l, r)
       /\ quoted' = Append(quoted \o SubSeq(unquoted, l, r), Quote)
       /\ l' = r + 1
  /\ UNCHANGED <<build, pc, given, unquoted, qcount, cu, quotedlen>>

\* strncpy(c, l, n): the C string at l, filled up with NULs.
Remainder(n) ==
  [k \in 1 .. n |->
     IF l + k - 1 <= Len(unquoted) /\ \A j \in l .. l + k - 1 : unquoted[j] # Nul
     THEN unquoted[l + k - 1] ELSE Nul]

\* No quote is left: the rest of the text and the closing quote; or, when no room
\* is left, a size that is no longer positive and wraps.
CopyRemainder ==
  LET n == quotedlen - Len(quoted) - 1
  IN  /\ pc = "copy" /\ QuotesFrom(l) = {}
      /\ IF n >= 0
           THEN pc' = "done" /\ quoted' = Append(quoted \o Remainder(n), Quote)
           ELSE pc' = "crash" /\ UNCHANGED quoted
      /\ UNCHANGED <<build, given, unquoted, qcount, cu, quotedlen, l>>

Quoter == CountQuote \/ Allocate \/ CopyChunk \/ CopyRemainder

Next ==
  \/ \E text \in Texts : Call(text)
  \/ Quoter

Spec == Init /\ [][Next]_vars
\* The function runs to its end; the script need not call it.
FairSpec == Spec /\ WF_vars(Quoter)

-----------------------------------------------------------------------------
(***************************************************************************)
(* Properties.                                                             *)
(***************************************************************************)

TypeOK ==
  /\ build \in Builds
  /\ pc \in {"idle", "count", "copy", "done", "crash"}
  /\ given \in Seq(Chars) /\ unquoted \in Seq(Chars)
  /\ qcount \in -HalfCount .. HalfCount - 1
  /\ cu \in Nat \ {0} /\ l \in Nat \ {0}
  /\ quotedlen \in Int
  /\ quoted \in Seq(Chars)

\* The quotes before position i that the loops see, and all of them.
QuotesBefore(i) == {r \in 1 .. i - 1 : r \in QuotesFrom(1)}
Countable == Cardinality(QuotesFrom(1)) < HalfCount

\* What the first loop counted is what the second one needs: the block is never
\* written behind its end, and at the end it is full.  For more quotes than an
\* int counts nothing is said.
QuotedFits ==
  Countable =>
    /\ pc = "copy" => Len(quoted) < quotedlen
    /\ pc = "done" => Len(quoted) = quotedlen
    /\ pc # "crash"

\* The C string that a text starts with.
CString(text) ==
  LET ends == {i \in 1 .. Len(text) : text[i] = Nul}
  IN  IF ends = {} THEN text ELSE SubSeq(text, 1, (CHOOSE i \in ends : \A j \in ends : i <= j) - 1)
Doubled(text) ==
  FlattenSeq([i \in 1 .. Len(text) |-> IF text[i] = Quote THEN <<Quote, Quote>> ELSE <<text[i]>>])
Nuls(n) == [i \in 1 .. n |-> Nul]

\* The answer is the C string with every quote doubled, between two quotes; what
\* the script has behind a NUL is replaced by as many NULs.
QuotedRight ==
  pc = "done" /\ Countable =>
    LET s == CString(given)
    IN  quoted = <<Quote>> \o Doubled(s) \o Nuls(Len(given) - Len(s)) \o <<Quote>>

\* Every call returns, or ends the process.
QuoteReturns == (pc = "count") ~> (pc \in {"done", "crash"})

\* How many turns the two loops can still make.
ToGo ==
  IF pc = "count" THEN 2 * Len(unquoted) + 3 - cu
  ELSE IF pc = "copy" THEN Len(unquoted) + 2 - l
  ELSE 0

\* Every turn gets the function nearer to its end, so that it makes no more than
\* two turns for each character, and three.
QuoterProgress == [][Quoter => ToGo' \in Nat /\ ToGo' < ToGo]_vars

\* What the loops have in common.
LoopInv ==
  /\ pc = "count" => unquoted # <<>> /\ l = 1
  /\ pc \in {"count", "copy"} =>
       cu - 1 <= Len(unquoted) /\ QuotesFrom(1) = QuotesBefore(cu) \cup QuotesFrom(cu)
  /\ pc = "count" /\ Countable => qcount = Cardinality(QuotesBefore(cu))
  /\ pc = "copy" =>
       /\ l - 1 <= Len(unquoted)
       /\ QuotesFrom(1) = QuotesBefore(l) \cup QuotesFrom(l)
       /\ Len(quoted) = l + Cardinality(QuotesBefore(l))
       /\ Countable => quotedlen = Len(unquoted) + Cardinality(QuotesFrom(1)) + 2
SizeInv == TypeOK /\ LoopInv /\ QuotedFits

\* What the second loop has written: the text before l, which has no NUL, doubled.
CopiedInv ==
  /\ pc \in {"count", "copy", "done"} => unquoted = given
  /\ pc = "copy" =>
       /\ quoted = <<Quote>> \o Doubled(SubSeq(unquoted, 1, l - 1))
       /\ \A j \in 1 .. l - 1 : unquoted[j] # Nul
IInv == SizeInv /\ CopiedInv /\ QuotedRight

=============================================================================
