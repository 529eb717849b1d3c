-------------------------- MODULE TaosQuoterProofs --------------------------
(***************************************************************************)
(* The quoter never writes behind its block, for texts of any length: the  *)
(* two loops are related by the set of quotes they have passed.            *)
(***************************************************************************)
EXTENDS TaosQuoter, FiniteSetTheorems, TLAPS

(***************************************************************************)
(* Quotes and the loops' steps.                                            *)
(***************************************************************************)

\* The quotes of a text are finitely many, and those before a position no more.
LEMMA QuotesFinite ==
  ASSUME unquoted \in Seq(Chars), NEW i \in Nat \ {0}
  PROVE  /\ IsFiniteSet(QuotesFrom(i)) /\ IsFiniteSet(QuotesBefore(i))
         /\ Cardinality(QuotesFrom(1)) \in Nat /\ Cardinality(QuotesBefore(i)) \in Nat
         /\ Cardinality(QuotesBefore(i)) <= Cardinality(QuotesFrom(1))
<1>1. Len(unquoted) \in Nat
  OBVIOUS
<1>2. \A k \in Nat \ {0} : IsFiniteSet(QuotesFrom(k))
  <2> SUFFICES ASSUME NEW k \in Nat \ {0}
               PROVE  IsFiniteSet(QuotesFrom(k))
    OBVIOUS
  <2>1. IsFiniteSet(k .. Len(unquoted))
    BY <1>1, FS_Interval
  <2>2. QuotesFrom(k) \subseteq k .. Len(unquoted)
    BY DEF QuotesFrom
  <2> QED
    BY <2>1, <2>2, FS_Subset
<1>3. QuotesBefore(i) \subseteq QuotesFrom(1)
  BY DEF QuotesBefore
<1> QED
  BY <1>2, <1>3, FS_Subset, FS_CardinalityType

\* Before the first position there is none.
LEMMA NoneBefore == QuotesBefore(1) = {} /\ Cardinality(QuotesBefore(1)) = 0
<1>1. QuotesBefore(1) = {}
  BY DEF QuotesBefore
<1> QED
  BY <1>1, FS_EmptySet

\* A turn of either loop passes one quote.
LEMMA OneQuote ==
  ASSUME unquoted \in Seq(Chars), NEW i \in Nat \ {0}, NEW r, strchr(i, r),
         QuotesFrom(1) = QuotesBefore(i) \cup QuotesFrom(i)
  PROVE  /\ r \in i .. Len(unquoted)
         /\ QuotesFrom(1) = QuotesBefore(r + 1) \cup QuotesFrom(r + 1)
         /\ Cardinality(QuotesBefore(r + 1)) = Cardinality(QuotesBefore(i)) + 1
<1>1. /\ r \in i .. Len(unquoted) /\ r \in QuotesFrom(i)
      /\ \A s \in QuotesFrom(i) : r <= s
  BY DEF strchr, QuotesFrom
<1>2. \A j \in 1 .. r : unquoted[j] # Nul
  <2>1. r \in QuotesFrom(1)
    BY <1>1
  <2> QED
    BY <2>1 DEF QuotesFrom
<1>3. QuotesFrom(r + 1) \subseteq QuotesFrom(1)
  <2> SUFFICES ASSUME NEW x \in QuotesFrom(r + 1)
               PROVE  x \in QuotesFrom(1)
    OBVIOUS
  <2>1. /\ x \in r + 1 .. Len(unquoted) /\ unquoted[x] = Quote
        /\ \A j \in r + 1 .. x : unquoted[j] # Nul
    BY DEF QuotesFrom
  <2>2. \A j \in 1 .. x : j \in 1 .. r \/ j \in r + 1 .. x
    BY <1>1, <2>1
  <2> QED
    BY <1>1, <1>2, <2>1, <2>2 DEF QuotesFrom
<1>4. \A x \in QuotesFrom(1) : x \in QuotesBefore(r + 1) \/ x \in QuotesFrom(r + 1)
  BY <1>1 DEF QuotesFrom, QuotesBefore
<1>5. QuotesBefore(r + 1) = QuotesBefore(i) \cup {r}
  <2>1. \A x \in QuotesBefore(r + 1) : x \in QuotesBefore(i) \/ x = r
    BY <1>1 DEF QuotesBefore
  <2>2. r \in QuotesBefore(r + 1)
    BY <1>1 DEF QuotesBefore
  <2>3. \A x \in QuotesBefore(i) : x \in QuotesBefore(r + 1)
    BY <1>1 DEF QuotesBefore
  <2> QED
    BY <2>1, <2>2, <2>3
<1>6. r \notin QuotesBefore(i)
  BY <1>1 DEF QuotesBefore
<1>7. Cardinality(QuotesBefore(r + 1)) = Cardinality(QuotesBefore(i)) + 1
  BY <1>5, <1>6, QuotesFinite, FS_AddElement
<1>8. QuotesBefore(r + 1) \subseteq QuotesFrom(1)
  BY DEF QuotesBefore
<1> QED
  BY <1>1, <1>3, <1>4, <1>7, <1>8

\* The rest of the text is as long as the room that is left.
LEMMA RemainderType ==
  ASSUME unquoted \in Seq(Chars), l \in Nat \ {0}, NEW n \in Nat
  PROVE  Remainder(n) \in Seq(Chars) /\ Len(Remainder(n)) = n
<1> DEFINE at(k) == IF l + k - 1 <= Len(unquoted) /\ \A j \in l .. l + k - 1 : unquoted[j] # Nul
                    THEN unquoted[l + k - 1] ELSE Nul
<1>1. \A k \in 1 .. n : at(k) \in Chars
  BY DEF Chars
<1>2. Remainder(n) = [k \in 1 .. n |-> at(k)]
  BY DEF Remainder
<1> HIDE DEF at
<1>3. Remainder(n) \in Seq(Chars)
  BY <1>1, <1>2
<1> QED
  BY <1>2, <1>3

\* What a loop writes is as long as its parts.
LEMMA Written ==
  ASSUME NEW s \in Seq(Chars), NEW t \in Seq(Chars)
  PROVE  /\ Append(s \o t, Quote) \in Seq(Chars)
         /\ Len(Append(s \o t, Quote)) = Len(s) + Len(t) + 1
BY DEF Chars

(***************************************************************************)
(* The invariant.                                                          *)
(***************************************************************************)

LEMMA InitSizeInv == Init => SizeInv
BY CountAssumption DEF Init, SizeInv, TypeOK, LoopInv, QuotedFits, Chars

\* A step that leaves the text alone leaves its quotes alone.
LEMMA SameQuotes ==
  ASSUME unquoted' = unquoted
  PROVE  /\ \A i : QuotesFrom(i)' = QuotesFrom(i)
         /\ \A i : QuotesBefore(i)' = QuotesBefore(i)
         /\ Countable' = Countable
<1>1. /\ \A i : QuotesFrom(i)' = QuotesFrom(i)
  BY DEF QuotesFrom
<1> QED
  BY <1>1 DEF QuotesBefore, Countable

LEMMA NextSizeInv == SizeInv /\ [Next]_vars => SizeInv'
<1> SUFFICES ASSUME SizeInv, [Next]_vars
             PROVE  SizeInv'
  OBVIOUS
<1> USE DEF SizeInv
<1>1. unquoted \in Seq(Chars) /\ Len(unquoted) \in Nat /\ quoted \in Seq(Chars)
  BY DEF TypeOK
<1>2. ASSUME NEW text \in Texts, Call(text)
      PROVE  SizeInv'
  <2>1. given' \in Seq(Chars) /\ unquoted' \in Seq(Chars)
    BY <1>2, TextsAssumption DEF Call, Received
  <2>2. CASE Len(unquoted') = 0
    <3>1. pc' = "done" /\ quotedlen' = 2 /\ quoted' = <<Quote, Quote>>
      BY <1>2, <2>2 DEF Call
    <3>2. TypeOK'
      BY <1>2, <2>1, <3>1, CountAssumption DEF Call, TypeOK, Chars
    <3> QED
      BY <3>1, <3>2 DEF LoopInv, QuotedFits
  <2>3. CASE Len(unquoted') # 0
    <3>1. /\ pc' = "count" /\ quotedlen' = 0 /\ quoted' = <<>>
          /\ qcount' = 0 /\ cu' = 1 /\ l' = 1
      BY <1>2, <2>3 DEF Call
    <3>2. TypeOK'
      BY <1>2, <2>1, <3>1, CountAssumption DEF Call, TypeOK
    <3>3. QuotesBefore(1)' = {} /\ Cardinality(QuotesBefore(1)') = 0
      BY FS_EmptySet DEF QuotesBefore
    <3>4. LoopInv'
      BY <2>1, <2>3, <3>1, <3>3 DEF LoopInv
    <3> QED
      BY <3>1, <3>2, <3>4 DEF QuotedFits
  <2> QED
    BY <2>2, <2>3
<1>3. ASSUME CountQuote
      PROVE  SizeInv'
  <2>1. /\ UNCHANGED <<build, pc, given, unquoted, quotedlen, l, quoted>>
        /\ pc = "count" /\ qcount' = Wrapped(qcount + 1)
    BY <1>3 DEF CountQuote
  <2>2. PICK r \in QuotesFrom(cu) : strchr(cu, r) /\ cu' = r + 1
    BY <1>3 DEF CountQuote
  <2>3. /\ cu \in Nat \ {0} /\ QuotesFrom(1) = QuotesBefore(cu) \cup QuotesFrom(cu)
    BY <2>1 DEF TypeOK, LoopInv
  <2>4. /\ r \in cu .. Len(unquoted)
        /\ QuotesFrom(1) = QuotesBefore(cu') \cup QuotesFrom(cu')
        /\ Cardinality(QuotesBefore(cu')) = Cardinality(QuotesBefore(cu)) + 1
    BY <1>1, <2>2, <2>3, OneQuote
  <2>5. TypeOK'
    BY <2>1, <2>2, <2>3, <2>4, CountAssumption DEF TypeOK, Wrapped
  <2>6. Countable => qcount' = Cardinality(QuotesBefore(cu'))
    <3>1. SUFFICES ASSUME Countable
                   PROVE  qcount' = Cardinality(QuotesBefore(cu'))
      OBVIOUS
    <3>2. qcount = Cardinality(QuotesBefore(cu))
      BY <2>1, <3>1 DEF LoopInv
    <3>3. cu' \in Nat \ {0}
      BY <2>5 DEF TypeOK
    <3>4. /\ Cardinality(QuotesBefore(cu')) \in Nat
          /\ Cardinality(QuotesBefore(cu')) <= Cardinality(QuotesFrom(1))
          /\ Cardinality(QuotesFrom(1)) \in Nat
      BY <1>1, <3>3, QuotesFinite
    <3> QED
      BY <2>1, <2>4, <3>1, <3>2, <3>4, CountAssumption DEF Countable, Wrapped, TypeOK
  <2>7. LoopInv'
    <3>1. cu' - 1 <= Len(unquoted) /\ unquoted # <<>> /\ l = 1
      BY <2>1, <2>2, <2>3, <2>4 DEF LoopInv
    <3> QED
      BY <2>1, <2>4, <2>6, <3>1, SameQuotes DEF LoopInv, QuotesBefore, QuotesFrom, Countable
  <2> QED
    BY <2>1, <2>5, <2>7 DEF QuotedFits
<1>4. ASSUME Allocate
      PROVE  SizeInv'
  <2>1. /\ UNCHANGED <<build, given, unquoted, qcount, cu, l>>
        /\ pc = "count" /\ pc' = "copy" /\ QuotesFrom(cu) = {} /\ l = 1 /\ l' = 1
        /\ quotedlen' = Len(unquoted) + qcount + 2 /\ quoted' = <<Quote>>
    BY <1>4 DEF Allocate, LoopInv
  <2>2. TypeOK'
    BY <2>1 DEF TypeOK, Chars
  <2>3. QuotesFrom(1) = QuotesBefore(cu) /\ unquoted # <<>>
    BY <2>1 DEF LoopInv
  <2>4. Countable => quotedlen' = Len(unquoted) + Cardinality(QuotesFrom(1)) + 2
    BY <2>1, <2>3 DEF LoopInv
  <2>5. /\ QuotesFrom(1) = QuotesBefore(1) \cup QuotesFrom(1)
        /\ Len(quoted') = 1 + Cardinality(QuotesBefore(1))
    BY <2>1, NoneBefore
  <2>6. cu' - 1 <= Len(unquoted) /\ QuotesFrom(1) = QuotesBefore(cu) \cup QuotesFrom(cu)
    BY <2>1 DEF LoopInv
  <2>7. LoopInv'
    BY <1>1, <2>1, <2>4, <2>5, <2>6, SameQuotes DEF LoopInv
  <2>8. Countable => Len(quoted') < quotedlen'
    BY <1>1, <2>1, <2>4, QuotesFinite
  <2> QED
    BY <2>1, <2>2, <2>7, <2>8, SameQuotes DEF QuotedFits
<1>5. ASSUME CopyChunk
      PROVE  SizeInv'
  <2>1. /\ UNCHANGED <<build, pc, given, unquoted, qcount, cu, quotedlen>>
        /\ pc = "copy"
    BY <1>5 DEF CopyChunk
  <2>2. PICK r \in QuotesFrom(l) :
          /\ strchr(l, r)
          /\ quoted' = Append(quoted \o SubSeq(unquoted, l, r), Quote)
          /\ l' = r + 1
    BY <1>5 DEF CopyChunk
  <2>3. /\ l \in Nat \ {0} /\ QuotesFrom(1) = QuotesBefore(l) \cup QuotesFrom(l)
        /\ Len(quoted) = l + Cardinality(QuotesBefore(l))
    BY <2>1 DEF TypeOK, LoopInv
  <2>4. /\ r \in l .. Len(unquoted)
        /\ QuotesFrom(1) = QuotesBefore(l') \cup QuotesFrom(l')
        /\ Cardinality(QuotesBefore(l')) = Cardinality(QuotesBefore(l)) + 1
    BY <1>1, <2>2, <2>3, OneQuote
  <2>5. SubSeq(unquoted, l, r) \in Seq(Chars) /\ Len(SubSeq(unquoted, l, r)) = r - l + 1
    BY <1>1, <2>3, <2>4
  <2>6. quoted' \in Seq(Chars) /\ Len(quoted') = Len(quoted) + (r - l + 1) + 1
    BY <1>1, <2>2, <2>5, Written
  <2>7. Cardinality(QuotesBefore(l)) \in Nat
    BY <1>1, <2>3, QuotesFinite
  <2>8. l' \in Nat \ {0} /\ l' - 1 <= Len(unquoted) /\ Len(quoted') = l' + Cardinality(QuotesBefore(l'))
    <3>1. l' = r + 1 /\ r \in Nat \ {0} /\ r <= Len(unquoted)
      BY <1>1, <2>2, <2>3, <2>4
    <3>2. Len(quoted') = l' + (Cardinality(QuotesBefore(l)) + 1)
      BY <2>3, <2>6, <2>7, <3>1
    <3> QED
      BY <1>1, <2>4, <3>1, <3>2
  <2>9. TypeOK'
    BY <2>1, <2>6, <2>8 DEF TypeOK
  <2>10. LoopInv'
    BY <2>1, <2>4, <2>8, SameQuotes DEF LoopInv, QuotesBefore, QuotesFrom, Countable
  <2>11. Countable => Len(quoted') < quotedlen
    BY <1>1, <2>1, <2>8, QuotesFinite DEF LoopInv
  <2> QED
    BY <2>1, <2>9, <2>10, <2>11, SameQuotes DEF QuotedFits
<1>6. ASSUME CopyRemainder
      PROVE  SizeInv'
  <2> DEFINE n == quotedlen - Len(quoted) - 1
  <2>1. /\ UNCHANGED <<build, given, unquoted, qcount, cu, quotedlen, l>> /\ pc = "copy"
        /\ IF n >= 0
             THEN pc' = "done" /\ quoted' = Append(quoted \o Remainder(n), Quote)
             ELSE pc' = "crash" /\ UNCHANGED quoted
    BY <1>6 DEF CopyRemainder
  <2>2. n \in Int /\ l \in Nat \ {0} /\ quotedlen \in Int /\ Len(quoted) \in Nat
    BY <1>1 DEF TypeOK
  <2>3. CASE n >= 0
    <3>1. Remainder(n) \in Seq(Chars) /\ Len(Remainder(n)) = n
      <4>1. n \in Nat
        BY <2>2, <2>3
      <4> HIDE DEF n
      <4> QED
        BY <1>1, <2>2, <4>1, RemainderType
    <3>2. quoted' \in Seq(Chars) /\ Len(quoted') = Len(quoted) + n + 1
      <4>1. quoted' = Append(quoted \o Remainder(n), Quote)
        BY <2>1, <2>3
      <4> HIDE DEF n
      <4> QED
        BY <1>1, <3>1, <4>1, Written
    <3>3. Len(quoted') = quotedlen /\ pc' = "done"
      BY <1>1, <2>1, <2>3, <3>2 DEF TypeOK
    <3>4. TypeOK'
      BY <2>1, <3>2, <3>3 DEF TypeOK
    <3> QED
      BY <2>1, <3>3, <3>4 DEF LoopInv, QuotedFits
  <2>4. CASE ~(n >= 0)
    <3>1. pc' = "crash" /\ quoted' = quoted
      BY <2>1, <2>4
    <3>2. ~Countable
      <4>1. ~(Len(quoted) < quotedlen)
        BY <2>2, <2>4
      <4> QED
        BY <2>1, <4>1 DEF QuotedFits
    <3>3. TypeOK'
      BY <2>1, <3>1 DEF TypeOK
    <3> QED
      BY <2>1, <3>1, <3>2, <3>3, SameQuotes DEF LoopInv, QuotedFits
  <2> QED
    BY <2>3, <2>4
<1>7. CASE UNCHANGED vars
  BY <1>7, SameQuotes DEF vars, TypeOK, LoopInv, QuotedFits, QuotesBefore, QuotesFrom, Countable
<1> QED
  BY <1>2, <1>3, <1>4, <1>5, <1>6, <1>7 DEF Next, Quoter

\* The inductive invariant of the loops holds in every reachable state.
THEOREM SizeInvariance == Spec => []SizeInv
BY InitSizeInv, NextSizeInv, PTL DEF Spec

\* Every variable keeps its type.
THEOREM QuoterTypeCorrect == Spec => []TypeOK
<1>1. SizeInv => TypeOK
  BY DEF SizeInv
<1> QED
  BY <1>1, SizeInvariance, PTL

\* The block is never written behind its end and is full at the end, for a text
\* of any length whose quotes an int counts.
THEOREM QuotesFit == Spec => []QuotedFits
<1>1. SizeInv => QuotedFits
  BY DEF SizeInv
<1> QED
  BY <1>1, SizeInvariance, PTL

(***************************************************************************)
(* Progress.                                                               *)
(***************************************************************************)

\* The turns that are left are a number that every turn lowers, for a text of any
\* length: no turn of a loop finds the quote of the turn before.
THEOREM QuoterAdvances == Spec => QuoterProgress
<1>1. ASSUME SizeInv, SizeInv', [Next]_vars, Quoter
      PROVE  ToGo' \in Nat /\ ToGo' < ToGo
  <2>1. /\ Len(unquoted) \in Nat /\ cu \in Nat \ {0} /\ l \in Nat \ {0}
        /\ cu' \in Nat \ {0} /\ l' \in Nat \ {0}
    BY <1>1 DEF SizeInv, TypeOK
  <2>2. CASE CountQuote
    <3>1. /\ unquoted' = unquoted /\ pc = "count" /\ pc' = "count"
          /\ \E r \in QuotesFrom(cu) : cu' = r + 1
      BY <2>2 DEF CountQuote
    <3>2. cu' > cu
      BY <2>1, <3>1 DEF QuotesFrom
    <3>3. cu' - 1 <= Len(unquoted)
      BY <1>1, <3>1 DEF SizeInv, LoopInv
    <3> QED
      BY <2>1, <3>1, <3>2, <3>3 DEF ToGo
  <2>3. CASE Allocate
    <3>1. /\ unquoted' = unquoted /\ pc = "count" /\ pc' = "copy" /\ l' = 1
          /\ cu - 1 <= Len(unquoted)
      BY <1>1, <2>3 DEF Allocate, SizeInv, LoopInv
    <3> QED
      BY <2>1, <3>1 DEF ToGo
  <2>4. CASE CopyChunk
    <3>1. /\ unquoted' = unquoted /\ pc = "copy" /\ pc' = "copy"
          /\ \E r \in QuotesFrom(l) : l' = r + 1
      BY <2>4 DEF CopyChunk
    <3>2. l' > l
      BY <2>1, <3>1 DEF QuotesFrom
    <3>3. l' - 1 <= Len(unquoted)
      BY <1>1, <3>1 DEF SizeInv, LoopInv
    <3> QED
      BY <2>1, <3>1, <3>2, <3>3 DEF ToGo
  <2>5. CASE CopyRemainder
    <3>1. pc = "copy" /\ pc' \in {"done", "crash"} /\ l - 1 <= Len(unquoted)
      BY <1>1, <2>5 DEF CopyRemainder, SizeInv, LoopInv
    <3> QED
      BY <2>1, <3>1 DEF ToGo
  <2> QED
    BY <1>1, <2>2, <2>3, <2>4, <2>5 DEF Quoter
<1>2. SizeInv /\ SizeInv' /\ [Next]_vars => [Quoter => ToGo' \in Nat /\ ToGo' < ToGo]_vars
  BY <1>1
<1> QED
  BY <1>2, SizeInvariance, PTL DEF QuoterProgress, Spec

=============================================================================
