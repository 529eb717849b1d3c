------------------------- MODULE TaosQuotingProofs --------------------------
(***************************************************************************)
(* The answer of the quoter is the right one, for texts of any length: it  *)
(* is built chunk by chunk, and doubling a text goes from left to right.   *)
(***************************************************************************)
EXTENDS TaosQuoterProofs, SequenceTheorems, WellFoundedInduction

(***************************************************************************)
(* Induction over the naturals, from the library's well-foundedness of <.  *)
(***************************************************************************)

\* A non-empty set of naturals has a least element.
LEMMA Least ==
  ASSUME NEW S \in SUBSET Nat, S # {}
  PROVE  \E n \in S : \A m \in S : n <= m
<1> DEFINE R == {p \in Nat \X Nat : p[1] < p[2]}
<1>1. IsWellFoundedOn(R, Nat)
  BY NatLessThanWellFounded DEF OpToRel
<1>2. PICK x \in S : \A y \in S : ~ (<<y, x>> \in R)
  BY <1>1, WFMin
<1>3. \A y \in S : ~ (y < x)
  BY <1>2
<1> QED
  BY <1>2, <1>3

\* What holds at the start of an interval and at every next number holds in all
\* of it.
LEMMA Rising ==
  ASSUME NEW a \in Int, NEW b \in Int, NEW S, a \in S,
         \A k \in a + 1 .. b : k - 1 \in S => k \in S
  PROVE  a .. b \subseteq S
<1> DEFINE T == {m \in Nat : a + m <= b /\ a + m \notin S}
<1> SUFFICES ASSUME NEW x \in a .. b, x \notin S
             PROVE  FALSE
  OBVIOUS
<1>1. x - a \in Nat /\ a + (x - a) = x
  OBVIOUS
<1>2. T \in SUBSET Nat /\ x - a \in T
  BY <1>1
<1>3. PICK n \in T : \A m \in T : n <= m
  BY <1>2, Least
<1>4. n \in Nat /\ n # 0 /\ a + n <= b /\ a + n \notin S
  BY <1>3
<1>5. n - 1 \in Nat /\ a + (n - 1) = (a + n) - 1 /\ a + (n - 1) <= b /\ a + n \in a + 1 .. b
  BY <1>4
<1>6. n - 1 \notin T
  BY <1>3, <1>4
<1> QED
  BY <1>4, <1>5, <1>6

(***************************************************************************)
(* FlattenSeq, from left to right.                                         *)
(***************************************************************************)

\* The first m elements of ss, each appended to the ones before.
Flattens(f, ss, m) == f = [i \in 1 .. m |-> IF i = 1 THEN ss[i] ELSE f[i - 1] \o ss[i]]

\* There is such a function,
LEMMA FlattensExists ==
  ASSUME NEW ss, NEW n \in Nat
  PROVE  \E f : Flattens(f, ss, n)
<1> DEFINE S == {m \in 0 .. n : \E f : Flattens(f, ss, m)}
<1>1. 0 \in S
  <2>1. Flattens([i \in 1 .. 0 |-> 0], ss, 0)
    BY DEF Flattens
  <2> QED
    BY <2>1
<1>2. ASSUME NEW j \in 0 + 1 .. n, j - 1 \in S
      PROVE  j \in S
  <2>0. PICK m \in 0 .. n : j = m + 1 /\ m \in S
    BY <1>2
  <2>1. PICK f : Flattens(f, ss, m)
    BY <2>0
  <2> DEFINE g == [i \in 1 .. m + 1 |->
                     IF i = 1 THEN ss[i]
                     ELSE IF i = m + 1 THEN f[m] \o ss[i] ELSE f[i]]
  <2>2. m \in Nat
    BY <2>0
  <2>3. \A i \in 1 .. m : g[i] = f[i]
    BY <2>1, <2>2 DEF Flattens
  <2>4. ASSUME NEW i \in 1 .. m + 1
        PROVE  g[i] = IF i = 1 THEN ss[i] ELSE g[i - 1] \o ss[i]
    <3>1. CASE i = 1
      BY <3>1
    <3>2. CASE i # 1 /\ i = m + 1
      <4>1. i - 1 \in 1 .. m /\ i - 1 = m
        BY <2>2, <3>2
      <4>2. g[i - 1] = f[m]
        BY <2>3, <4>1
      <4>3. g[i] = f[m] \o ss[i]
        BY <2>2, <3>2
      <4> QED
        BY <3>2, <4>2, <4>3
    <3>3. CASE i # 1 /\ i # m + 1
      <4>1. i \in 1 .. m /\ i - 1 \in 1 .. m
        BY <2>2, <3>3
      <4>2. f[i] = f[i - 1] \o ss[i]
        BY <2>1, <3>3, <4>1 DEF Flattens
      <4> QED
        BY <2>3, <3>3, <4>1, <4>2
    <3> QED
      BY <3>1, <3>2, <3>3
  <2>5. g = [i \in 1 .. m + 1 |-> IF i = 1 THEN ss[i] ELSE g[i - 1] \o ss[i]]
    <3> DEFINE h == [i \in 1 .. m + 1 |-> IF i = 1 THEN ss[i] ELSE g[i - 1] \o ss[i]]
    <3>1. \A i \in 1 .. m + 1 : g[i] = h[i]
      BY <2>4
    <3>2. DOMAIN g = 1 .. m + 1 /\ DOMAIN h = 1 .. m + 1
      OBVIOUS
    <3>3. g = [i \in DOMAIN g |-> g[i]] /\ h = [i \in DOMAIN h |-> h[i]]
      OBVIOUS
    <3> HIDE DEF g, h
    <3>4. g = h
      BY <3>1, <3>2, <3>3
    <3> QED
      BY <3>4 DEF h
  <2>6. Flattens(g, ss, m + 1)
    BY <2>5 DEF Flattens
  <2> QED
    BY <2>0, <2>6
<1> HIDE DEF S
<1>3. 0 .. n \subseteq S
  BY <1>1, <1>2, Rising
<1> QED
  BY <1>3 DEF S

\* and only one.
LEMMA FlattensUnique ==
  ASSUME NEW ss, NEW n \in Nat, NEW f, NEW g, Flattens(f, ss, n), Flattens(g, ss, n)
  PROVE  f = g
<1> DEFINE S == {i \in 1 .. n : f[i] = g[i]}
<1>1. ASSUME 1 <= n
      PROVE  1 \in S
  BY <1>1 DEF Flattens
<1>2. ASSUME NEW i \in 1 + 1 .. n, i - 1 \in S
      PROVE  i \in S
  <2>1. i \in 1 .. n /\ i # 1
    OBVIOUS
  <2>2. f[i] = f[i - 1] \o ss[i] /\ g[i] = g[i - 1] \o ss[i]
    BY <2>1 DEF Flattens
  <2> QED
    BY <1>2, <2>1, <2>2
<1> HIDE DEF S
<1>3. 1 <= n => 1 .. n \subseteq S
  BY <1>1, <1>2, Rising
<1>4. \A i \in 1 .. n : f[i] = g[i]
  BY <1>3 DEF S
<1>5. /\ DOMAIN f = 1 .. n /\ DOMAIN g = 1 .. n
      /\ f = [i \in DOMAIN f |-> f[i]] /\ g = [i \in DOMAIN g |-> g[i]]
  BY DEF Flattens
<1> QED
  BY <1>4, <1>5

\* FlattenSeq is the last value of it.
LEMMA FlattenIs ==
  ASSUME NEW S, NEW ss \in Seq(S), Len(ss) > 0, NEW f, Flattens(f, ss, Len(ss))
  PROVE  FlattenSeq(ss) = f[Len(ss)]
<1> DEFINE g == CHOOSE h : Flattens(h, ss, Len(ss))
<1>1. FlattenSeq(ss) = g[Len(ss)]
  BY DEF FlattenSeq, Flattens
<1>2. Flattens(g, ss, Len(ss))
  OBVIOUS
<1> HIDE DEF g
<1>3. f = g
  BY <1>2, FlattensUnique
<1> QED
  BY <1>1, <1>3

(***************************************************************************)
(* Doubled, from left to right.                                            *)
(***************************************************************************)

\* What a character becomes.
Piece(c) == IF c = Quote THEN <<Quote, Quote>> ELSE <<c>>
Pieces(t) == [i \in 1 .. Len(t) |-> Piece(t[i])]

LEMMA PieceType ==
  ASSUME NEW c \in Chars
  PROVE  Piece(c) \in Seq(Chars)
<1>1. <<Quote, Quote>> \in Seq(Chars)
  BY DEF Chars
<1>2. <<c>> \in Seq(Chars)
  OBVIOUS
<1> QED
  BY <1>1, <1>2 DEF Piece

LEMMA PiecesType ==
  ASSUME NEW t \in Seq(Chars)
  PROVE  /\ Pieces(t) \in Seq(Seq(Chars)) /\ Len(Pieces(t)) = Len(t)
         /\ Doubled(t) = FlattenSeq(Pieces(t))
<1>2. \A i \in 1 .. Len(t) : Piece(t[i]) \in Seq(Chars)
  BY PieceType
<1>3. Doubled(t) = FlattenSeq(Pieces(t))
  BY DEF Doubled, Pieces, Piece
<1> HIDE DEF Piece
<1> QED
  BY <1>2, <1>3 DEF Pieces

LEMMA DoubledEmpty == Doubled(<<>>) = <<>>
<1>1. <<>> \in Seq(Chars) /\ Len(Pieces(<<>>)) = 0 /\ Pieces(<<>>) \in Seq(Seq(Chars))
  <2>1. <<>> \in Seq(Chars) /\ Len(<<>>) = 0
    OBVIOUS
  <2> QED
    BY <2>1, PiecesType
<1>2. Pieces(<<>>) = <<>>
  BY <1>1
<1>3. FlattenSeq(<<>>) = <<>>
  BY DEF FlattenSeq
<1> QED
  BY <1>1, <1>2, <1>3, PiecesType

\* Every prefix of a text is flattened by the same function.
LEMMA DoubledIs ==
  ASSUME NEW t \in Seq(Chars), NEW f, Flattens(f, Pieces(t), Len(t)), NEW k \in 1 .. Len(t)
  PROVE  Doubled(SubSeq(t, 1, k)) = f[k]
<1> DEFINE u == SubSeq(t, 1, k)
           h == [i \in 1 .. k |-> f[i]]
<1>1. u \in Seq(Chars) /\ Len(u) = k /\ \A i \in 1 .. k : u[i] = t[i]
  OBVIOUS
<1>2. \A i \in 1 .. k : f[i] = IF i = 1 THEN Pieces(t)[i] ELSE f[i - 1] \o Pieces(t)[i]
  <2>1. \A i \in 1 .. k : i \in 1 .. Len(t)
    OBVIOUS
  <2> HIDE DEF u, h
  <2> QED
    BY <2>1 DEF Flattens
<1>3. \A i \in 1 .. k : Pieces(u)[i] = Pieces(t)[i]
  BY <1>1 DEF Pieces
<1>4. \A i \in 1 .. k : h[i] = IF i = 1 THEN Pieces(u)[i] ELSE h[i - 1] \o Pieces(u)[i]
  <2> TAKE i \in 1 .. k
  <2>1. i = 1 \/ i - 1 \in 1 .. k
    OBVIOUS
  <2> HIDE DEF u
  <2> QED
    BY <1>2, <1>3, <2>1
<1>5. Flattens(h, Pieces(u), k)
  <2> DEFINE e == [i \in 1 .. k |-> IF i = 1 THEN Pieces(u)[i] ELSE h[i - 1] \o Pieces(u)[i]]
  <2>1. DOMAIN e = 1 .. k /\ \A i \in 1 .. k : h[i] = e[i]
    BY <1>4
  <2>2. e = [i \in 1 .. k |-> e[i]] /\ h = [i \in 1 .. k |-> h[i]]
    OBVIOUS
  <2> HIDE DEF e, h, u
  <2>3. h = e
    BY <2>1, <2>2
  <2> QED
    BY <2>3 DEF e, Flattens
<1> HIDE DEF u
<1>6. /\ Pieces(u) \in Seq(Seq(Chars)) /\ Len(Pieces(u)) = k
      /\ Doubled(u) = FlattenSeq(Pieces(u))
  BY <1>1, PiecesType
<1>7. FlattenSeq(Pieces(u)) = h[k]
  <2> HIDE DEF h
  <2> QED
    BY <1>5, <1>6, FlattenIs
<1> QED
  BY <1>6, <1>7 DEF u

\* One character more.
LEMMA DoubledStep ==
  ASSUME NEW t \in Seq(Chars), NEW k \in 1 .. Len(t)
  PROVE  Doubled(SubSeq(t, 1, k)) = Doubled(SubSeq(t, 1, k - 1)) \o Piece(t[k])
<1>1. PICK f : Flattens(f, Pieces(t), Len(t))
  <2>1. Len(t) \in Nat
    OBVIOUS
  <2> QED
    BY <2>1, FlattensExists
<1>2. Doubled(SubSeq(t, 1, k)) = f[k]
  BY <1>1, DoubledIs
<1>3. Pieces(t)[k] = Piece(t[k])
  BY DEF Pieces
<1>4. CASE k = 1
  <2>1. f[k] = Piece(t[k])
    BY <1>1, <1>3, <1>4 DEF Flattens
  <2>2. SubSeq(t, 1, k - 1) = <<>>
    BY <1>4, SubSeqEmpty
  <2>3. Piece(t[k]) \in Seq(Chars)
    BY PieceType
  <2>4. <<>> \o Piece(t[k]) = Piece(t[k])
    BY <2>3, ConcatEmptySeq
  <2> QED
    BY <1>2, <2>1, <2>2, <2>4, DoubledEmpty
<1>5. CASE k # 1
  <2>1. f[k] = f[k - 1] \o Piece(t[k])
    BY <1>1, <1>3, <1>5 DEF Flattens
  <2>2. Doubled(SubSeq(t, 1, k - 1)) = f[k - 1]
    <3>1. k - 1 \in 1 .. Len(t)
      BY <1>5
    <3> QED
      BY <1>1, <3>1, DoubledIs
  <2> QED
    BY <1>2, <2>1, <2>2
<1> QED
  BY <1>4, <1>5

LEMMA DoubledType ==
  ASSUME NEW t \in Seq(Chars), NEW k \in 0 .. Len(t)
  PROVE  Doubled(SubSeq(t, 1, k)) \in Seq(Chars)
<1> DEFINE S == {m \in 0 .. Len(t) : Doubled(SubSeq(t, 1, m)) \in Seq(Chars)}
<1>0. Len(t) \in Nat
  OBVIOUS
<1>1. 0 \in S
  <2>1. SubSeq(t, 1, 0) = <<>>
    BY SubSeqEmpty
  <2>2. <<>> \in Seq(Chars)
    OBVIOUS
  <2>3. Doubled(SubSeq(t, 1, 0)) \in Seq(Chars)
    BY <2>1, <2>2, DoubledEmpty, Zenon
  <2>4. 0 \in 0 .. Len(t)
    BY <1>0
  <2> QED
    BY <2>3, <2>4, Zenon
<1>2. ASSUME NEW m \in 0 + 1 .. Len(t), m - 1 \in S
      PROVE  m \in S
  <2>1. m \in 1 .. Len(t) /\ m \in 0 .. Len(t)
    OBVIOUS
  <2>2. Doubled(SubSeq(t, 1, m)) = Doubled(SubSeq(t, 1, m - 1)) \o Piece(t[m])
    BY <2>1, DoubledStep
  <2>3. Doubled(SubSeq(t, 1, m - 1)) \in Seq(Chars) /\ Piece(t[m]) \in Seq(Chars)
    BY <1>2, <2>1, PieceType
  <2>4. Doubled(SubSeq(t, 1, m)) \in Seq(Chars)
    BY <2>2, <2>3, ConcatProperties
  <2> QED
    BY <2>1, <2>4
<1> HIDE DEF S
<1>3. 0 .. Len(t) \subseteq S
  <2>1. 0 \in Int /\ Len(t) \in Int
    BY <1>0
  <2> QED
    BY <2>1, <1>1, <1>2, Rising, Zenon
<1> QED
  BY <1>3 DEF S

\* A stretch without quotes is appended as it is.
LEMMA DoubledPlain ==
  ASSUME NEW t \in Seq(Chars), NEW i \in 1 .. Len(t) + 1, NEW k \in i - 1 .. Len(t),
         \A j \in i .. k : t[j] # Quote
  PROVE  Doubled(SubSeq(t, 1, k)) = Doubled(SubSeq(t, 1, i - 1)) \o SubSeq(t, i, k)
<1> DEFINE S == {m \in i - 1 .. k :
                   Doubled(SubSeq(t, 1, m)) = Doubled(SubSeq(t, 1, i - 1)) \o SubSeq(t, i, m)}
<1>0. /\ Len(t) \in Nat /\ i - 1 \in 0 .. Len(t) /\ k \in i - 1 .. k /\ i - 1 \in i - 1 .. k
      /\ i - 1 \in Int /\ k \in Int
      /\ Doubled(SubSeq(t, 1, i - 1)) \in Seq(Chars)
  BY DoubledType
<1>1. i - 1 \in S
  <2>1. SubSeq(t, i, i - 1) = <<>>
    BY SubSeqEmpty
  <2> QED
    BY <1>0, <2>1, ConcatEmptySeq
<1>2. ASSUME NEW m \in (i - 1) + 1 .. k, m - 1 \in S
      PROVE  m \in S
  <2>1. /\ m \in 1 .. Len(t) /\ m \in i .. k /\ m \in i - 1 .. k
        /\ i \in 1 .. Len(t) /\ m \in i .. Len(t)
    BY <1>0
  <2>2. Doubled(SubSeq(t, 1, m)) = Doubled(SubSeq(t, 1, m - 1)) \o Piece(t[m])
    BY <2>1, DoubledStep
  <2>3. Piece(t[m]) = <<t[m]>>
    BY <2>1 DEF Piece
  <2>4. SubSeq(t, i, m) = SubSeq(t, i, m - 1) \o <<t[m]>>
    BY <2>1, SubSeqRecursiveSecond
  <2>5. Doubled(SubSeq(t, 1, m - 1)) = Doubled(SubSeq(t, 1, i - 1)) \o SubSeq(t, i, m - 1)
    BY <1>2
  <2>6. SubSeq(t, i, m - 1) \in Seq(Chars) /\ <<t[m]>> \in Seq(Chars)
    BY <2>1
  <2>7. Doubled(SubSeq(t, 1, m)) = Doubled(SubSeq(t, 1, i - 1)) \o SubSeq(t, i, m)
    <3>1. (Doubled(SubSeq(t, 1, i - 1)) \o SubSeq(t, i, m - 1)) \o <<t[m]>>
            = Doubled(SubSeq(t, 1, i - 1)) \o (SubSeq(t, i, m - 1) \o <<t[m]>>)
      <4> HIDE DEF S
      <4>1. \A a, b, c \in Seq(Chars) : (a \o b) \o c = a \o (b \o c)
        BY ConcatAssociative
      <4> QED
        BY <1>0, <2>6, <4>1, Zenon
    <3> QED
      BY <2>2, <2>3, <2>4, <2>5, <3>1
  <2> QED
    BY <2>1, <2>7
<1> HIDE DEF S
<1>3. i - 1 .. k \subseteq S
  BY <1>0, <1>1, <1>2, Rising
<1>4. k \in S
  BY <1>0, <1>3
<1> QED
  BY <1>4 DEF S

(***************************************************************************)
(* The C string and what is behind it.                                     *)
(***************************************************************************)

\* The C string of a text is what comes before its first NUL.
LEMMA CStringIs ==
  ASSUME NEW t \in Seq(Chars)
  PROVE  \E k \in 0 .. Len(t) :
           /\ CString(t) = SubSeq(t, 1, k) /\ Len(CString(t)) = k
           /\ \A j \in 1 .. k : t[j] # Nul
           /\ k < Len(t) => t[k + 1] = Nul
<1> DEFINE ends == {i \in 1 .. Len(t) : t[i] = Nul}
           Ends(k) == /\ CString(t) = SubSeq(t, 1, k) /\ Len(CString(t)) = k
                      /\ \A j \in 1 .. k : t[j] # Nul
                      /\ k < Len(t) => t[k + 1] = Nul
<1> SUFFICES \E k \in 0 .. Len(t) : Ends(k)
  OBVIOUS
<1>0. Len(t) \in Nat
  OBVIOUS
<1>1. CASE ends = {}
  <2>1. CString(t) = t /\ SubSeq(t, 1, Len(t)) = t
    BY <1>1, SubSeqFull DEF CString
  <2>2. \A j \in 1 .. Len(t) : t[j] # Nul
    BY <1>1
  <2>3. Len(t) \in 0 .. Len(t)
    BY <1>0
  <2>4. Ends(Len(t))
    BY <1>0, <2>1, <2>2
  <2> HIDE DEF Ends
  <2> QED
    BY <2>3, <2>4
<1>2. CASE ends # {}
  <2> DEFINE i == CHOOSE x \in ends : \A j \in ends : x <= j
  <2>1. \E x \in ends : \A j \in ends : x <= j
    <3>1. ends \in SUBSET Nat
      BY <1>0
    <3> HIDE DEF ends
    <3> QED
      BY <1>2, <3>1, Least
  <2>2. i \in ends /\ \A j \in ends : i <= j
    BY <2>1
  <2>3. CString(t) = SubSeq(t, 1, i - 1)
    BY <1>2 DEF CString
  <2> HIDE DEF i
  <2>4. i \in 1 .. Len(t) /\ t[i] = Nul
    BY <2>2
  <2>5. \A j \in 1 .. i - 1 : t[j] # Nul
    BY <1>0, <2>2, <2>4
  <2>6. i - 1 \in 0 .. Len(t) /\ (i - 1) + 1 = i /\ Len(SubSeq(t, 1, i - 1)) = i - 1
    BY <1>0, <2>4
  <2>7. Ends(i - 1)
    BY <2>3, <2>4, <2>5, <2>6
  <2> HIDE DEF Ends
  <2> QED
    BY <2>6, <2>7
<1> QED
  BY <1>1, <1>2

\* strncpy copies the rest of the C string and fills up with NULs.
LEMMA RemainderIs ==
  ASSUME unquoted \in Seq(Chars), NEW k \in 0 .. Len(unquoted), l \in 1 .. k + 1,
         \A j \in 1 .. k : unquoted[j] # Nul,
         k < Len(unquoted) => unquoted[k + 1] = Nul
  PROVE  Remainder(Len(unquoted) - l + 1)
           = SubSeq(unquoted, l, k) \o Nuls(Len(unquoted) - k)
<1> DEFINE n == Len(unquoted) - l + 1
           a == SubSeq(unquoted, l, k)
           z == Nuls(Len(unquoted) - k)
<1>1. Len(unquoted) \in Nat /\ n \in Nat /\ l \in Nat \ {0} /\ k \in Nat
  OBVIOUS
<1>2. a \in Seq(Chars) /\ Len(a) = k - l + 1 /\ \A x \in 1 .. k - l + 1 : a[x] = unquoted[l + x - 1]
  OBVIOUS
<1>3. z \in Seq(Chars) /\ Len(z) = Len(unquoted) - k /\ \A x \in 1 .. Len(z) : z[x] = Nul
  BY <1>1 DEF Nuls, Chars
<1>4. Remainder(n) \in Seq(Chars) /\ Len(Remainder(n)) = n
  <2> HIDE DEF n
  <2> QED
    BY <1>1, RemainderType
<1>5. /\ a \o z \in Seq(Chars) /\ Len(a \o z) = n
      /\ \A x \in 1 .. n : (a \o z)[x] = IF x <= k - l + 1 THEN a[x] ELSE z[x - (k - l + 1)]
  <2>1. Len(a) + Len(z) = n
    BY <1>1, <1>2, <1>3
  <2> HIDE DEF a, z, n
  <2> QED
    <3>1. /\ a \o z \in Seq(Chars) /\ Len(a \o z) = Len(a) + Len(z)
          /\ \A x \in 1 .. Len(a) + Len(z) :
               (a \o z)[x] = IF x <= Len(a) THEN a[x] ELSE z[x - Len(a)]
      BY <1>2, <1>3, ConcatProperties, Zenon
    <3>2. Len(a) = k - l + 1
      BY <1>2
    <3> QED
      BY <2>1, <3>1, <3>2
<1>6. ASSUME NEW x \in 1 .. n
      PROVE  Remainder(n)[x] = (a \o z)[x]
  <2>1. Remainder(n)[x] = IF l + x - 1 <= Len(unquoted) /\ \A j \in l .. l + x - 1 : unquoted[j] # Nul
                          THEN unquoted[l + x - 1] ELSE Nul
    BY DEF Remainder
  <2>2. x \in Nat \ {0} /\ l + x - 1 <= Len(unquoted)
    BY <1>1
  <2>3. CASE x <= k - l + 1
    <3>1. \A j \in l .. l + x - 1 : j \in 1 .. k
      BY <1>1, <2>2, <2>3
    <3>2. Remainder(n)[x] = unquoted[l + x - 1]
      BY <2>1, <2>2, <3>1
    <3>3. (a \o z)[x] = a[x] /\ x \in 1 .. k - l + 1
      BY <1>1, <1>5, <2>2, <2>3
    <3> HIDE DEF a
    <3> QED
      BY <1>2, <3>2, <3>3
  <2>4. CASE ~ (x <= k - l + 1)
    <3>1. k + 1 \in l .. l + x - 1 /\ k < Len(unquoted)
      BY <1>1, <2>2, <2>4
    <3>2. Remainder(n)[x] = Nul
      BY <2>1, <3>1
    <3>3. (a \o z)[x] = z[x - (k - l + 1)] /\ x - (k - l + 1) \in 1 .. Len(unquoted) - k
      BY <1>1, <1>5, <2>2, <2>4
    <3> HIDE DEF z
    <3> QED
      BY <1>3, <3>2, <3>3
  <2> QED
    BY <2>3, <2>4
<1> HIDE DEF a, z, n
<1>7. Remainder(n) = a \o z
  BY <1>1, <1>4, <1>5, <1>6, SeqEqual
<1> QED
  BY <1>7 DEF a, z, n

(***************************************************************************)
(* The invariant.                                                          *)
(***************************************************************************)

\* A build passes the text in the form that its copy expects.
LEMMA RightForm ==
  ASSUME NEW b \in Builds
  PROVE  ZvalInterface(b) = (DriverCopy(b) = "80100")
BY BuildsAssumption DEF ZvalInterface, DriverCopy

LEMMA InitCopied == Init => CopiedInv /\ QuotedRight
BY DEF Init, CopiedInv, QuotedRight

\* What is written goes together in any order.
LEMMA Associative == \A a, b, c \in Seq(Chars) : (a \o b) \o c = a \o (b \o c)
BY ConcatAssociative

LEMMA TwoQuotes ==
  /\ <<Quote>> \o <<Quote>> = <<Quote, Quote>>
  /\ <<Quote>> \in Seq(Chars) /\ Quote \in Chars
<1>1. <<Quote, Quote>> = <<Quote>> \o <<Quote>>
  OBVIOUS
<1>2. <<Quote>> \in Seq(Chars) /\ Quote \in Chars
  BY DEF Chars
<1> QED
  BY <1>1, <1>2, Zenon

\* The answer for an empty text.
LEMMA EmptyRight ==
  ASSUME NEW t, t = <<>>
  PROVE  <<Quote, Quote>>
           = <<Quote>> \o Doubled(CString(t)) \o Nuls(Len(t) - Len(CString(t))) \o <<Quote>>
<1>1. CString(t) = <<>>
  BY DEF CString
<1>2. Doubled(CString(t)) = <<>>
  BY <1>1, DoubledEmpty
<1>3. Nuls(Len(t) - Len(CString(t))) = <<>>
  BY <1>1 DEF Nuls
<1>4. <<Quote>> \o <<>> = <<Quote>>
  BY TwoQuotes, ConcatEmptySeq
<1> QED
  BY <1>2, <1>3, <1>4, TwoQuotes

\* A chunk is doubled up to the quote it ends in.
LEMMA ChunkDoubled ==
  ASSUME unquoted \in Seq(Chars), l \in Nat \ {0}, NEW r, strchr(l, r)
  PROVE  Append(Doubled(SubSeq(unquoted, 1, l - 1)) \o SubSeq(unquoted, l, r), Quote)
           = Doubled(SubSeq(unquoted, 1, r))
<1> DEFINE d == Doubled(SubSeq(unquoted, 1, l - 1))
           a == SubSeq(unquoted, l, r - 1)
<1>1. /\ Len(unquoted) \in Nat /\ r \in l .. Len(unquoted) /\ unquoted[r] = Quote
      /\ \A j \in l .. r : unquoted[j] # Nul
      /\ \A s \in QuotesFrom(l) : r <= s
  BY DEF strchr, QuotesFrom
<1>2. \A j \in l .. r - 1 : unquoted[j] # Quote
  <2> SUFFICES ASSUME NEW j \in l .. r - 1, unquoted[j] = Quote
               PROVE  FALSE
    OBVIOUS
  <2>1. j \in QuotesFrom(l)
    BY <1>1 DEF QuotesFrom
  <2> QED
    BY <1>1, <2>1
<1>3. Doubled(SubSeq(unquoted, 1, r - 1)) = d \o a
  <2>1. l \in 1 .. Len(unquoted) + 1 /\ r - 1 \in l - 1 .. Len(unquoted)
    BY <1>1
  <2> QED
    BY <1>2, <2>1, DoubledPlain
<1>4. Doubled(SubSeq(unquoted, 1, r)) = (d \o a) \o <<Quote, Quote>>
  <2>1. r \in 1 .. Len(unquoted)
    BY <1>1
  <2>2. Doubled(SubSeq(unquoted, 1, r)) = Doubled(SubSeq(unquoted, 1, r - 1)) \o Piece(unquoted[r])
    BY <2>1, DoubledStep
  <2> QED
    BY <1>1, <1>3, <2>2 DEF Piece
<1>5. SubSeq(unquoted, l, r) = a \o <<Quote>>
  <2>1. l \in 1 .. Len(unquoted) /\ r \in l .. Len(unquoted)
    BY <1>1
  <2> QED
    BY <1>1, <2>1, SubSeqRecursiveSecond
<1>6. d \in Seq(Chars) /\ a \in Seq(Chars)
  <2>1. l - 1 \in 0 .. Len(unquoted)
    BY <1>1
  <2> QED
    BY <1>1, <2>1, DoubledType
<1> HIDE DEF d, a
<1>7. Append(d \o (a \o <<Quote>>), Quote) = (d \o a) \o <<Quote, Quote>>
  <2>3. d \o a \in Seq(Chars)
    BY <1>6, ConcatProperties
  <2>4. d \o (a \o <<Quote>>) = (d \o a) \o <<Quote>>
    BY <1>6, Associative, TwoQuotes, Zenon
  <2>5. (d \o a) \o <<Quote>> \in Seq(Chars)
    BY <2>3, TwoQuotes, ConcatProperties
  <2>6. Append((d \o a) \o <<Quote>>, Quote) = ((d \o a) \o <<Quote>>) \o <<Quote>>
    BY <2>5, TwoQuotes, AppendIsConcat
  <2>7. ((d \o a) \o <<Quote>>) \o <<Quote>> = (d \o a) \o (<<Quote>> \o <<Quote>>)
    BY <2>3, Associative, TwoQuotes, Zenon
  <2> QED
    BY <2>4, <2>6, <2>7, TwoQuotes
<1> QED
  BY <1>4, <1>5, <1>7 DEF d

\* The rest of the text has no quote to double.
LEMMA RestDoubled ==
  ASSUME unquoted \in Seq(Chars), l \in Nat \ {0}, l - 1 <= Len(unquoted),
         QuotesFrom(l) = {}, \A j \in 1 .. l - 1 : unquoted[j] # Nul
  PROVE  /\ Doubled(CString(unquoted)) \in Seq(Chars)
         /\ Nuls(Len(unquoted) - Len(CString(unquoted))) \in Seq(Chars)
         /\ Doubled(SubSeq(unquoted, 1, l - 1)) \o Remainder(Len(unquoted) - l + 1)
              = Doubled(CString(unquoted)) \o Nuls(Len(unquoted) - Len(CString(unquoted)))
<1>1. PICK k \in 0 .. Len(unquoted) :
        /\ CString(unquoted) = SubSeq(unquoted, 1, k) /\ Len(CString(unquoted)) = k
        /\ \A j \in 1 .. k : unquoted[j] # Nul
        /\ k < Len(unquoted) => unquoted[k + 1] = Nul
  BY CStringIs
<1>2. Len(unquoted) \in Nat /\ k \in Nat /\ l \in 1 .. k + 1 /\ l \in 1 .. Len(unquoted) + 1
      /\ k \in l - 1 .. Len(unquoted)
  <2>1. Len(unquoted) \in Nat /\ k \in Nat
    OBVIOUS
  <2>2. ~ (k + 1 < l)
    BY <1>1, <2>1
  <2> QED
    BY <2>1, <2>2
<1>3. \A j \in l .. k : unquoted[j] # Quote
  <2> SUFFICES ASSUME NEW j \in l .. k, unquoted[j] = Quote
               PROVE  FALSE
    OBVIOUS
  <2>1. j \in l .. Len(unquoted) /\ \A i \in l .. j : unquoted[i] # Nul
    BY <1>1, <1>2
  <2>2. j \in QuotesFrom(l)
    BY <2>1 DEF QuotesFrom
  <2> QED
    BY <2>2
<1> DEFINE d == Doubled(SubSeq(unquoted, 1, l - 1))
           a == SubSeq(unquoted, l, k)
           z == Nuls(Len(unquoted) - k)
<1>4. Doubled(CString(unquoted)) = d \o a
  BY <1>1, <1>2, <1>3, DoubledPlain
<1>5. Remainder(Len(unquoted) - l + 1) = a \o z
  BY <1>1, <1>2, RemainderIs
<1>6. d \in Seq(Chars) /\ a \in Seq(Chars) /\ z \in Seq(Chars)
  <2>1. l - 1 \in 0 .. Len(unquoted)
    BY <1>2
  <2>2. d \in Seq(Chars)
    BY <2>1, DoubledType
  <2>3. a \in Seq(Chars)
    BY <1>2
  <2>4. z \in Seq(Chars)
    BY <1>2 DEF Nuls, Chars
  <2> QED
    BY <2>2, <2>3, <2>4
<1> HIDE DEF d, a, z
<1>7. d \o (a \o z) = (d \o a) \o z
  BY <1>6, Associative, Zenon
<1>8. d \o a \in Seq(Chars)
  BY <1>6, ConcatProperties, Zenon
<1> QED
  BY <1>1, <1>4, <1>5, <1>6, <1>7, <1>8 DEF d, z

\* A chunk, and the closing quote, go behind the opening one.
LEMMA BehindQuote ==
  ASSUME NEW d \in Seq(Chars), NEW a \in Seq(Chars)
  PROVE  Append((<<Quote>> \o d) \o a, Quote) = <<Quote>> \o Append(d \o a, Quote)
<1>1. d \o a \in Seq(Chars) /\ <<Quote>> \o (d \o a) \in Seq(Chars)
  BY TwoQuotes, ConcatProperties
<1>2. (<<Quote>> \o d) \o a = <<Quote>> \o (d \o a)
  BY Associative, TwoQuotes, Zenon
<1>3. (<<Quote>> \o (d \o a)) \o <<Quote>> = <<Quote>> \o ((d \o a) \o <<Quote>>)
  BY <1>1, Associative, TwoQuotes, Zenon
<1>4. /\ Append(<<Quote>> \o (d \o a), Quote) = (<<Quote>> \o (d \o a)) \o <<Quote>>
      /\ Append(d \o a, Quote) = (d \o a) \o <<Quote>>
  BY <1>1, TwoQuotes, AppendIsConcat
<1> QED
  BY <1>2, <1>3, <1>4

LEMMA NextCopied ==
  SizeInv /\ CopiedInv /\ QuotedRight /\ [Next]_vars => CopiedInv' /\ QuotedRight'
<1> SUFFICES ASSUME SizeInv, CopiedInv, QuotedRight, [Next]_vars
             PROVE  CopiedInv' /\ QuotedRight'
  OBVIOUS
<1>1. /\ build \in Builds /\ unquoted \in Seq(Chars) /\ Len(unquoted) \in Nat
      /\ l \in Nat \ {0} /\ quoted \in Seq(Chars)
  BY DEF SizeInv, TypeOK
<1>2. ASSUME NEW text \in Texts, Call(text)
      PROVE  CopiedInv' /\ QuotedRight'
  <2>1. given' = text /\ unquoted' = text /\ text \in Seq(Chars)
    BY <1>1, <1>2, RightForm, TextsAssumption DEF Call, Received
  <2>2. CASE Len(unquoted') = 0
    <3>1. pc' = "done" /\ quoted' = <<Quote, Quote>>
      BY <1>2, <2>2 DEF Call
    <3>2. given' = <<>>
      BY <2>1, <2>2
    <3>3. QuotedRight'
      BY <3>1, <3>2, EmptyRight DEF QuotedRight
    <3> QED
      BY <2>1, <3>1, <3>3 DEF CopiedInv
  <2>3. CASE Len(unquoted') # 0
    <3>1. pc' = "count"
      BY <1>2, <2>3 DEF Call
    <3> QED
      BY <2>1, <3>1 DEF CopiedInv, QuotedRight
  <2> QED
    BY <2>2, <2>3
<1>3. CASE CountQuote
  BY <1>3 DEF CountQuote, CopiedInv, QuotedRight
<1>4. CASE Allocate
  <2>1. /\ UNCHANGED <<given, unquoted, l>> /\ pc = "count" /\ pc' = "copy"
        /\ l = 1 /\ quoted' = <<Quote>>
    BY <1>4 DEF Allocate, SizeInv, LoopInv
  <2>2. SubSeq(unquoted, 1, l - 1) = <<>>
    BY <2>1, SubSeqEmpty
  <2>3. quoted' = <<Quote>> \o Doubled(SubSeq(unquoted, 1, l - 1))
    <3>1. <<Quote>> \in Seq(Chars)
      BY DEF Chars
    <3>2. <<Quote>> \o <<>> = <<Quote>>
      BY <3>1, ConcatEmptySeq
    <3> QED
      BY <2>1, <2>2, <3>2, DoubledEmpty
  <2>4. \A j \in 1 .. l - 1 : unquoted[j] # Nul
    BY <2>1
  <2>5. unquoted = given
    BY <2>1 DEF CopiedInv
  <2>6. (SubSeq(unquoted, 1, l - 1))' = SubSeq(unquoted, 1, l - 1)
    BY <2>1
  <2>7. (Doubled(SubSeq(unquoted, 1, l - 1)))' = Doubled(SubSeq(unquoted, 1, l - 1))
    BY <2>6 DEF Doubled
  <2> QED
    BY <2>1, <2>3, <2>4, <2>5, <2>7 DEF CopiedInv, QuotedRight
<1>5. CASE CopyChunk
  <2>1. UNCHANGED <<given, unquoted, pc>> /\ pc = "copy"
    BY <1>5 DEF CopyChunk
  <2>2. PICK r \in QuotesFrom(l) :
          /\ strchr(l, r)
          /\ quoted' = Append(quoted \o SubSeq(unquoted, l, r), Quote)
          /\ l' = r + 1
    BY <1>5 DEF CopyChunk
  <2>3. /\ r \in l .. Len(unquoted) /\ l - 1 \in 0 .. Len(unquoted)
        /\ \A j \in l .. r : unquoted[j] # Nul
    BY <1>1, <2>2 DEF QuotesFrom
  <2>4. /\ unquoted = given /\ quoted = <<Quote>> \o Doubled(SubSeq(unquoted, 1, l - 1))
        /\ \A j \in 1 .. l - 1 : unquoted[j] # Nul
    BY <2>1 DEF CopiedInv
  <2>5. SubSeq(unquoted, l, r) \in Seq(Chars) /\ Doubled(SubSeq(unquoted, 1, l - 1)) \in Seq(Chars)
    <3>1. SubSeq(unquoted, l, r) \in Seq(Chars)
      BY <1>1, <2>3
    <3> QED
      BY <1>1, <2>3, <3>1, DoubledType
  <2>6. quoted' = <<Quote>> \o Append(Doubled(SubSeq(unquoted, 1, l - 1))
                                      \o SubSeq(unquoted, l, r), Quote)
    BY <2>2, <2>4, <2>5, BehindQuote
  <2>7. quoted' = <<Quote>> \o Doubled(SubSeq(unquoted, 1, r))
    BY <1>1, <2>2, <2>6, ChunkDoubled
  <2>8. l' - 1 = r /\ unquoted' = unquoted
    BY <1>1, <2>1, <2>2, <2>3
  <2>9. \A j \in 1 .. r : unquoted[j] # Nul
    BY <1>1, <2>3, <2>4
  <2>10. (Doubled(SubSeq(unquoted, 1, l - 1)))' = Doubled(SubSeq(unquoted, 1, r))
    BY <2>8 DEF Doubled
  <2> QED
    BY <2>1, <2>4, <2>7, <2>8, <2>9, <2>10 DEF CopiedInv, QuotedRight
<1>6. CASE CopyRemainder
  <2> DEFINE n == quotedlen - Len(quoted) - 1
  <2>1. /\ UNCHANGED <<given, unquoted, l>> /\ pc = "copy" /\ QuotesFrom(l) = {}
        /\ IF n >= 0
             THEN pc' = "done" /\ quoted' = Append(quoted \o Remainder(n), Quote)
             ELSE pc' = "crash" /\ UNCHANGED quoted
    BY <1>6 DEF CopyRemainder
  <2>2. /\ unquoted = given /\ quoted = <<Quote>> \o Doubled(SubSeq(unquoted, 1, l - 1))
        /\ \A j \in 1 .. l - 1 : unquoted[j] # Nul
    BY <2>1 DEF CopiedInv
  <2>3. CASE ~ (pc' = "done" /\ Countable)
    <3>1. pc' \in {"done", "crash"} /\ Countable' = Countable
      BY <2>1, SameQuotes
    <3> QED
      BY <2>1, <2>2, <2>3, <3>1 DEF CopiedInv, QuotedRight
  <2>4. CASE pc' = "done" /\ Countable
    <3>1. quoted' = Append(quoted \o Remainder(n), Quote)
      BY <2>1, <2>4
    <3>2. /\ l - 1 <= Len(unquoted) /\ QuotesFrom(1) = QuotesBefore(l)
          /\ Len(quoted) = l + Cardinality(QuotesBefore(l))
          /\ quotedlen = Len(unquoted) + Cardinality(QuotesFrom(1)) + 2
      BY <2>1, <2>4 DEF SizeInv, LoopInv
    <3>3. n = Len(unquoted) - l + 1
      BY <1>1, <3>2, QuotesFinite
    <3>4. Len(unquoted) - l + 1 \in Nat /\ l - 1 \in 0 .. Len(unquoted)
      BY <1>1, <3>2
    <3> DEFINE d == Doubled(SubSeq(unquoted, 1, l - 1))
               a == Remainder(Len(unquoted) - l + 1)
               e == Doubled(CString(unquoted))
               z == Nuls(Len(unquoted) - Len(CString(unquoted)))
    <3>5. d \in Seq(Chars) /\ a \in Seq(Chars)
      BY <1>1, <3>4, DoubledType, RemainderType
    <3>6. d \o a = e \o z /\ e \in Seq(Chars) /\ z \in Seq(Chars)
      BY <1>1, <2>1, <2>2, <3>2, RestDoubled
    <3>7. quoted' = Append((<<Quote>> \o d) \o a, Quote)
      BY <2>2, <3>1, <3>3
    <3>8. quoted' = ((<<Quote>> \o e) \o z) \o <<Quote>>
      <4> HIDE DEF d, a, e, z
      <4>2. (<<Quote>> \o d) \o a = <<Quote>> \o (d \o a)
        BY <3>5, Associative, TwoQuotes, Zenon
      <4>3. (<<Quote>> \o e) \o z = <<Quote>> \o (e \o z)
        BY <3>6, Associative, TwoQuotes, Zenon
      <4>4. (<<Quote>> \o d) \o a \in Seq(Chars)
        <5>1. <<Quote>> \o d \in Seq(Chars)
          BY <3>5, TwoQuotes, ConcatProperties, Zenon
        <5> QED
          BY <3>5, <5>1, ConcatProperties, Zenon
      <4>5. Append((<<Quote>> \o d) \o a, Quote) = ((<<Quote>> \o d) \o a) \o <<Quote>>
        BY <4>4, TwoQuotes, AppendIsConcat, Zenon
      <4> QED
        BY <3>6, <3>7, <4>2, <4>3, <4>5
    <3>9. given' = unquoted /\ unquoted' = unquoted
      BY <2>1, <2>2
    <3> QED
      BY <2>4, <3>8, <3>9 DEF CopiedInv, QuotedRight
  <2> QED
    BY <2>3, <2>4
<1>7. CASE UNCHANGED vars
  BY <1>7, SameQuotes DEF vars, CopiedInv, QuotedRight
<1> QED
  BY <1>2, <1>3, <1>4, <1>5, <1>6, <1>7 DEF Next, Quoter

(***************************************************************************)
(* Theorems.                                                               *)
(***************************************************************************)

\* The strengthened invariant holds in every reachable state.
THEOREM QuoterInvariance == Spec => []IInv
<1>1. Init => IInv
  BY InitSizeInv, InitCopied DEF IInv
<1>2. IInv /\ [Next]_vars => IInv'
  BY NextSizeInv, NextCopied DEF IInv
<1> QED
  BY <1>1, <1>2, PTL DEF Spec

\* The answer is the C string of the text with every quote doubled, between two
\* quotes, for a text of any length whose quotes an int counts.
THEOREM QuotesRight == Spec => []QuotedRight
<1>1. IInv => QuotedRight
  BY DEF IInv
<1> QED
  BY <1>1, QuoterInvariance, PTL

=============================================================================
