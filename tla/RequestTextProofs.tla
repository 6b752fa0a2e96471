-------------------------- MODULE RequestTextProofs --------------------------
(***************************************************************************)
(* Proofs about RequestText, for targets, headers and lists of flags of    *)
(* any length.  The regular expressions and loops of the code take a text  *)
(* apart from the left; a reader sees the fields between its separators.   *)
(* Each invariant says that what was read so far is what a reader sees     *)
(* before a position p, and that the text from p on is left: so what was   *)
(* read in the end is all of it.                                           *)
(***************************************************************************)
EXTENDS RequestText, SequenceTheorems, FiniteSetTheorems, WellFoundedInduction, TLAPS

-----------------------------------------------------------------------------
(* Least and greatest members *)

\* A set of numbers that is not empty has a least member.
LEMMA LeastNatural ==
  ASSUME NEW S \in SUBSET Nat, NEW m \in S
  PROVE  \E p \in S : \A n \in S : p <= n
<1> DEFINE Below == {1 .. n : n \in S \cap (0 .. m)}
<1>1. IsWellFoundedOn(StrictSubsetOrdering(1 .. m), FiniteSubsetsOf(1 .. m))
  BY FS_Interval, FS_StrictSubsetOrderingWellFounded
<1>2. ASSUME NEW B \in Below  PROVE B \in FiniteSubsetsOf(1 .. m)
  <2>1. PICK n \in S \cap (0 .. m) : B = 1 .. n
    OBVIOUS
  <2>2. IsFiniteSet(B) /\ B \subseteq 1 .. m
    BY <2>1, FS_Interval
  <2> QED BY <2>2 DEF FiniteSubsetsOf
<1>3. 1 .. m \in Below
  OBVIOUS
<1>4. PICK B \in Below : \A C \in Below : ~(<<C, B>> \in StrictSubsetOrdering(1 .. m))
  <2> HIDE DEF Below
  <2> QED BY <1>1, <1>2, <1>3, WFMin
<1>5. PICK p \in S \cap (0 .. m) : B = 1 .. p
  OBVIOUS
<1>6. ASSUME NEW n \in S, n < p  PROVE FALSE
  <2>1. 1 .. n \in Below
    BY <1>5, <1>6
  <2>2. 1 .. n \subseteq B /\ 1 .. n # B
    BY <1>5, <1>6
  <2>3. <<1 .. n, B>> \in StrictSubsetOrdering(1 .. m)
    BY <1>5, <1>6, <2>2 DEF StrictSubsetOrdering
  <2> QED BY <1>4, <2>1, <2>3
<1> QED
  BY <1>5, <1>6

\* The least member, and the greatest of those that are bounded.
LEMMA MinIs ==
  ASSUME NEW S \in SUBSET Nat, S # {}
  PROVE  Min(S) \in S /\ \A n \in S : Min(S) <= n
<1>1. PICK p \in S : \A n \in S : p <= n
  BY LeastNatural
<1> QED
  BY <1>1 DEF Min

LEMMA MaxIs ==
  ASSUME NEW b \in Nat, NEW S \in SUBSET (0 .. b), S # {}
  PROVE  Max(S) \in S /\ \A n \in S : Max(S) >= n
<1> DEFINE R == {b - n : n \in S}
<1>1. R \in SUBSET Nat
  OBVIOUS
<1>2. R # {}
  <2>1. PICK n \in S : TRUE
    OBVIOUS
  <2>2. b - n \in R
    OBVIOUS
  <2> QED
    BY <2>2
<1>3. PICK q \in R : \A r \in R : q <= r
  <2> HIDE DEF R
  <2> QED BY <1>2, <1>1, LeastNatural
<1>4. PICK p \in S : q = b - p
  BY <1>3
<1>5. ASSUME NEW n \in S PROVE p >= n
  <2>1. b - n \in R /\ n \in 0 .. b /\ p \in 0 .. b
    OBVIOUS
  <2>2. b - p <= b - n
    BY <1>3, <1>4, <2>1
  <2> HIDE DEF R
  <2> QED
    BY <2>1, <2>2
<1> QED
  BY <1>4, <1>5 DEF Max

-----------------------------------------------------------------------------
(* Texts and their pieces *)

Texts == Seq(STRING)

\* r is what stands in s from a to b.
IsPiece(r, s, a, b) ==
  /\ r \in Texts /\ Len(r) = b - a + 1
  /\ \A k \in 1 .. Len(r) : r[k] = s[a + k - 1]

LEMMA PieceIs ==
  ASSUME NEW s \in Texts, NEW a \in 1 .. Len(s) + 1, NEW b \in a - 1 .. Len(s)
  PROVE  IsPiece(SubSeq(s, a, b), s, a, b)
<1> DEFINE r == SubSeq(s, a, b)
<1>1. \A i \in a .. b : s[i] \in STRING
  BY DEF Texts
<1>2. /\ r \in Seq(STRING) /\ Len(r) = IF a <= b THEN b - a + 1 ELSE 0
      /\ \A k \in 1 .. b - a + 1 : r[k] = s[a + k - 1]
  BY <1>1, SubSeqProperties
<1> HIDE DEF r
<1> QED
  BY <1>2 DEF IsPiece, Texts

LEMMA SamePiece ==
  ASSUME NEW s, NEW a \in Int, NEW b \in Int, NEW q, NEW r, IsPiece(q, s, a, b), IsPiece(r, s, a, b)
  PROVE  q = r
BY SeqEqual DEF IsPiece, Texts

LEMMA PieceOfPiece ==
  ASSUME NEW s, NEW a \in Nat, NEW b \in Nat, NEW r, IsPiece(r, s, a, b),
         NEW c \in 1 .. Len(r) + 1, NEW d \in c - 1 .. Len(r)
  PROVE  IsPiece(SubSeq(r, c, d), s, a + c - 1, a + d - 1)
<1> DEFINE q == SubSeq(r, c, d)
<1>1. IsPiece(q, r, c, d)
  BY PieceIs DEF IsPiece
<1> HIDE DEF q
<1>2. q \in Texts /\ Len(q) = d - c + 1
  BY <1>1 DEF IsPiece
<1>3. ASSUME NEW k \in 1 .. Len(q) PROVE q[k] = s[a + c - 1 + k - 1]
  <2>1. c + k - 1 \in 1 .. Len(r) /\ q[k] = r[c + k - 1]
    BY <1>1, <1>2 DEF IsPiece
  <2>2. r[c + k - 1] = s[a + (c + k - 1) - 1]
    BY <2>1 DEF IsPiece
  <2>3. a + (c + k - 1) - 1 = a + c - 1 + k - 1
    OBVIOUS
  <2> QED
    BY <2>1, <2>2, <2>3
<1> QED
  BY <1>2, <1>3 DEF IsPiece, q

\* What is left of a text from a position on.
LEMMA FromIs ==
  ASSUME NEW s \in Texts, NEW n \in 1 .. Len(s) + 1
  PROVE  IsPiece(From(s, n), s, n, Len(s))
BY PieceIs DEF From, Texts

LEMMA FromFrom ==
  ASSUME NEW s \in Texts, NEW n \in 1 .. Len(s) + 1, NEW m \in 1 .. Len(s) + 2 - n
  PROVE  From(From(s, n), m) = From(s, n + m - 1)
<1> DEFINE t == From(s, n)
<1>1. IsPiece(t, s, n, Len(s)) /\ IsPiece(From(s, n + m - 1), s, n + m - 1, Len(s))
  BY FromIs
<1> HIDE DEF t
<1>2. Len(t) = Len(s) + 1 - n /\ Len(s) \in Nat
  BY <1>1 DEF IsPiece, Texts
<1>3. /\ n \in Nat /\ Len(s) \in Nat /\ m \in 1 .. Len(t) + 1
      /\ Len(t) \in m - 1 .. Len(t)
  BY <1>2
<1>4. IsPiece(SubSeq(t, m, Len(t)), s, n + m - 1, n + Len(t) - 1)
  BY <1>1, <1>3, PieceOfPiece
<1>5. IsPiece(From(t, m), s, n + m - 1, Len(s))
  BY <1>2, <1>4 DEF From
<1> QED
  BY <1>1, <1>2, <1>5, SamePiece DEF t

\* The first place of a character in S, and how far UpTo() reads.
LEMMA FirstIs ==
  ASSUME NEW s \in Texts, NEW S
  PROVE  /\ FirstIn(s, S) \in 0 .. Len(s)
         /\ FirstIn(s, S) = 0 => \A k \in 1 .. Len(s) : s[k] \notin S
         /\ FirstIn(s, S) > 0 => s[FirstIn(s, S)] \in S
         /\ \A k \in 1 .. FirstIn(s, S) - 1 : s[k] \notin S
<1> DEFINE I == {i \in 1 .. Len(s) : s[i] \in S}
           n == FirstIn(s, S)
<1>1. Len(s) \in Nat
  BY DEF Texts
<1>2. n = IF I # {} THEN Min(I) ELSE 0
  BY DEF FirstIn, SelectInSeq
<1>3. I # {} => Min(I) \in I /\ \A k \in I : Min(I) <= k
  <2>1. I \in SUBSET Nat
    BY <1>1
  <2> HIDE DEF I
  <2> QED
    BY <2>1, MinIs
<1> HIDE DEF n
<1>4. CASE I = {}
  <2>1. n = 0
    BY <1>2, <1>4
  <2>2. \A k \in 1 .. Len(s) : s[k] \notin S
    BY <1>4
  <2>3. 0 \in 0 .. Len(s) /\ ~(0 > 0) /\ \A k : k \notin 1 .. 0 - 1
    BY <1>1
  <2> HIDE DEF I
  <2> QED
    BY <2>1, <2>2, <2>3 DEF n
<1>5. CASE I # {}
  <2>1. n \in 1 .. Len(s) /\ s[n] \in S /\ \A k \in I : n <= k
    BY <1>2, <1>3, <1>5
  <2>2. ASSUME NEW k \in 1 .. n - 1 PROVE s[k] \notin S
    <3>1. k \in 1 .. Len(s) /\ ~(n <= k)
      BY <1>1, <2>1
    <3>2. k \notin I
      BY <2>1, <3>1
    <3> QED
      BY <3>1, <3>2
  <2>3. n \in 0 .. Len(s) /\ ~(n = 0)
    BY <1>1, <2>1
  <2> QED
    BY <2>1, <2>2, <2>3 DEF n
<1> QED
  BY <1>4, <1>5 DEF n

LEMMA UpToIs ==
  ASSUME NEW s \in Texts, NEW S
  PROVE  \E n \in 0 .. Len(s) :
           /\ UpTo(s, S) = SubSeq(s, 1, n)
           /\ \A k \in 1 .. n : s[k] \notin S
           /\ n < Len(s) => s[n + 1] \in S
<1> DEFINE m == FirstIn(s, S)
<1>1. Len(s) \in Nat
  BY DEF Texts
<1>2. /\ m \in 0 .. Len(s)
      /\ m = 0 => \A k \in 1 .. Len(s) : s[k] \notin S
      /\ m > 0 => s[m] \in S
      /\ \A k \in 1 .. m - 1 : s[k] \notin S
  BY FirstIs
<1>3. UpTo(s, S) = IF m = 0 THEN s ELSE SubSeq(s, 1, m - 1)
  BY DEF UpTo
<1> HIDE DEF m
<1>4. CASE m = 0
  <2>1. SubSeq(s, 1, Len(s)) = s
    BY SubSeqFull DEF Texts
  <2>2. Len(s) \in 0 .. Len(s) /\ ~(Len(s) < Len(s))
    BY <1>1
  <2> QED
    BY <1>2, <1>3, <1>4, <2>1, <2>2
<1>5. CASE m # 0
  <2>1. m - 1 \in 0 .. Len(s) /\ m - 1 + 1 = m /\ m > 0
    BY <1>1, <1>2, <1>5
  <2> QED
    BY <1>2, <1>3, <1>5, <2>1
<1> QED
  BY <1>4, <1>5

\* How far a text starts with one character.
LEMMA RunIs ==
  ASSUME NEW s \in Texts, NEW c
  PROVE  LET m == SelectInSeq(s, LAMBDA d : d # c)
             n == IF m = 0 THEN Len(s) ELSE m - 1
         IN
         /\ n \in 0 .. Len(s)
         /\ \A k \in 1 .. n : s[k] = c
         /\ n < Len(s) => s[n + 1] # c
<1> DEFINE m == SelectInSeq(s, LAMBDA d : d # c)
           n == IF m = 0 THEN Len(s) ELSE m - 1
           I == {i \in 1 .. Len(s) : s[i] # c}
<1> SUFFICES /\ n \in 0 .. Len(s)
             /\ \A k \in 1 .. n : s[k] = c
             /\ n < Len(s) => s[n + 1] # c
  OBVIOUS
<1>1. Len(s) \in Nat
  BY DEF Texts
<1>2. m = IF I # {} THEN Min(I) ELSE 0
  BY DEF SelectInSeq
<1>3. I # {} => Min(I) \in I /\ \A k \in I : Min(I) <= k
  <2>1. I \in SUBSET Nat
    BY <1>1
  <2> HIDE DEF I
  <2> QED
    BY <2>1, MinIs
<1>4. 0 \notin I
  BY <1>1
<1>5. CASE I = {}
  <2>1. n = Len(s) /\ \A k \in 1 .. Len(s) : s[k] = c
    BY <1>2, <1>5
  <2> HIDE DEF n
  <2> QED
    BY <1>1, <2>1
<1>6. CASE I # {}
  <2>1. n = Min(I) - 1
    BY <1>2, <1>3, <1>4, <1>6
  <2>2. /\ Min(I) \in 1 .. Len(s) /\ s[Min(I)] # c
        /\ \A k \in I : Min(I) <= k
    BY <1>3, <1>6
  <2>3. ASSUME NEW k \in 1 .. Min(I) - 1 PROVE s[k] = c
    <3>1. k \in 1 .. Len(s) /\ ~(Min(I) <= k)
      BY <1>1, <2>2
    <3>2. k \notin I
      BY <2>2, <3>1
    <3> QED
      BY <3>1, <3>2
  <2> HIDE DEF I, n
  <2> QED
    BY <1>1, <2>1, <2>2, <2>3
<1> QED
  BY <1>5, <1>6

LEMMA CommasIs ==
  ASSUME NEW s \in Texts
  PROVE  /\ Commas(s) \in 0 .. Len(s)
         /\ \A k \in 1 .. Commas(s) : s[k] = Comma
         /\ Commas(s) < Len(s) => s[Commas(s) + 1] # Comma
BY RunIs DEF Commas

\* The text of s from a up to a character in S.
LEMMA UpToFrom ==
  ASSUME NEW s \in Texts, NEW S, NEW a \in 1 .. Len(s) + 1
  PROVE  \E b \in a - 1 .. Len(s) :
           /\ UpTo(From(s, a), S) = In(s, <<a, b>>)
           /\ Len(UpTo(From(s, a), S)) = b - a + 1
           /\ \A k \in a .. b : s[k] \notin S
           /\ b < Len(s) => s[b + 1] \in S
<1> DEFINE t == From(s, a)
<1>1. IsPiece(t, s, a, Len(s)) /\ Len(s) \in Nat
  BY FromIs DEF Texts
<1> HIDE DEF t
<1>2. t \in Texts /\ Len(t) = Len(s) - a + 1 /\ \A k \in 1 .. Len(t) : t[k] = s[a + k - 1]
  BY <1>1 DEF IsPiece
<1>3. PICK n \in 0 .. Len(t) :
        /\ UpTo(t, S) = SubSeq(t, 1, n)
        /\ \A k \in 1 .. n : t[k] \notin S
        /\ n < Len(t) => t[n + 1] \in S
  BY <1>2, UpToIs
<1> DEFINE b == a + n - 1
<1>4. b \in a - 1 .. Len(s) /\ a \in Nat /\ b \in Nat /\ n = b - a + 1
  BY <1>2
<1>5. IsPiece(SubSeq(t, 1, n), s, a, b)
  <2>1. 1 \in 1 .. Len(t) + 1 /\ n \in 1 - 1 .. Len(t) /\ a + 1 - 1 = a /\ a + n - 1 = b
    BY <1>2
  <2>2. IsPiece(SubSeq(t, 1, n), s, a + 1 - 1, a + n - 1)
    BY <1>1, <1>4, <2>1, PieceOfPiece
  <2> QED
    BY <2>1, <2>2
<1>6. IsPiece(In(s, <<a, b>>), s, a, b)
  BY <1>4, PieceIs DEF In
<1>7. UpTo(t, S) = In(s, <<a, b>>) /\ Len(UpTo(t, S)) = b - a + 1
  <2>1. a \in Int /\ b \in Int
    BY <1>4
  <2> HIDE DEF b
  <2>2. SubSeq(t, 1, n) = In(s, <<a, b>>)
    BY <1>5, <1>6, <2>1, SamePiece
  <2>3. Len(SubSeq(t, 1, n)) = b - a + 1
    BY <1>5 DEF IsPiece
  <2> QED
    BY <1>3, <2>2, <2>3
<1>8. ASSUME NEW k \in a .. b PROVE s[k] \notin S
  <2>1. k - a + 1 \in 1 .. n /\ k - a + 1 \in 1 .. Len(t) /\ a + (k - a + 1) - 1 = k
    BY <1>2, <1>4
  <2> QED
    BY <1>2, <1>3, <2>1
<1>9. ASSUME b < Len(s) PROVE s[b + 1] \in S
  <2>1. n < Len(t) /\ n + 1 \in 1 .. Len(t) /\ a + (n + 1) - 1 = b + 1
    BY <1>2, <1>4, <1>9
  <2> QED
    BY <1>2, <1>3, <2>1
<1> HIDE DEF b
<1> QED
  BY <1>4, <1>7, <1>8, <1>9 DEF t

\* The end of the field of s that starts at a, and that there is no other that
\* starts before the next separator.
LEMMA FieldFrom ==
  ASSUME NEW s \in Texts, NEW S, NEW a \in 1 .. Len(s) + 1, a = 1 \/ s[a - 1] \in S
  PROVE  \E b \in a - 1 .. Len(s) :
           /\ UpTo(From(s, a), S) = In(s, <<a, b>>)
           /\ Len(UpTo(From(s, a), S)) = b - a + 1
           /\ <<a, b>> \in Fields(s, S)
           /\ \A k \in a .. b : s[k] \notin S
           /\ b < Len(s) => s[b + 1] \in S
           /\ \A i \in Fields(s, S) : i[1] \in a .. b + 1 => i = <<a, b>>
<1>1. Len(s) \in Nat
  BY DEF Texts
<1>2. PICK b \in a - 1 .. Len(s) :
        /\ UpTo(From(s, a), S) = In(s, <<a, b>>)
        /\ Len(UpTo(From(s, a), S)) = b - a + 1
        /\ \A k \in a .. b : s[k] \notin S
        /\ b < Len(s) => s[b + 1] \in S
  BY UpToFrom
<1>3. b \in a - 1 .. Len(s) /\ a \in Nat /\ b \in Nat
  BY <1>1
<1>4. \A k \in a .. b : s[k] \notin S
  BY <1>2
<1>5. b < Len(s) => s[b + 1] \in S
  BY <1>2
<1>6. <<a, b>> \in Fields(s, S)
  <2>1. /\ <<a, b>> \in (1 .. Len(s) + 1) \X (0 .. Len(s))
        /\ <<a, b>>[1] = a /\ <<a, b>>[2] = b /\ a <= b + 1 /\ (b = Len(s) \/ b < Len(s))
    BY <1>1, <1>3
  <2> QED
    BY <1>4, <1>5, <2>1 DEF Fields
<1>7. ASSUME NEW i \in Fields(s, S), i[1] \in a .. b + 1 PROVE i = <<a, b>>
  <2>1. /\ i \in (1 .. Len(s) + 1) \X (0 .. Len(s))
        /\ i[1] <= i[2] + 1 /\ \A k \in i[1] .. i[2] : s[k] \notin S
        /\ i[1] = 1 \/ s[i[1] - 1] \in S
        /\ i[2] = Len(s) \/ s[i[2] + 1] \in S
    BY DEF Fields
  <2>2. i[1] \in Nat /\ i[2] \in 0 .. Len(s) /\ i = <<i[1], i[2]>>
    BY <2>1
  <2>3. i[1] = a
    <3>1. CASE i[1] > a
      <4>1. i[1] - 1 \in a .. b /\ i[1] # 1
        BY <1>3, <1>7, <2>2, <3>1
      <4> QED
        BY <1>4, <2>1, <4>1
    <3> QED
      BY <1>3, <1>7, <2>2, <3>1
  <2>4. CASE i[2] < b
    <3>1. i[2] + 1 \in a .. b /\ i[2] # Len(s)
      BY <1>3, <2>1, <2>2, <2>3, <2>4
    <3> QED
      BY <1>4, <2>1, <3>1
  <2>5. CASE i[2] > b
    <3>1. b < Len(s) /\ b + 1 \in i[1] .. i[2]
      BY <1>3, <2>1, <2>2, <2>3, <2>5
    <3> QED
      BY <1>5, <2>1, <3>1
  <2> QED
    BY <1>3, <2>2, <2>3, <2>4, <2>5
<1> QED
  BY <1>2, <1>6, <1>7

\* A field that is not empty.
LEMMA FieldIs ==
  ASSUME NEW s \in Texts, NEW S, NEW i \in Fields(s, S), In(s, i) # <<>>
  PROVE  /\ i[1] \in 1 .. Len(s) /\ i[2] \in i[1] .. Len(s) /\ i = <<i[1], i[2]>>
         /\ \A k \in i[1] .. i[2] : s[k] \notin S
         /\ i[1] = 1 \/ s[i[1] - 1] \in S
         /\ i[2] = Len(s) \/ s[i[2] + 1] \in S
<1>1. /\ i \in (1 .. Len(s) + 1) \X (0 .. Len(s)) /\ i[1] <= i[2] + 1
      /\ \A k \in i[1] .. i[2] : s[k] \notin S
      /\ i[1] = 1 \/ s[i[1] - 1] \in S
      /\ i[2] = Len(s) \/ s[i[2] + 1] \in S
      /\ SubSeq(s, i[1], i[2]) # <<>>
  BY DEF Fields, In
<1>2. i[1] \in 1 .. Len(s) + 1 /\ i[2] \in 0 .. Len(s) /\ i = <<i[1], i[2]>> /\ Len(s) \in Nat
  BY <1>1 DEF Texts
<1>3. ~(i[1] = i[2] + 1)
  BY <1>1, <1>2, SubSeqEmpty
<1> QED
  BY <1>1, <1>2, <1>3

-----------------------------------------------------------------------------
(* The flags of a query *)

Words(csv) == {i \in Fields(csv, {Comma}) : In(csv, i) # <<>> \/ i[2] < Len(csv)}
\* The words that start before p.
WordsBefore(csv, p) == {i \in Words(csv) : i[1] < p}

\* A text that starts with a comma, and an empty one, are no flags.
LEMMA NotKnown ==
  /\ ~Known(<<>>)
  /\ \A t : DOMAIN t = 1 .. Len(t) /\ Len(t) \in Nat /\ Len(t) > 0 /\ t[1] = Comma => ~Known(t)
<1>1. ~Known(<<>>)
  BY FlagsAssumption DEF Known
<1>2. ASSUME NEW t, DOMAIN t = 1 .. Len(t), Len(t) \in Nat, Len(t) > 0, t[1] = Comma PROVE ~Known(t)
  <2>1. 1 \in DOMAIN t
    BY <1>2
  <2>2. Comma \in Range(t)
    BY <1>2, <2>1 DEF Range
  <2> QED
    BY <2>2, FlagsAssumption DEF Known
<1> QED
  BY <1>1, <1>2

\* Deref() of a text that does not start with a comma reads up to the next one.
LEMMA DerefWord ==
  ASSUME NEW s \in Texts, Len(s) > 0, s[1] # Comma
  PROVE  Deref(s) = UpTo(s, {Comma})
<1>1. Len(s) \in Nat
  BY DEF Texts
<1>2. Commas(s) = 0
  <2>1. Commas(s) \in 0 .. Len(s) /\ \A k \in 1 .. Commas(s) : s[k] = Comma
    BY CommasIs
  <2> QED
    BY <1>1, <2>1
<1>3. From(s, 1) = s
  BY SubSeqFull DEF From, Texts
<1>4. PICK n \in 0 .. Len(s) : UpTo(s, {Comma}) = SubSeq(s, 1, n)
  BY UpToIs
<1>5. IsPiece(SubSeq(s, 1, n), s, 1, n)
  BY <1>1, PieceIs
<1>6. Len(UpTo(s, {Comma})) = n
  BY <1>1, <1>4, <1>5 DEF IsPiece
<1>7. Commas(s) + 1 = 1 /\ Commas(s) + Len(UpTo(s, {Comma})) = n
  BY <1>2, <1>6
<1>8. Deref(s) = SubSeq(s, 1, n)
  BY <1>3, <1>7 DEF Deref
<1> QED
  BY <1>4, <1>8

\* Of one that does, it returns that comma, too.
LEMMA DerefCommas ==
  ASSUME NEW s \in Texts, Len(s) > 0, s[1] = Comma
  PROVE  ~Known(Deref(s))
<1> DEFINE c == Commas(s)
           t == From(s, c + 1)
<1>1. Len(s) \in Nat
  BY DEF Texts
<1>2. c \in 1 .. Len(s)
  <2>1. c \in 0 .. Len(s) /\ (c < Len(s) => s[c + 1] # Comma)
    BY CommasIs
  <2> HIDE DEF c
  <2>2. c # 0
    BY <2>1
  <2> QED
    BY <1>1, <2>1, <2>2
<1> HIDE DEF c
<1>3. IsPiece(t, s, c + 1, Len(s))
  BY <1>1, <1>2, FromIs
<1> HIDE DEF t
<1>4. t \in Texts /\ Len(t) = Len(s) - c
  BY <1>1, <1>2, <1>3 DEF IsPiece
<1>5. PICK n \in 0 .. Len(t) : UpTo(t, {Comma}) = SubSeq(t, 1, n)
  BY <1>4, UpToIs
<1>6. n \in Nat /\ c + n \in 0 .. Len(s) /\ Len(UpTo(t, {Comma})) = n
  <2>1. IsPiece(SubSeq(t, 1, n), t, 1, n)
    BY <1>1, <1>2, <1>4, PieceIs
  <2> QED
    BY <1>1, <1>2, <1>4, <1>5, <2>1 DEF IsPiece
<1>7. Deref(s) = SubSeq(s, 1, c + n)
  BY <1>6 DEF Deref, c, t
<1>8. IsPiece(Deref(s), s, 1, c + n)
  BY <1>1, <1>6, <1>7, PieceIs
<1>9. Deref(s) \in Texts /\ Len(Deref(s)) > 0 /\ Deref(s)[1] = Comma
  BY <1>1, <1>2, <1>6, <1>8 DEF IsPiece
<1>10. DOMAIN Deref(s) = 1 .. Len(Deref(s)) /\ Len(Deref(s)) \in Nat
  BY <1>9, LenProperties DEF Texts
<1> QED
  BY <1>9, <1>10, NotKnown

\* The word at p: what reading and stepping on do there.
WordAt(csv, p, q) ==
  /\ q \in p - 1 .. Len(csv)
  /\ <<p, q>> \in Words(csv)
  /\ \A i \in Words(csv) : i[1] \in p .. q + 1 => i = <<p, q>>
  /\ q = Len(csv) \/ csv[q + 1] = Comma
  /\ Known(Deref(From(csv, p))) <=> Known(In(csv, <<p, q>>))
  /\ Known(In(csv, <<p, q>>)) => Deref(From(csv, p)) = In(csv, <<p, q>>)
  /\ Advance(From(csv, p)) = From(csv, q + 2)

LEMMA WordIs ==
  ASSUME NEW csv \in Texts, NEW p \in 1 .. Len(csv), p = 1 \/ csv[p - 1] = Comma
  PROVE  \E q : WordAt(csv, p, q)
<1> DEFINE s == From(csv, p)
<1>1. Len(csv) \in Nat
  BY DEF Texts
<1>2. /\ s \in Texts /\ Len(s) = Len(csv) - p + 1 /\ Len(s) > 0 /\ s[1] = csv[p]
      /\ IsPiece(s, csv, p, Len(csv))
  <2>1. IsPiece(s, csv, p, Len(csv))
    BY <1>1, FromIs
  <2> HIDE DEF s
  <2> QED
    BY <1>1, <2>1 DEF IsPiece
<1>3. PICK q \in p - 1 .. Len(csv) :
        /\ UpTo(s, {Comma}) = In(csv, <<p, q>>)
        /\ Len(UpTo(s, {Comma})) = q - p + 1
        /\ <<p, q>> \in Fields(csv, {Comma})
        /\ \A k \in p .. q : csv[k] \notin {Comma}
        /\ q < Len(csv) => csv[q + 1] \in {Comma}
        /\ \A i \in Fields(csv, {Comma}) : i[1] \in p .. q + 1 => i = <<p, q>>
  <2>1. p \in 1 .. Len(csv) + 1 /\ (p = 1 \/ csv[p - 1] \in {Comma})
    BY <1>1
  <2> QED
    BY <2>1, FieldFrom
<1> HIDE DEF s
<1>4. q = Len(csv) \/ csv[q + 1] = Comma
  BY <1>1, <1>3
<1>5. IsPiece(In(csv, <<p, q>>), csv, p, q)
  BY <1>1, PieceIs DEF In
<1>6. <<p, q>> \in Words(csv)
  <2>1. CASE q < Len(csv)
    BY <1>3, <2>1 DEF Words
  <2>2. CASE q >= p
    <3>1. Len(In(csv, <<p, q>>)) # 0
      BY <1>1, <1>5, <2>2 DEF IsPiece
    <3>2. In(csv, <<p, q>>) # <<>>
      BY <3>1
    <3> QED
      BY <1>3, <3>2 DEF Words
  <2> QED
    BY <1>1, <2>1, <2>2
<1>7. \A i \in Words(csv) : i[1] \in p .. q + 1 => i = <<p, q>>
  BY <1>3 DEF Words
<1>8. Advance(s) = From(csv, q + 2)
  <2>1. Advance(s) = From(s, 2 + (q - p + 1))
    BY <1>3 DEF Advance
  <2>2. CASE q < Len(csv)
    <3>1. p \in 1 .. Len(csv) + 1 /\ 2 + (q - p + 1) \in 1 .. Len(csv) + 2 - p
          /\ p + (2 + (q - p + 1)) - 1 = q + 2
      BY <1>1, <2>2
    <3>2. From(s, 2 + (q - p + 1)) = From(csv, p + (2 + (q - p + 1)) - 1)
      BY <3>1, FromFrom DEF s
    <3> QED
      BY <2>1, <3>1, <3>2
  <2>3. CASE q = Len(csv)
    <3>1. SubSeq(s, 2 + (q - p + 1), Len(s)) = <<>>
      BY <1>1, <1>2, <2>3, SubSeqEmpty
    <3>2. SubSeq(csv, q + 2, Len(csv)) = <<>>
      BY <1>1, <2>3, SubSeqEmpty
    <3> QED
      BY <2>1, <3>1, <3>2 DEF From
  <2> QED
    BY <1>1, <2>2, <2>3
<1>9. /\ Known(Deref(s)) <=> Known(In(csv, <<p, q>>))
      /\ Known(In(csv, <<p, q>>)) => Deref(s) = In(csv, <<p, q>>)
  <2>1. CASE csv[p] = Comma
    <3>1. ~Known(Deref(s))
      BY <1>2, <2>1, DerefCommas
    <3>2. q = p - 1
      BY <1>1, <1>3, <2>1
    <3>3. In(csv, <<p, q>>) = <<>>
      BY <1>1, <3>2, SubSeqEmpty DEF In
    <3> QED
      BY <3>1, <3>3, NotKnown
  <2>2. CASE csv[p] # Comma
    BY <1>2, <1>3, <2>2, DerefWord
  <2> QED
    BY <2>1, <2>2
<1> QED
  BY <1>3, <1>4, <1>6, <1>7, <1>8, <1>9 DEF WordAt, s

-----------------------------------------------------------------------------
(* Everything that is read is a text *)

LEMMA FromText ==
  ASSUME NEW s \in Texts, NEW n \in Nat \ {0}
  PROVE  From(s, n) \in Texts
<1>1. Len(s) \in Int /\ \A k \in n .. Len(s) : s[k] \in STRING
  BY DEF Texts
<1> QED
  BY <1>1, SubSeqProperties DEF From, Texts

LEMMA UpToText ==
  ASSUME NEW s \in Texts, NEW S
  PROVE  UpTo(s, S) \in Texts /\ Len(UpTo(s, S)) \in 0 .. Len(s)
<1>1. PICK n \in 0 .. Len(s) : UpTo(s, S) = SubSeq(s, 1, n)
  BY UpToIs
<1>2. IsPiece(SubSeq(s, 1, n), s, 1, n)
  BY PieceIs DEF Texts
<1> QED
  BY <1>1, <1>2 DEF IsPiece, Texts

LEMMA NameStart ==
  ASSUME NEW s \in Texts, NameStarts(s) # {}
  PROVE  /\ Min(NameStarts(s)) \in 1 .. Len(s)
         /\ s[Min(NameStarts(s))] \notin Separators
         /\ \A k \in 1 .. Min(NameStarts(s)) - 1 : s[k] \in Separators
<1> DEFINE I == NameStarts(s)
<1>1. Len(s) \in Nat
  BY DEF Texts
<1>2. I \in SUBSET Nat
  BY <1>1 DEF NameStarts
<1>3. Min(I) \in I /\ \A k \in I : Min(I) <= k
  BY <1>2, MinIs
<1>4. Min(I) \in 1 .. Len(s) /\ s[Min(I)] \notin Separators
  BY <1>3 DEF NameStarts
<1>5. ASSUME NEW k \in 1 .. Min(I) - 1 PROVE s[k] \in Separators
  <2>1. k \in 1 .. Len(s) /\ ~(Min(I) <= k)
    BY <1>1, <1>4
  <2>2. k \notin I
    BY <1>3, <2>1
  <2> QED
    BY <2>1, <2>2 DEF NameStarts
<1> QED
  BY <1>4, <1>5

LEMMA QueryTexts ==
  ASSUME NEW s \in Texts, NameStarts(s) # {}
  PROVE  Name(s) \in Texts /\ After(s) \in Texts /\ Value(s) \in Texts /\ Left(s) \in Texts
<1> DEFINE m == Min(NameStarts(s))
<1>1. m \in Nat \ {0}
  BY NameStart DEF Texts
<1>2. From(s, m) \in Texts
  BY <1>1, FromText
<1>3. Name(s) \in Texts /\ Len(Name(s)) \in Nat
  BY <1>2, UpToText DEF Name
<1>4. After(s) \in Texts
  BY <1>1, <1>3, FromText DEF After
<1>5. <<>> \in Texts
  BY DEF Texts
<1>6. After(s) # <<>> => Tail(After(s)) \in Texts
  BY <1>4, HeadTailProperties DEF Texts
<1>7. Value(s) \in Texts
  BY <1>5, <1>6, UpToText DEF Value
<1>8. 2 + Len(Value(s)) \in Nat \ {0}
  BY <1>7 DEF Texts
<1>9. Left(s) \in Texts
  BY <1>4, <1>8, FromText DEF Left
<1> QED
  BY <1>3, <1>4, <1>7, <1>9

\* Where the shortest text ends that leaves nothing or a fragment.
Rests(s) == {n \in 0 .. Len(s) : n = Len(s) \/ IsFragment(From(s, n + 1))}

LEMMA QueryOfIs ==
  ASSUME NEW s \in Texts
  PROVE  /\ Min(Rests(s)) \in Rests(s) /\ Min(Rests(s)) \in 0 .. Len(s)
         /\ \A n \in Rests(s) : Min(Rests(s)) <= n
         /\ QueryOf(s) = SubSeq(s, 1, Min(Rests(s)))
<1>1. Len(s) \in Nat
  BY DEF Texts
<1>2. Rests(s) \in SUBSET Nat /\ Len(s) \in Rests(s)
  BY <1>1 DEF Rests
<1>3. Min(Rests(s)) \in Rests(s) /\ \A n \in Rests(s) : Min(Rests(s)) <= n
  BY <1>2, MinIs
<1>4. Min(Rests(s)) \in 0 .. Len(s)
  BY <1>3 DEF Rests
<1> QED
  BY <1>3, <1>4 DEF QueryOf, Rests

LEMMA QueryOfText ==
  ASSUME NEW s \in Texts
  PROVE  QueryOf(s) \in Texts
<1>1. 1 \in 1 .. Len(s) + 1 /\ Min(Rests(s)) \in 1 - 1 .. Len(s) /\ QueryOf(s) = SubSeq(s, 1, Min(Rests(s)))
  BY QueryOfIs DEF Texts
<1>2. IsPiece(SubSeq(s, 1, Min(Rests(s))), s, 1, Min(Rests(s)))
  BY <1>1, PieceIs
<1> QED
  BY <1>1, <1>2 DEF IsPiece

LEMMA CodingStart ==
  ASSUME NEW s \in Texts, CodingStarts(s) # {}
  PROVE  /\ Min(CodingStarts(s)) \in 1 .. Len(s)
         /\ s[Min(CodingStarts(s))] \in Codings
         /\ \A k \in 1 .. Min(CodingStarts(s)) - 1 : s[k] \notin Codings
<1> DEFINE I == CodingStarts(s)
<1>1. Len(s) \in Nat
  BY DEF Texts
<1>2. I \in SUBSET Nat
  BY <1>1 DEF CodingStarts
<1>3. Min(I) \in I /\ \A k \in I : Min(I) <= k
  BY <1>2, MinIs
<1>4. Min(I) \in 1 .. Len(s) /\ s[Min(I)] \in Codings
  BY <1>3 DEF CodingStarts
<1>5. ASSUME NEW k \in 1 .. Min(I) - 1 PROVE s[k] \notin Codings
  <2>1. k \in 1 .. Len(s) /\ ~(Min(I) <= k)
    BY <1>1, <1>4
  <2>2. k \notin I
    BY <1>3, <2>1
  <2> QED
    BY <2>1, <2>2 DEF CodingStarts
<1> QED
  BY <1>4, <1>5

LEMMA PartStart ==
  ASSUME NEW s \in Texts, PartStarts(s) # {}
  PROVE  /\ Min(PartStarts(s)) \in 2 .. Len(s)
         /\ s[Min(PartStarts(s)) - 1] = "/" /\ s[Min(PartStarts(s))] # "/"
         /\ \A k \in 2 .. Min(PartStarts(s)) - 1 : s[k - 1] = "/" => s[k] = "/"
<1> DEFINE I == PartStarts(s)
<1>1. Len(s) \in Nat
  BY DEF Texts
<1>2. I \in SUBSET Nat
  BY <1>1 DEF PartStarts
<1>3. Min(I) \in I /\ \A k \in I : Min(I) <= k
  BY <1>2, MinIs
<1>4. Min(I) \in 2 .. Len(s) /\ s[Min(I) - 1] = "/" /\ s[Min(I)] # "/"
  BY <1>3 DEF PartStarts
<1>5. ASSUME NEW k \in 2 .. Min(I) - 1, s[k - 1] = "/" PROVE s[k] = "/"
  <2>1. k \in 2 .. Len(s) /\ ~(Min(I) <= k)
    BY <1>1, <1>4
  <2>2. k \notin I
    BY <1>3, <2>1
  <2> QED
    BY <1>5, <2>1, <2>2 DEF PartStarts
<1> QED
  BY <1>4, <1>5

\* What the variables hold.
TextsOK ==
  /\ given \in Texts /\ todo \in Texts /\ query \in Texts /\ parts \in Seq(Texts)
  /\ \A name \in DOMAIN queries : queries[name] \in Texts

LEMMA LookupText == ASSUME TextsOK, NEW tag PROVE Lookup(tag) \in Texts
<1>1. <<>> \in Texts
  BY DEF Texts
<1> QED
  BY <1>1 DEF Lookup, TextsOK

LEMMA TextsInit == TextInit => TextsOK
<1>1. <<>> \in Texts /\ <<>> \in Seq(Texts) /\ DOMAIN Empty = {}
  BY DEF Texts, Empty
<1>2. Targets \subseteq Texts
  BY TargetsAssumption DEF Texts
<1>3. Headers \subseteq Texts
  BY HeadersAssumption, Zenon DEF Texts
<1> QED
  BY <1>1, <1>2, <1>3 DEF TextInit, Reading, TextsOK

LEMMA TextsStep == TextsOK /\ [TextNext]_allVars => TextsOK'
<1> SUFFICES ASSUME TextsOK, [TextNext]_allVars PROVE TextsOK'
  OBVIOUS
<1>1. <<>> \in Texts
  BY DEF Texts
<1>2. CASE UNCHANGED <<given, todo, query, parts, queries>>
  BY <1>2 DEF TextsOK
<1>3. CASE MatchTarget
  <2>1. PathOf(given) \in Texts
    BY <1>1, UpToText DEF PathOf, TextsOK
  <2>2. Len(PathOf(given)) + 1 \in Nat \ {0}
    BY <2>1 DEF Texts
  <2>3. QueryOf(From(given, Len(PathOf(given)) + 1)) \in Texts
    BY <2>2, FromText, QueryOfText DEF TextsOK
  <2> QED
    BY <1>3, <2>1, <2>3 DEF MatchTarget, TextsOK
<1>4. CASE TakePart
  <2> DEFINE n    == Min(PartStarts(todo))
             part == UpTo(From(todo, n), {"/"})
  <2>1. /\ parts' = Append(parts, part) /\ todo' = From(todo, n + Len(part)) /\ PartStarts(todo) # {}
        /\ UNCHANGED <<given, query, queries>>
    BY <1>4 DEF TakePart
  <2>2. n \in Nat \ {0}
    BY <2>1, PartStart DEF TextsOK, Texts
  <2> HIDE DEF n
  <2>3. part \in Texts /\ Len(part) \in Nat
    BY <2>2, FromText, UpToText DEF TextsOK
  <2> HIDE DEF part
  <2>4. From(todo, n + Len(part)) \in Texts
    BY <2>2, <2>3, FromText DEF TextsOK
  <2> QED
    BY <2>1, <2>3, <2>4 DEF TextsOK
<1>5. CASE PartsDone
  <2>1. query # <<>> => Tail(query) \in Texts
    BY HeadTailProperties DEF TextsOK, Texts
  <2> QED
    BY <1>1, <1>5, <2>1 DEF PartsDone, TextsOK
<1>6. CASE TakeQuery
  <2>1. /\ queries' = Emplaced(queries, Name(todo), Value(todo)) /\ todo' = Left(todo)
        /\ UNCHANGED <<given, query, parts>>
        /\ Value(todo) \in Texts /\ Left(todo) \in Texts
    BY <1>6, QueryTexts DEF TakeQuery, TextsOK
  <2> QED
    BY <2>1 DEF Emplaced, TextsOK
<1>7. CASE ReadFlags
  <2>1. PICK tag : todo' = Lookup(tag)
    BY <1>7 DEF ReadFlags
  <2>2. Lookup(tag) \in Texts
    BY LookupText
  <2> QED
    BY <1>7, <2>1, <2>2 DEF ReadFlags, TextsOK
<1>8. CASE TakeFlag
  <2>1. 2 + Len(UpTo(todo, {Comma})) \in Nat \ {0}
    BY UpToText DEF TextsOK, Texts
  <2>2. Advance(todo) \in Texts
    BY <2>1, FromText DEF Advance, TextsOK
  <2> QED
    BY <1>8, <2>2 DEF TakeFlag, TextsOK
<1>9. CASE TakeCoding
  <2>1. Min(CodingStarts(todo)) \in Nat \ {0} /\ Min(CodingStarts(todo)) \in 1 .. Len(todo)
    BY <1>9, CodingStart DEF TakeCoding, TextsOK, Texts
  <2>2. IsPiece(From(todo, Min(CodingStarts(todo))), todo, Min(CodingStarts(todo)), Len(todo))
    BY <2>1, FromIs DEF TextsOK, Texts
  <2>3. From(todo, Min(CodingStarts(todo))) \in Texts /\ From(todo, Min(CodingStarts(todo))) # <<>>
    BY <2>1, <2>2 DEF IsPiece, TextsOK, Texts
  <2>4. Tail(From(todo, Min(CodingStarts(todo)))) \in Texts
    BY <2>3, HeadTailProperties DEF Texts
  <2> QED
    BY <1>9, <2>4 DEF TakeCoding, TextsOK
<1>10. ASSUME todo' \in {<<>>, given}, UNCHANGED <<given, query, parts, queries>> PROVE TextsOK'
  BY <1>1, <1>10 DEF TextsOK
<1>11. CASE QueriesDone \/ TakeOnlyFlag \/ RefuseFlag \/ ReadHeader \/ CodingsDone
  BY <1>10, <1>11 DEF QueriesDone, TakeOnlyFlag, RefuseFlag, ReadHeader, CodingsDone
<1>12. CASE FlagsDone \/ HandleCompression
  BY <1>2, <1>12 DEF FlagsDone, HandleCompression
<1> QED
  BY <1>2, <1>3, <1>4, <1>5, <1>6, <1>7, <1>8, <1>9, <1>11, <1>12
  DEF TextNext, ReadTarget, ReadQuery, Negotiate, allVars, textVars

LEMMA TextsHold == TextSpec => []TextsOK
BY TextsInit, TextsStep, PTL DEF TextSpec

-----------------------------------------------------------------------------
(* The flags *)

\* The list whose flags are read, and how far: the words before p are known, and
\* are the flags so far.
Csv == Lookup(asked.tag)

ReadUpTo(p) ==
  /\ todo = From(Csv, p) /\ (p = 1 \/ p = Len(Csv) + 2 \/ Csv[p - 1] = Comma)
  /\ p # 1 => asked.composable
  /\ \A i \in WordsBefore(Csv, p) : Known(In(Csv, i))
  /\ flags = {Bit(In(Csv, i)) : i \in WordsBefore(Csv, p)}

FlagsInv ==
  /\ stage \in {"target", "parts", "queries", "parsed"} => flags = {}
  /\ stage = "flags" => \E p \in 1 .. Len(Csv) + 2 : ReadUpTo(p)
  /\ FlagsAsListed

\* The words that count: all of them, or the first.
Counting(csv, composable) == IF composable THEN Words(csv) ELSE {i \in Words(csv) : i[1] = 1}

ListedIn(csv, composable, at, bits) ==
  at \in {"read", "refused"} =>
    /\ at = "refused" <=> \E i \in Counting(csv, composable) : ~Known(In(csv, i))
    /\ at = "read" => bits = {Bit(In(csv, i)) : i \in Counting(csv, composable)}

LEMMA FlagsAsListedIs ==
  /\ FlagsAsListed <=> ListedIn(Csv, asked.composable, stage, flags)
  /\ FlagsAsListed' <=> ListedIn(Csv', asked'.composable, stage', flags')
BY DEF FlagsAsListed, ListedIn, Counting, Words, Csv

\* A flag is read from the word at p.
LEMMA ReadMore ==
  ASSUME TextsOK, NEW p \in 1 .. Len(Csv) + 2, ReadUpTo(p), todo # <<>>
  PROVE  /\ p \in 1 .. Len(Csv) /\ (p = 1 \/ Csv[p - 1] = Comma)
         /\ \E q : WordAt(Csv, p, q)
<1>1. Csv \in Texts /\ Len(Csv) \in Nat
  BY LookupText DEF Csv, Texts
<1>2. p \in 1 .. Len(Csv)
  <2>1. CASE p > Len(Csv)
    <3>1. SubSeq(Csv, p, Len(Csv)) = <<>>
      BY <1>1, <2>1, SubSeqEmpty
    <3> QED
      BY <3>1 DEF ReadUpTo, From
  <2> QED
    BY <1>1, <2>1
<1>3. p = 1 \/ Csv[p - 1] = Comma
  BY <1>1, <1>2 DEF ReadUpTo
<1> QED
  BY <1>1, <1>2, <1>3, WordIs

\* Past its word there is nothing else before the next position.
LEMMA NextWord ==
  ASSUME NEW csv \in Texts, NEW p \in 1 .. Len(csv), NEW q, WordAt(csv, p, q)
  PROVE  WordsBefore(csv, q + 2) = WordsBefore(csv, p) \cup {<<p, q>>}
<1>1. Len(csv) \in Nat /\ q \in Int /\ p <= q + 1
  BY DEF WordAt, Texts
<1>2. \A i \in Words(csv) : i[1] \in Nat
  BY <1>1 DEF Words, Fields
<1>3. \A i \in Words(csv) : i[1] < q + 2 => i[1] < p \/ i = <<p, q>>
  BY <1>1, <1>2 DEF WordAt
<1>4. <<p, q>> \in Words(csv) /\ <<p, q>>[1] < q + 2
  BY <1>1 DEF WordAt
<1>5. \A i \in Words(csv) : i[1] < p => i[1] < q + 2
  BY <1>1, <1>2
<1> QED
  BY <1>3, <1>4, <1>5 DEF WordsBefore

LEMMA FlagsInit == TextInit => FlagsInv
BY DEF TextInit, Reading, FlagsInv, FlagsAsListed

LEMMA FlagsStep == TextsOK /\ FlagsInv /\ [TextNext]_allVars => FlagsInv'
<1> SUFFICES ASSUME TextsOK, FlagsInv, [TextNext]_allVars PROVE FlagsInv'
  OBVIOUS
\* Before the flags are read there are none.
<1>1. ASSUME flags' = flags, stage' \notin {"flags", "read", "refused"},
             stage' \in {"target", "parts", "queries", "parsed"}
               => stage \in {"target", "parts", "queries", "parsed"}
      PROVE  FlagsInv'
  BY <1>1 DEF FlagsInv, FlagsAsListed
<1>2. CASE UNCHANGED <<stage, todo, queries, asked, flags>>
  <2>1. Csv' = Csv /\ \A p : ReadUpTo(p)' <=> ReadUpTo(p)
    BY <1>2 DEF Csv, Lookup, ReadUpTo
  <2>2. FlagsAsListed' <=> FlagsAsListed
    BY <1>2, <2>1, FlagsAsListedIs
  <2> QED
    BY <1>2, <2>1, <2>2 DEF FlagsInv
<1>3. CASE MatchTarget \/ TakePart \/ PartsDone \/ TakeQuery \/ QueriesDone
  BY <1>1, <1>3 DEF MatchTarget, TakePart, PartsDone, TakeQuery, QueriesDone
<1>4. CASE ReadHeader \/ TakeCoding \/ CodingsDone \/ HandleCompression
  BY <1>1, <1>4 DEF ReadHeader, TakeCoding, CodingsDone, HandleCompression, Compress
<1>5. CASE ReadFlags
  <2>1. stage = "parsed" /\ stage' = "flags" /\ todo' = Csv' /\ UNCHANGED <<queries, flags>>
    BY <1>5 DEF ReadFlags, Csv, Lookup
  <2>2. TextsOK'
    BY TextsStep
  <2>3. Csv' \in Texts /\ Len(Csv') \in Nat
    BY <2>1, <2>2 DEF TextsOK, Texts
  <2>4. From(Csv', 1) = Csv'
    BY <2>3, SubSeqFull DEF From, Texts
  <2>5. WordsBefore(Csv', 1) = {}
    BY <2>3 DEF WordsBefore, Words, Fields
  <2>6. flags' = {}
    BY <2>1 DEF FlagsInv
  <2>7. ReadUpTo(1)'
    BY <2>1, <2>4, <2>5, <2>6 DEF ReadUpTo
  <2>8. 1 \in 1 .. Len(Csv') + 2
    BY <2>3
  <2> QED
    BY <2>1, <2>7, <2>8 DEF FlagsInv, FlagsAsListed
<1>6. ASSUME stage = "flags" PROVE \E p \in 1 .. Len(Csv) + 2 : ReadUpTo(p)
  BY <1>6 DEF FlagsInv
<1>7. Csv \in Texts /\ Len(Csv) \in Nat
  BY LookupText DEF Csv, Texts
\* One of several: the loop goes on behind the word.
<1>8. CASE TakeFlag
  <2>1. /\ stage = "flags" /\ todo # <<>> /\ asked.composable /\ Known(Deref(todo))
        /\ flags' = flags \cup {Bit(Deref(todo))} /\ todo' = Advance(todo)
        /\ UNCHANGED <<stage, queries, asked>>
    BY <1>8 DEF TakeFlag
  <2>2. PICK p \in 1 .. Len(Csv) + 2 : ReadUpTo(p)
    BY <1>6, <2>1
  <2>3. p \in 1 .. Len(Csv) /\ \E q : WordAt(Csv, p, q)
    BY <2>1, <2>2, ReadMore
  <2>4. PICK q : WordAt(Csv, p, q)
    BY <2>3
  <2>5. todo = From(Csv, p) /\ Known(In(Csv, <<p, q>>)) /\ Deref(todo) = In(Csv, <<p, q>>)
        /\ Advance(todo) = From(Csv, q + 2)
    BY <2>1, <2>2, <2>4 DEF ReadUpTo, WordAt
  <2>6. WordsBefore(Csv, q + 2) = WordsBefore(Csv, p) \cup {<<p, q>>}
    BY <1>7, <2>3, <2>4, NextWord
  <2>7. \A i \in WordsBefore(Csv, q + 2) : Known(In(Csv, i))
    BY <2>2, <2>5, <2>6 DEF ReadUpTo
  <2>8. flags' = {Bit(In(Csv, i)) : i \in WordsBefore(Csv, q + 2)}
    BY <2>1, <2>2, <2>5, <2>6 DEF ReadUpTo
  <2>9. q \in Int /\ q + 2 \in 1 .. Len(Csv) + 2 /\ (q = Len(Csv) \/ Csv[q + 1] = Comma) /\ q + 2 - 1 = q + 1
    BY <1>7, <2>3, <2>4 DEF WordAt
  <2>10. Csv' = Csv
    BY <2>1 DEF Csv, Lookup
  <2>11. ReadUpTo(q + 2)'
    BY <2>1, <2>5, <2>7, <2>8, <2>9, <2>10 DEF ReadUpTo
  <2> QED
    BY <2>1, <2>9, <2>10, <2>11 DEF FlagsInv, FlagsAsListed
\* Only one: it is the first word.
<1>9. CASE TakeOnlyFlag
  <2>1. /\ stage = "flags" /\ todo # <<>> /\ ~asked.composable /\ Known(Deref(todo))
        /\ flags' = {Bit(Deref(todo))} /\ stage' = "read"
        /\ UNCHANGED <<queries, asked>>
    BY <1>9 DEF TakeOnlyFlag
  <2>2. PICK p \in 1 .. Len(Csv) + 2 : ReadUpTo(p)
    BY <1>6, <2>1
  <2>3. p = 1 /\ p \in 1 .. Len(Csv) /\ \E q : WordAt(Csv, p, q)
    BY <2>1, <2>2, ReadMore DEF ReadUpTo
  <2>4. PICK q : WordAt(Csv, p, q)
    BY <2>3
  <2>5. todo = From(Csv, p) /\ Known(In(Csv, <<p, q>>)) /\ Deref(todo) = In(Csv, <<p, q>>)
    BY <2>1, <2>2, <2>4 DEF ReadUpTo, WordAt
  <2>6. \A i \in Words(Csv) : i[1] = 1 <=> i = <<p, q>>
    BY <2>3, <2>4 DEF WordAt
  <2>7. Counting(Csv, asked.composable) = {<<p, q>>}
    BY <2>1, <2>4, <2>6 DEF Counting, WordAt
  <2>8. Csv' = Csv
    BY <2>1 DEF Csv, Lookup
  <2>9. FlagsAsListed'
    BY <2>1, <2>5, <2>7, <2>8, FlagsAsListedIs DEF ListedIn
  <2> QED
    BY <2>1, <2>9 DEF FlagsInv
\* None: the word at p is not known, and counts.
<1>10. CASE RefuseFlag
  <2>1. /\ stage = "flags" /\ todo # <<>> /\ ~Known(Deref(todo)) /\ stage' = "refused"
        /\ UNCHANGED <<queries, asked>>
    BY <1>10 DEF RefuseFlag
  <2>2. PICK p \in 1 .. Len(Csv) + 2 : ReadUpTo(p)
    BY <1>6, <2>1
  <2>3. PICK q : WordAt(Csv, p, q)
    BY <2>1, <2>2, ReadMore
  <2>4. <<p, q>> \in Words(Csv) /\ ~Known(In(Csv, <<p, q>>)) /\ (asked.composable \/ p = 1)
    BY <2>1, <2>2, <2>3 DEF ReadUpTo, WordAt
  <2>5. <<p, q>> \in Counting(Csv, asked.composable)
    BY <2>4 DEF Counting
  <2>6. Csv' = Csv
    BY <2>1 DEF Csv, Lookup
  <2>7. FlagsAsListed'
    BY <2>1, <2>4, <2>5, <2>6, FlagsAsListedIs DEF ListedIn
  <2> QED
    BY <2>1, <2>7 DEF FlagsInv
\* All: what is left is no word.
<1>11. CASE FlagsDone
  <2>1. stage = "flags" /\ todo = <<>> /\ stage' = "read" /\ UNCHANGED <<queries, asked, flags>>
    BY <1>11 DEF FlagsDone
  <2>2. PICK p \in 1 .. Len(Csv) + 2 : ReadUpTo(p)
    BY <1>6, <2>1
  <2>3. p > Len(Csv)
    <3>1. CASE p \in 1 .. Len(Csv)
      <4>1. IsPiece(From(Csv, p), Csv, p, Len(Csv))
        BY <1>7, <3>1, FromIs
      <4>2. Len(todo) = Len(Csv) - p + 1 /\ Len(todo) = 0
        BY <2>1, <2>2, <4>1 DEF IsPiece, ReadUpTo
      <4> QED
        BY <1>7, <3>1, <4>2
    <3> QED
      BY <1>7, <3>1
  <2>4. ASSUME NEW i \in Words(Csv) PROVE i[1] < p
    <3>1. /\ i[1] \in 1 .. Len(Csv) + 1 /\ i[2] \in 0 .. Len(Csv) /\ i[1] <= i[2] + 1
          /\ In(Csv, i) # <<>> \/ i[2] < Len(Csv)
      BY <1>7 DEF Words, Fields
    <3>2. CASE i[1] = Len(Csv) + 1
      <4>1. i[2] = Len(Csv) /\ In(Csv, i) = <<>>
        BY <1>7, <3>1, <3>2, SubSeqEmpty DEF In
      <4> QED
        BY <1>7, <3>1, <4>1
    <3> QED
      BY <1>7, <2>3, <3>1, <3>2
  <2>5. WordsBefore(Csv, p) = Words(Csv)
    BY <2>4 DEF WordsBefore
  <2>6. Counting(Csv, asked.composable) = Words(Csv)
    <3>1. CASE asked.composable
      BY <3>1 DEF Counting
    <3>2. CASE ~asked.composable
      <4>1. p = 1
        BY <2>2, <3>2 DEF ReadUpTo
      <4>2. Words(Csv) = {}
        BY <1>7, <2>4, <4>1 DEF Words, Fields
      <4> QED
        BY <4>2 DEF Counting
    <3> QED
      BY <3>1, <3>2
  <2>7. Csv' = Csv
    BY <2>1 DEF Csv, Lookup
  <2>8. \A i \in Words(Csv) : Known(In(Csv, i))
    BY <2>2, <2>5 DEF ReadUpTo
  <2>9. flags = {Bit(In(Csv, i)) : i \in Words(Csv)}
    BY <2>2, <2>5 DEF ReadUpTo
  <2>10. FlagsAsListed'
    BY <2>1, <2>6, <2>7, <2>8, <2>9, FlagsAsListedIs DEF ListedIn
  <2> QED
    BY <2>1, <2>10 DEF FlagsInv
<1> QED
  BY <1>2, <1>3, <1>4, <1>5, <1>8, <1>9, <1>10, <1>11
  DEF TextNext, ReadTarget, ReadQuery, Negotiate, allVars, textVars

\* Whatever stands between the commas of a query of any length, the flags that
\* target_get_composable_flag() reads (flagwork.hpp) are those of its words, and
\* one word that is none refuses them all.
THEOREM FlagsAreThoseListed == TextSpec => []FlagsAsListed
<1>1. FlagsInv => FlagsAsListed
  BY DEF FlagsInv
<1> QED
  BY <1>1, TextsHold, FlagsInit, FlagsStep, PTL DEF TextSpec

-----------------------------------------------------------------------------
(* The encoding of the answer *)

LEMMA LastIs ==
  ASSUME NEW s \in Texts, NEW w
  PROVE  LET m == SelectLastInSeq(s, LAMBDA d : d = w) IN
         /\ m \in 0 .. Len(s)
         /\ m > 0 => s[m] = w
         /\ \A k \in m + 1 .. Len(s) : s[k] # w
<1> DEFINE m == SelectLastInSeq(s, LAMBDA d : d = w)
           I == {i \in 1 .. Len(s) : s[i] = w}
<1> SUFFICES /\ m \in 0 .. Len(s)
             /\ m > 0 => s[m] = w
             /\ \A k \in m + 1 .. Len(s) : s[k] # w
  OBVIOUS
<1>1. Len(s) \in Nat
  BY DEF Texts
<1>2. m = IF I # {} THEN Max(I) ELSE 0
  BY DEF SelectLastInSeq
<1>3. I # {} => Max(I) \in I /\ \A k \in I : Max(I) >= k
  <2>1. I \in SUBSET (0 .. Len(s))
    BY <1>1
  <2> HIDE DEF I
  <2> QED
    BY <1>1, <2>1, MaxIs
<1>4. CASE I = {}
  <2>1. m = 0 /\ \A k \in 1 .. Len(s) : s[k] # w
    BY <1>2, <1>4
  <2> HIDE DEF m
  <2> QED
    BY <1>1, <2>1
<1>5. CASE I # {}
  <2>1. m \in I /\ \A k \in I : m >= k
    BY <1>2, <1>3, <1>5
  <2> HIDE DEF m
  <2>2. m \in 1 .. Len(s) /\ s[m] = w
    BY <2>1
  <2>3. ASSUME NEW k \in m + 1 .. Len(s) PROVE s[k] # w
    <3>1. k \in 1 .. Len(s) /\ ~(m >= k)
      BY <1>1, <2>2
    <3>2. k \notin I
      BY <2>1, <3>1
    <3> QED
      BY <3>1, <3>2
  <2> QED
    BY <1>1, <2>2, <2>3
<1> QED
  BY <1>4, <1>5

\* What a header asks of the answer.
EncodedBy(s, at, o) ==
  at = "sent" =>
    /\ ForbiddenBy(s) => ~o.ok
    /\ o.ok /\ o.header = "none" => Range(s) \cap {"gzip", "deflate"} = {}
    /\ o.header # "none" => o.header \in Range(s) /\ o.ok
    /\ o.header = "deflate" => "gzip" \notin Range(s)
    /\ o.room => o.body = [none |-> "json", gzip |-> "gzip", deflate |-> "zlib"][o.header]
    /\ ~o.room => o.header # "none"

LEMMA EncodedAsAskedIs ==
  /\ EncodedAsAsked <=> EncodedBy(given, stage, out)
  /\ EncodedAsAsked' <=> EncodedBy(given', stage', out')
BY DEF EncodedAsAsked, EncodedBy

LEMMA NothingForbidden ==
  ASSUME NEW s, s = <<>>
  PROVE  ~ForbiddenBy(s) /\ Range(s) = {}
<1>1. s \in Texts /\ Len(s) = 0
  BY DEF Texts
<1> DEFINE last == SelectLastInSeq(s, LAMBDA w : w = "identity")
<1>2. s \in Texts
  BY <1>1
<1>3. /\ last \in 0 .. Len(s)
      /\ last > 0 => s[last] = "identity"
      /\ \A k \in last + 1 .. Len(s) : s[k] # "identity"
  BY ONLY <1>2, LastIs
<1>4. ForbiddenBy(s) => last > 0
  BY DEF ForbiddenBy
<1> HIDE DEF last
<1>5. ~ForbiddenBy(s)
  BY <1>1, <1>3, <1>4
<1>6. Range(s) = {}
  BY DEF Range
<1> QED
  BY <1>5, <1>6

\* The weight behind the kth word of the header.
WeightAt(k) == IF k < Len(given) /\ given[k + 1] = ZeroWeight THEN 0 ELSE 1

\* The words before p are accepted, the identity with its last weight.
AcceptedBefore(p) ==
  /\ DOMAIN accepted = {given[k] : k \in {j \in 1 .. p - 1 : given[j] \in Codings}}
  /\ "identity" \in DOMAIN accepted =>
       \E k \in 1 .. p - 1 :
         /\ given[k] = "identity" /\ accepted["identity"] = WeightAt(k)
         /\ \A j \in k + 1 .. p - 1 : given[j] # "identity"

CodingsInv ==
  /\ stage = "header" => accepted = Empty
  /\ stage = "codings" =>
       \E p \in 1 .. Len(given) + 1 : todo = From(given, p) /\ AcceptedBefore(p)
  /\ stage = "negotiate" => AcceptedBefore(Len(given) + 1)
  /\ stage \in {"header", "codings", "negotiate"} => out = PlainBody
  /\ EncodedAsAsked

\* The next word that names an encoding, and what of it is read.
LEMMA NextCoding ==
  ASSUME NEW p \in 1 .. Len(given) + 1, given \in Texts, todo = From(given, p)
  PROVE  LET n == Min(CodingStarts(todo))
             m == p + n - 1
             s == From(todo, n)
         IN
         /\ CodingStarts(todo) # {} =>
              /\ m \in p .. Len(given) /\ given[m] \in Codings
              /\ \A j \in p .. m - 1 : given[j] \notin Codings
              /\ Head(s) = given[m] /\ Weight(s) = WeightAt(m) /\ Tail(s) = From(given, m + 1)
         /\ CodingStarts(todo) = {} => \A j \in p .. Len(given) : given[j] \notin Codings
<1> DEFINE n == Min(CodingStarts(todo))
           m == p + n - 1
           s == From(todo, n)
<1>1. Len(given) \in Nat
  BY DEF Texts
<1>2. IsPiece(todo, given, p, Len(given))
  BY <1>1, FromIs
<1>3. todo \in Texts /\ Len(todo) = Len(given) - p + 1 /\ \A k \in 1 .. Len(todo) : todo[k] = given[p + k - 1]
  BY <1>2 DEF IsPiece
<1>4. ASSUME NEW j \in p .. Len(given)
      PROVE  j - p + 1 \in 1 .. Len(todo) /\ todo[j - p + 1] = given[j]
  <2>1. j - p + 1 \in 1 .. Len(todo) /\ p + (j - p + 1) - 1 = j
    BY <1>1, <1>3
  <2> QED
    BY <1>3, <2>1
<1>5. CASE CodingStarts(todo) # {}
  <2>1. /\ n \in 1 .. Len(todo) /\ todo[n] \in Codings
        /\ \A k \in 1 .. n - 1 : todo[k] \notin Codings
    BY <1>3, <1>5, CodingStart
  <2> HIDE DEF n
  <2>2. m \in p .. Len(given) /\ given[m] \in Codings
    BY <1>1, <1>3, <2>1
  <2>3. ASSUME NEW j \in p .. m - 1 PROVE given[j] \notin Codings
    <3>1. m = p + n - 1
      OBVIOUS
    <3>2. j \in p .. Len(given) /\ j - p + 1 \in 1 .. n - 1
      BY <1>1, <2>1, <2>2, <3>1
    <3> QED
      BY <1>4, <2>1, <3>2
  <2>4. s = From(given, m)
    <3>1. n \in 1 .. Len(given) + 2 - p
      BY <1>1, <1>3, <2>1
    <3> QED
      BY <3>1, FromFrom
  <2>5. IsPiece(s, given, m, Len(given)) /\ m \in 1 .. Len(given)
    BY <1>1, <2>2, <2>4, FromIs
  <2> HIDE DEF s, m
  <2>6. s \in Texts /\ Len(s) = Len(given) - m + 1 /\ Len(s) > 0 /\ s[1] = given[m]
        /\ (Len(s) > 1 => s[2] = given[m + 1])
    BY <1>1, <2>5 DEF IsPiece
  <2>7. Head(s) = given[m]
    BY <2>6 DEF Texts
  <2>8. Weight(s) = WeightAt(m)
    <3>1. Len(s) > 1 <=> m < Len(given)
      BY <1>1, <2>5, <2>6
    <3> QED
      BY <2>6, <3>1 DEF Weight, WeightAt
  <2>9. Tail(s) = From(given, m + 1)
    <3>1. m \in 1 .. Len(given) /\ Len(given) \in m .. Len(given)
      BY <1>1, <2>5
    <3>2. Tail(SubSeq(given, m, Len(given))) = SubSeq(given, m + 1, Len(given))
      BY <3>1, HeadTailOfSubSeq DEF Texts
    <3> QED
      BY <2>4, <3>2 DEF From
  <2> QED
    BY <1>5, <2>2, <2>3, <2>7, <2>8, <2>9 DEF m, s, n
<1>6. CASE CodingStarts(todo) = {}
  <2>1. \A k \in 1 .. Len(todo) : todo[k] \notin Codings
    BY <1>6 DEF CodingStarts
  <2>2. \A j \in p .. Len(given) : given[j] \notin Codings
    BY <1>4, <2>1
  <2> QED
    BY <1>6, <2>2
<1> QED
  BY <1>5, <1>6

LEMMA CodingsInit == TextInit => CodingsInv
BY EncodedAsAskedIs DEF TextInit, Reading, CodingsInv, EncodedBy

LEMMA WhenForbidden ==
  ASSUME given \in Texts, AcceptedBefore(Len(given) + 1)
  PROVE  Forbidden <=> ForbiddenBy(given)
<1> DEFINE last == SelectLastInSeq(given, LAMBDA w : w = "identity")
<1>1. Len(given) \in Nat
  BY DEF Texts
<1>2. /\ last \in 0 .. Len(given)
      /\ last > 0 => given[last] = "identity"
      /\ \A k \in last + 1 .. Len(given) : given[k] # "identity"
  BY LastIs
<1>3. ForbiddenBy(given) <=> last > 0 /\ last < Len(given) /\ given[last + 1] = ZeroWeight
  BY DEF ForbiddenBy
<1> HIDE DEF last
<1>4. CASE last = 0
  <2>1. "identity" \notin DOMAIN accepted
    BY <1>1, <1>2, <1>4 DEF AcceptedBefore
  <2> QED
    BY <1>3, <1>4, <2>1 DEF Forbidden
<1>5. CASE last > 0
  <2>1. last \in 1 .. Len(given) + 1 - 1 /\ given[last] = "identity" /\ "identity" \in Codings
    BY <1>1, <1>2, <1>5, CodingsAssumption
  <2>2. "identity" \in DOMAIN accepted
    BY <2>1 DEF AcceptedBefore
  <2>3. PICK k \in 1 .. Len(given) + 1 - 1 :
          /\ given[k] = "identity" /\ accepted["identity"] = WeightAt(k)
          /\ \A j \in k + 1 .. Len(given) + 1 - 1 : given[j] # "identity"
    BY <2>2 DEF AcceptedBefore
  <2>4. k = last
    <3>1. ~(k > last) /\ ~(k < last)
      BY <1>1, <1>2, <2>1, <2>3
    <3> QED
      BY <1>1, <1>2, <2>3, <3>1
  <2>5. accepted["identity"] = WeightAt(last)
    BY <2>3, <2>4
  <2>6. WeightAt(last) = 0 <=> last < Len(given) /\ given[last + 1] = ZeroWeight
    BY DEF WeightAt
  <2> QED
    BY <1>3, <1>5, <2>2, <2>5, <2>6 DEF Forbidden
<1> QED
  BY <1>1, <1>2, <1>4, <1>5

\* What compress() leaves of an answer.
Encodes(o, coding, format) ==
  \/ o.ok = FALSE /\ o.header = "none" /\ o.body = "json" /\ o.room = TRUE
  \/ o.ok = TRUE /\ o.header = coding /\ (o.body = format \/ o.room = FALSE)

LEMMA CompressEncodes ==
  ASSUME NEW coding, NEW format, Compress(coding, format)
  PROVE  Encodes(out', coding, format)
<1>1. CASE out' = [PlainBody EXCEPT !.ok = FALSE]
  BY <1>1 DEF PlainBody, Encodes
<1>2. CASE out' = [PlainBody EXCEPT !.header = coding, !.body = format]
  BY <1>2 DEF PlainBody, Encodes
<1>3. ASSUME NEW body, out' = [header |-> coding, body |-> body, ok |-> TRUE, room |-> FALSE]
      PROVE  Encodes(out', coding, format)
  BY <1>3 DEF Encodes
<1> QED
  BY <1>1, <1>2, <1>3 DEF Compress

LEMMA CodingsStep == TextsOK /\ CodingsInv /\ [TextNext]_allVars => CodingsInv'
<1> SUFFICES ASSUME TextsOK, CodingsInv, [TextNext]_allVars PROVE CodingsInv'
  OBVIOUS
<1>1. given \in Texts /\ Len(given) \in Nat
  BY DEF TextsOK, Texts
<1>2. CASE UNCHANGED <<stage, given, todo, accepted, out>>
  <2>1. EncodedAsAsked'
    BY <1>2, EncodedAsAskedIs DEF CodingsInv
  <2>2. (\A k : WeightAt(k)' = WeightAt(k)) /\ \A p : AcceptedBefore(p)' <=> AcceptedBefore(p)
    BY <1>2 DEF AcceptedBefore, WeightAt
  <2> QED
    BY <1>2, <2>1, <2>2 DEF CodingsInv
<1>3. ASSUME stage' \notin {"header", "codings", "negotiate", "sent"} PROVE CodingsInv'
  BY <1>3, EncodedAsAskedIs DEF CodingsInv, EncodedBy
<1>4. CASE MatchTarget \/ PartsDone \/ QueriesDone \/ ReadFlags \/ TakeOnlyFlag \/ RefuseFlag \/ FlagsDone
  BY <1>3, <1>4 DEF MatchTarget, PartsDone, QueriesDone, ReadFlags, TakeOnlyFlag, RefuseFlag, FlagsDone
<1>5. CASE TakePart \/ TakeQuery \/ TakeFlag
  BY <1>3, <1>5 DEF TakePart, TakeQuery, TakeFlag
<1>6. CASE ReadHeader
  <2>1. stage = "header" /\ accepted = Empty /\ out = PlainBody /\ UNCHANGED <<given, accepted, out>>
    BY <1>6 DEF ReadHeader, CodingsInv
  <2>2. CASE given = <<>> /\ stage' = "sent"
    <3>1. given' = <<>> /\ out' = PlainBody
      BY <2>1, <2>2
    <3>2. EncodedBy(given', stage', out')
      BY <3>1, NothingForbidden DEF EncodedBy, PlainBody
    <3> QED
      BY <2>2, <3>2, EncodedAsAskedIs DEF CodingsInv
  <2>3. CASE stage' = "codings" /\ todo' = given
    <3>1. From(given, 1) = given
      BY <1>1, SubSeqFull DEF From, Texts
    <3>2. AcceptedBefore(1)'
      BY <2>1 DEF AcceptedBefore, Empty
    <3>3. 1 \in 1 .. Len(given) + 1
      BY <1>1
    <3> QED
      BY <2>1, <2>3, <3>1, <3>2, <3>3, EncodedAsAskedIs DEF CodingsInv, EncodedBy
  <2> QED
    BY <1>6, <2>2, <2>3 DEF ReadHeader
<1>7. CASE TakeCoding
  <2> DEFINE n == Min(CodingStarts(todo))
             s == From(todo, n)
  <2>1. /\ stage = "codings" /\ CodingStarts(todo) # {} /\ out = PlainBody
        /\ accepted' = Assigned(accepted, Head(s), Weight(s)) /\ todo' = Tail(s)
        /\ UNCHANGED <<stage, given, out>>
    BY <1>7 DEF TakeCoding, CodingsInv
  <2>2. PICK p \in 1 .. Len(given) + 1 : todo = From(given, p) /\ AcceptedBefore(p)
    BY <2>1 DEF CodingsInv
  <2>3. PICK m \in p .. Len(given) :
          /\ given[m] \in Codings /\ \A j \in p .. m - 1 : given[j] \notin Codings
          /\ Head(s) = given[m] /\ Weight(s) = WeightAt(m) /\ Tail(s) = From(given, m + 1)
    BY <1>1, <2>1, <2>2, NextCoding
  <2> HIDE DEF n, s
  <2>4. m \in 1 .. Len(given) /\ m + 1 \in 1 .. Len(given) + 1 /\ m + 1 - 1 = m
    BY <1>1, <2>3
  <2>5. DOMAIN accepted' = DOMAIN accepted \cup {given[m]}
    BY <2>1, <2>3 DEF Assigned
  <2>6. {j \in 1 .. m : given[j] \in Codings} = {j \in 1 .. p - 1 : given[j] \in Codings} \cup {m}
    <3>1. \A j \in 1 .. m : j \in 1 .. p - 1 \/ j \in p .. m - 1 \/ j = m
      BY <1>1, <2>3
    <3>2. \A j \in 1 .. p - 1 : j \in 1 .. m
      BY <1>1, <2>3
    <3> QED
      BY <2>3, <2>4, <3>1, <3>2
  <2>7. DOMAIN accepted' = {given[k] : k \in {j \in 1 .. m : given[j] \in Codings}}
    BY <2>2, <2>5, <2>6 DEF AcceptedBefore
  <2>8. ASSUME "identity" \in DOMAIN accepted'
        PROVE  \E k \in 1 .. m :
                 /\ given[k] = "identity" /\ accepted'["identity"] = WeightAt(k)
                 /\ \A j \in k + 1 .. m : given[j] # "identity"
    <3>1. CASE given[m] = "identity"
      <4>1. accepted'["identity"] = WeightAt(m)
        BY <2>1, <2>3, <3>1 DEF Assigned
      <4>2. m \in 1 .. m /\ \A j \in m + 1 .. m : given[j] # "identity"
        BY <2>4
      <4> QED
        BY <3>1, <4>1, <4>2
    <3>2. CASE given[m] # "identity"
      <4>1. "identity" \in DOMAIN accepted /\ accepted'["identity"] = accepted["identity"]
        BY <2>1, <2>3, <2>5, <2>8, <3>2 DEF Assigned
      <4>2. PICK k \in 1 .. p - 1 :
              /\ given[k] = "identity" /\ accepted["identity"] = WeightAt(k)
              /\ \A j \in k + 1 .. p - 1 : given[j] # "identity"
        BY <2>2, <4>1 DEF AcceptedBefore
      <4>3. ASSUME NEW j \in k + 1 .. m PROVE given[j] # "identity"
        <5>1. j \in k + 1 .. p - 1 \/ j \in p .. m - 1 \/ j = m
          BY <1>1, <2>3
        <5> QED
          BY <2>3, <3>2, <4>2, <5>1, CodingsAssumption
      <4>4. k \in 1 .. m
        BY <1>1, <2>3
      <4> QED
        BY <4>1, <4>2, <4>3, <4>4
    <3> QED
      BY <3>1, <3>2
  <2>9. AcceptedBefore(m + 1)'
    <3>1. \A k : WeightAt(k)' = WeightAt(k)
      BY <2>1 DEF WeightAt
    <3>2. AcceptedBefore(m + 1)' <=>
            /\ DOMAIN accepted' = {given[k] : k \in {j \in 1 .. m : given[j] \in Codings}}
            /\ "identity" \in DOMAIN accepted' =>
                 \E k \in 1 .. m :
                   /\ given[k] = "identity" /\ accepted'["identity"] = WeightAt(k)
                   /\ \A j \in k + 1 .. m : given[j] # "identity"
      BY <2>1, <2>4, <3>1 DEF AcceptedBefore
    <3> QED
      BY <2>7, <2>8, <3>2
  <2> QED
    BY <2>1, <2>3, <2>4, <2>9, EncodedAsAskedIs DEF CodingsInv, EncodedBy
<1>8. CASE CodingsDone
  <2>1. stage = "codings" /\ CodingStarts(todo) = {} /\ stage' = "negotiate" /\ out = PlainBody
        /\ UNCHANGED <<given, accepted, out>>
    BY <1>8 DEF CodingsDone, CodingsInv
  <2>2. PICK p \in 1 .. Len(given) + 1 : todo = From(given, p) /\ AcceptedBefore(p)
    BY <2>1 DEF CodingsInv
  <2>3. \A j \in p .. Len(given) : given[j] \notin Codings
    BY <1>1, <2>1, <2>2, NextCoding
  <2>4. \A j \in 1 .. Len(given) : j \in 1 .. p - 1 \/ j \in p .. Len(given)
    BY <1>1
  <2>5. \A j \in 1 .. p - 1 : j \in 1 .. Len(given)
    BY <1>1
  <2>6. {j \in 1 .. Len(given) : given[j] \in Codings} = {j \in 1 .. p - 1 : given[j] \in Codings}
    BY <2>3, <2>4, <2>5
  <2>7. ASSUME "identity" \in DOMAIN accepted
        PROVE  \E k \in 1 .. Len(given) :
                 /\ given[k] = "identity" /\ accepted["identity"] = WeightAt(k)
                 /\ \A j \in k + 1 .. Len(given) : given[j] # "identity"
    <3>1. PICK k \in 1 .. p - 1 :
              /\ given[k] = "identity" /\ accepted["identity"] = WeightAt(k)
              /\ \A j \in k + 1 .. p - 1 : given[j] # "identity"
      BY <2>2, <2>7 DEF AcceptedBefore
    <3>2. ASSUME NEW j \in k + 1 .. Len(given) PROVE given[j] # "identity"
      <4>1. j \in k + 1 .. p - 1 \/ j \in p .. Len(given)
        BY <1>1
      <4> QED
        BY <2>3, <3>1, <4>1, CodingsAssumption
    <3> QED
      BY <2>5, <3>1, <3>2
  <2>8. Len(given) + 1 - 1 = Len(given)
    BY <1>1
  <2>9. AcceptedBefore(Len(given) + 1)
    BY <2>2, <2>6, <2>7, <2>8 DEF AcceptedBefore
  <2>10. AcceptedBefore(Len(given) + 1)'
    BY <2>1, <2>9 DEF AcceptedBefore, WeightAt
  <2> QED
    BY <2>1, <2>10, EncodedAsAskedIs DEF CodingsInv, EncodedBy
<1>9. CASE HandleCompression
  <2>1. /\ stage = "negotiate" /\ AcceptedBefore(Len(given) + 1) /\ UNCHANGED given
        /\ stage' \in {"sent", "aborted"}
    BY <1>9 DEF HandleCompression, Compress, CodingsInv
  <2>2. Forbidden <=> ForbiddenBy(given)
    BY <1>1, <2>1, WhenForbidden
  <2>3. Range(given) = {given[k] : k \in 1 .. Len(given)}
    BY <1>1, RangeEquality DEF Texts
  <2>4. \A w \in {"gzip", "deflate"} : w \in DOMAIN accepted <=> w \in Range(given)
    <3>1. Len(given) + 1 - 1 = Len(given)
      BY <1>1
    <3> QED
      BY <2>1, <2>3, <3>1, CodingsAssumption DEF AcceptedBefore
  <2>5. EncodedBy(given, stage', out')
    <3>1. CASE Forbidden /\ out' = [PlainBody EXCEPT !.ok = FALSE]
      BY <2>2, <3>1 DEF PlainBody, EncodedBy
    <3>2. CASE ~Forbidden /\ "gzip" \in DOMAIN accepted /\ Compress("gzip", "gzip")
      <4>1. Encodes(out', "gzip", "gzip")
        BY <3>2, CompressEncodes
      <4> QED
        BY <2>2, <2>4, <3>2, <4>1 DEF Encodes, EncodedBy
    <3>3. CASE /\ ~Forbidden /\ "gzip" \notin DOMAIN accepted
               /\ "deflate" \in DOMAIN accepted /\ Compress("deflate", "zlib")
      <4>1. Encodes(out', "deflate", "zlib")
        BY <3>3, CompressEncodes
      <4> QED
        BY <2>2, <2>4, <3>3, <4>1 DEF Encodes, EncodedBy
    <3>4. CASE /\ ~Forbidden /\ DOMAIN accepted \cap {"gzip", "deflate"} = {}
               /\ out' = PlainBody
      BY <2>2, <2>4, <3>4 DEF PlainBody, EncodedBy
    <3> QED
      BY <1>9, <3>1, <3>2, <3>3, <3>4 DEF HandleCompression
  <2> QED
    BY <2>1, <2>5, EncodedAsAskedIs DEF CodingsInv
<1> QED
  BY <1>2, <1>4, <1>5, <1>6, <1>7, <1>8, <1>9
  DEF TextNext, ReadTarget, ReadQuery, Negotiate, allVars, textVars

\* handle_compression() encodes an answer as a header of any length asked, the
\* last weight of the identity counting, and sets the encoding it has; only a body
\* that compresses to more than its own length may not be what the header says.
THEOREM AnswersAreEncodedAsAsked == TextSpec => []EncodedAsAsked
<1>1. CodingsInv => EncodedAsAsked
  BY DEF CodingsInv
<1> QED
  BY <1>1, TextsHold, CodingsInit, CodingsStep, PTL DEF TextSpec

-----------------------------------------------------------------------------
(* The key of a result *)

\* c stands for the digit d.
IsDigit(c, d) == d \in 0 .. 15 /\ (c = lower[d + 1] \/ c = upper[d + 1])
Digits        == {lower[d + 1] : d \in 0 .. 15} \cup {upper[d + 1] : d \in 0 .. 15}

LEMMA DigitsAre == \A c : c \in Digits <=> \E d : IsDigit(c, d)
BY DEF Digits, IsDigit

LEMMA OneDigit ==
  ASSUME NEW c, NEW d, NEW e, IsDigit(c, d), IsDigit(c, e)
  PROVE  d = e
BY DEF IsDigit, lower, upper

LEMMA DigitIs ==
  ASSUME NEW c, NEW d, IsDigit(c, d)
  PROVE  /\ DigitValue(c) = d
         /\ d = CHOOSE e \in 0 .. 15 : c \in {lower[e + 1], upper[e + 1]}
<1>1. \A e : IsDigit(c, e) <=> e = d
  BY OneDigit
<1>2. d \in 0 .. 15 /\ \A e \in 0 .. 15 : c = lower[e + 1] \/ c = upper[e + 1] <=> e = d
  BY <1>1 DEF IsDigit
<1>3. d = CHOOSE e \in 0 .. 15 : c \in {lower[e + 1], upper[e + 1]}
  <2>1. \A e \in 0 .. 15 : c \in {lower[e + 1], upper[e + 1]} <=> e = d
    BY <1>2
  <2> QED
    BY <1>2, <2>1
<1>4. \A e \in 0 .. 9 : c = lower[e + 1] => e = d
  BY <1>2
<1>5. \A e \in 10 .. 15 : (c = lower[e + 1] \/ c = upper[e + 1]) => e = d
  <2>1. \A e \in 10 .. 15 : e \in 0 .. 15
    OBVIOUS
  <2> QED
    BY <1>2, <2>1
<1>6. \A e \in 0 .. 9 : lower[e + 1] = upper[e + 1]
  BY DEF lower, upper
<1>7. \/ d \in 0 .. 9 /\ c = lower[d + 1]
      \/ d \in 10 .. 15 /\ (c = lower[d + 1] \/ c = upper[d + 1])
  BY <1>2, <1>6 DEF IsDigit
<1>8. DigitValue(c) = d
  BY <1>2, <1>4, <1>5, <1>7 DEF DigitValue
<1> QED
  BY <1>3, <1>8

\* A key below 16 has one digit, and so has what is written of it.
SmallId == \A p \in Places \ {0} : id[p] = 0

\* What hex_encode_id() has left and written, what the client sends, and what
\* hex_decode_id() has made of it: the digits before next, the last one lowest.
KeyInv ==
  /\ pc = "encoding" =>
       /\ id \in [Places -> 0 .. 15] /\ rest \in [Places -> 0 .. 15] /\ next = 1 /\ ret = Zero
       /\ text \in Seq(Digits) /\ Len(text) <= Width
       /\ \A n \in 1 .. Len(text) : \E d \in 0 .. 15 : text[n] = lower[d + 1]
       /\ SmallId =>
            /\ text = <<>> => rest = id
            /\ text # <<>> => rest = Zero /\ text[Len(text)] = lower[id[0] + 1]
            /\ \A n \in 1 .. Len(text) - 1 : text[n] = lower[1]
  /\ pc = "decoding" =>
       /\ id \in [Places -> 0 .. 15] /\ ret \in [Places -> 0 .. 15]
       /\ text \in Seq(Digits) /\ Len(text) \in 1 .. Width /\ next \in 1 .. Len(text) + 1
       /\ \A p \in Places :
            ret[p] = IF p < next - 1 THEN DigitValue(text[next - 1 - p]) ELSE 0
       /\ SmallId =>
            /\ IsDigit(text[Len(text)], id[0])
            /\ \A n \in 1 .. Len(text) - 1 : IsDigit(text[n], 0)

LEMMA KeyInit == TextInit => KeyInv
<1>1. Len(<<>>) = 0 /\ <<>> \in Seq(Digits)
  OBVIOUS
<1>2. CASE Init
  <2>1. id \in [Places -> 0 .. 15]
    BY <1>2, NibblesAssumption DEF Init, Ids
  <2> QED
    BY <1>1, <1>2, <2>1 DEF Init, KeyInv, Width
<1>3. CASE NoKey
  BY <1>3 DEF NoKey, KeyInv
<1> QED
  BY <1>2, <1>3 DEF TextInit

LEMMA KeyEncode == KeyInv /\ EncodeDigit => KeyInv'
<1> SUFFICES ASSUME KeyInv, EncodeDigit PROVE KeyInv'
  OBVIOUS
<1> DEFINE c == lower[rest[0] + 1]
<1>1. /\ pc = "encoding" /\ Len(text) < Width /\ text' = <<c>> \o text
      /\ rest' = ShiftRight(rest, 4) /\ UNCHANGED <<pc, id, next, ret>>
  BY DEF EncodeDigit
<1>2. /\ id \in [Places -> 0 .. 15] /\ rest \in [Places -> 0 .. 15] /\ next = 1 /\ ret = Zero
      /\ text \in Seq(Digits)
      /\ \A n \in 1 .. Len(text) : \E d \in 0 .. 15 : text[n] = lower[d + 1]
      /\ SmallId =>
           /\ text = <<>> => rest = id
           /\ text # <<>> => rest = Zero /\ text[Len(text)] = lower[id[0] + 1]
           /\ \A n \in 1 .. Len(text) - 1 : text[n] = lower[1]
  BY <1>1 DEF KeyInv
<1>3. 0 \in Places /\ rest[0] \in 0 .. 15
  BY <1>2 DEF Places, Width
<1>4. c \in Digits
  BY <1>3 DEF Digits
<1> HIDE DEF c
<1>5. /\ text' \in Seq(Digits) /\ Len(text') = Len(text) + 1 /\ text'[1] = c
      /\ \A n \in 2 .. Len(text) + 1 : text'[n] = text[n - 1]
  BY <1>1, <1>2, <1>4
<1>6. Len(text) \in Nat /\ Len(text') <= Width /\ Width \in Nat
  BY <1>1, <1>2, <1>5 DEF Width
<1>7. \A n \in 2 .. Len(text) + 1 : n - 1 \in 1 .. Len(text)
  BY <1>6
<1>8. ASSUME NEW n \in 1 .. Len(text') PROVE \E d \in 0 .. 15 : text'[n] = lower[d + 1]
  <2>1. CASE n = 1
    BY <1>3, <1>5, <2>1 DEF c
  <2>2. CASE n # 1
    <3>1. n \in 2 .. Len(text) + 1
      BY <1>5, <1>6, <2>2
    <3> QED
      BY <1>2, <1>5, <1>7, <3>1
  <2> QED
    BY <2>1, <2>2
<1>9. rest' \in [Places -> 0 .. 15]
  BY <1>1, <1>2 DEF ShiftRight, Places, Width
<1>10. ASSUME SmallId
       PROVE  /\ text' # <<>> /\ rest' = Zero /\ text'[Len(text')] = lower[id[0] + 1]
              /\ \A n \in 1 .. Len(text') - 1 : text'[n] = lower[1]
  <2>1. text' # <<>>
    BY <1>5, <1>6
  <2>2. \A p \in Places : p + 4 < Width => p + 4 \in Places /\ rest[p + 4] = 0
    <3>1. \A p \in Places : p + 4 < Width => p + 4 \in Places \ {0}
      BY DEF Places, Width
    <3>2. \A p \in Places \ {0} : rest[p] = 0
      BY <1>2, <1>10 DEF SmallId, Zero
    <3> QED
      BY <3>1, <3>2
  <2>3. rest' = Zero
    BY <1>1, <2>2 DEF ShiftRight, Zero
  <2>4. CASE text = <<>>
    <3>1. Len(text') = 1 /\ c = lower[id[0] + 1]
      BY <1>2, <1>5, <1>10, <2>4 DEF c
    <3>2. \A n : n \notin 1 .. Len(text') - 1
      BY <3>1
    <3> QED
      BY <1>5, <2>1, <2>3, <3>1, <3>2
  <2>5. CASE text # <<>>
    <3>1. Len(text) > 0
      BY <1>2, <2>5
    <3>2. rest[0] = 0 /\ 0 + 1 = 1 /\ text[Len(text)] = lower[id[0] + 1]
          /\ \A n \in 1 .. Len(text) - 1 : text[n] = lower[1]
      BY <1>2, <1>3, <1>10, <2>5 DEF Zero
    <3>3. c = lower[1]
      BY <3>2 DEF c
    <3>4. text'[Len(text')] = text[Len(text)]
      BY <1>5, <1>6, <3>1
    <3>5. ASSUME NEW n \in 1 .. Len(text') - 1 PROVE text'[n] = lower[1]
      <4>1. n = 1 \/ (n \in 2 .. Len(text) + 1 /\ n - 1 \in 1 .. Len(text) - 1)
        BY <1>5, <1>6
      <4> QED
        BY <1>5, <3>2, <3>3, <4>1
    <3> QED
      BY <2>1, <2>3, <3>2, <3>4, <3>5
  <2> QED
    BY <2>4, <2>5
<1>11. SmallId' <=> SmallId
  BY <1>1 DEF SmallId
<1> QED
  BY <1>1, <1>2, <1>5, <1>6, <1>8, <1>9, <1>10, <1>11 DEF KeyInv

LEMMA KeyAsk == KeyInv /\ Ask => KeyInv'
<1> SUFFICES ASSUME KeyInv, Ask PROVE KeyInv'
  OBVIOUS
<1>1. pc = "encoding" /\ Len(text) = Width /\ pc' = "decoding" /\ UNCHANGED <<id, rest, next, ret>>
  BY DEF Ask
<1>2. /\ id \in [Places -> 0 .. 15] /\ next = 1 /\ ret = Zero /\ text \in Seq(Digits)
      /\ \A n \in 1 .. Len(text) : \E d \in 0 .. 15 : text[n] = lower[d + 1]
      /\ SmallId =>
           /\ text # <<>> => text[Len(text)] = lower[id[0] + 1]
           /\ \A n \in 1 .. Len(text) - 1 : text[n] = lower[1]
  BY <1>1 DEF KeyInv
<1>3. PICK m \in 1 .. Width : text' \in {SubSeq(text, m, Width), Capitals(SubSeq(text, m, Width))}
  BY DEF Ask, Shortened
<1> DEFINE s == SubSeq(text, m, Width)
<1>4. /\ s \in Seq(Digits) /\ Len(s) = Width - m + 1 /\ Len(s) \in 1 .. Width
      /\ \A n \in 1 .. Len(s) : s[n] = text[m + n - 1] /\ m + n - 1 \in 1 .. Width
  <2>1. Width = 8 /\ m \in 1 .. Len(text) + 1 /\ Width \in m - 1 .. Len(text)
    BY <1>1 DEF Width
  <2>2. /\ s \in Seq(Digits) /\ Len(s) = (IF m <= Width THEN Width - m + 1 ELSE 0)
        /\ \A n \in 1 .. Width - m + 1 : s[n] = text[m + n - 1]
    BY <1>2, <2>1, SubSeqProperties
  <2> HIDE DEF s
  <2> QED
    BY <2>1, <2>2
<1> HIDE DEF s
<1>5. \A n \in 1 .. Len(s) : \E d \in 0 .. 15 : s[n] = lower[d + 1]
  BY <1>1, <1>2, <1>4
<1>6. text' \in Seq(Digits) /\ Len(text') = Len(s)
      /\ \A n \in 1 .. Len(s), d \in 0 .. 15 : s[n] = lower[d + 1] => IsDigit(text'[n], d)
  <2>1. \A n \in 1 .. Len(s), d \in 0 .. 15 : s[n] = lower[d + 1] => IsDigit(s[n], d)
    BY DEF IsDigit
  <2>2. CASE text' = s
    BY <1>4, <2>1, <2>2
  <2>3. CASE text' = Capitals(s)
    <3>1. \A n \in 1 .. Len(s), d \in 0 .. 15 : s[n] = lower[d + 1] => DigitValue(s[n]) = d
      BY <2>1, DigitIs
    <3>2. DOMAIN s = 1 .. Len(s)
      BY <1>4
    <3>3. \A n \in 1 .. Len(s), d \in 0 .. 15 : s[n] = lower[d + 1] => text'[n] = upper[d + 1]
      BY <2>3, <3>1, <3>2 DEF Capitals
    <3>4. \A d \in 0 .. 15 : upper[d + 1] \in Digits
      BY DEF Digits
    <3>5. text' \in [1 .. Len(s) -> Digits]
      <4>1. \A n \in 1 .. Len(s) : upper[DigitValue(s[n]) + 1] \in Digits
        BY <1>5, <3>1, <3>4
      <4> QED
        BY <2>3, <3>2, <4>1 DEF Capitals
    <3>6. text' \in Seq(Digits) /\ Len(text') = Len(s)
      <4>1. Len(s) \in Nat
        BY <1>4
      <4> QED
        BY <3>5, <4>1
    <3>7. \A n \in 1 .. Len(s), d \in 0 .. 15 : s[n] = lower[d + 1] => IsDigit(text'[n], d)
      BY <3>3 DEF IsDigit
    <3> QED
      BY <3>6, <3>7
  <2> QED
    BY <1>3, <2>2, <2>3 DEF s
<1>7. ret \in [Places -> 0 .. 15] /\ \A p \in Places : ret[p] = 0 /\ ~(p < next - 1)
  BY <1>2 DEF Zero, Places, Width
<1>8. ASSUME SmallId
      PROVE  /\ IsDigit(text'[Len(text')], id[0])
             /\ \A n \in 1 .. Len(text') - 1 : IsDigit(text'[n], 0)
  <2>1. m + Len(s) - 1 = Width /\ Len(s) \in 1 .. Len(s) /\ 0 \in Places /\ id[0] \in 0 .. 15
    BY <1>2, <1>4 DEF Places, Width
  <2>2. text # <<>>
    BY <1>1 DEF Width
  <2>3. s[Len(s)] = lower[id[0] + 1]
    BY <1>1, <1>2, <1>4, <1>8, <2>1, <2>2
  <2>4. ASSUME NEW n \in 1 .. Len(s) - 1 PROVE n \in 1 .. Len(s) /\ s[n] = lower[0 + 1]
    <3>1. n \in 1 .. Len(s) /\ m + n - 1 \in 1 .. Width - 1
      BY <1>4 DEF Width
    <3> QED
      BY <1>1, <1>2, <1>4, <1>8, <3>1
  <2>5. \A n \in 1 .. Len(text') - 1 : IsDigit(text'[n], 0)
    BY <1>6, <2>4
  <2>6. IsDigit(text'[Len(text')], id[0])
    BY <1>6, <2>1, <2>3
  <2> QED
    BY <2>5, <2>6
<1>9. SmallId' <=> SmallId
  BY <1>1 DEF SmallId
<1> QED
  BY <1>1, <1>2, <1>4, <1>6, <1>7, <1>8, <1>9 DEF KeyInv

LEMMA KeyDecode == KeyInv /\ DecodeDigit => KeyInv'
<1> SUFFICES ASSUME KeyInv, DecodeDigit PROVE KeyInv'
  OBVIOUS
<1>1. /\ pc = "decoding" /\ next <= Len(text) /\ next' = next + 1
      /\ ret' = ShiftIn(ret, DigitValue(text[next])) /\ UNCHANGED <<pc, id, rest, text>>
  BY DEF DecodeDigit
<1>2. /\ id \in [Places -> 0 .. 15] /\ ret \in [Places -> 0 .. 15]
      /\ text \in Seq(Digits) /\ Len(text) \in 1 .. Width /\ next \in 1 .. Len(text) + 1
      /\ \A p \in Places :
           ret[p] = IF p < next - 1 THEN DigitValue(text[next - 1 - p]) ELSE 0
      /\ SmallId =>
           /\ IsDigit(text[Len(text)], id[0])
           /\ \A n \in 1 .. Len(text) - 1 : IsDigit(text[n], 0)
  BY <1>1 DEF KeyInv
<1>3. next \in 1 .. Len(text) /\ next' \in 1 .. Len(text) + 1 /\ next' - 1 = next
  BY <1>1, <1>2 DEF Width
<1>4. DigitValue(text[next]) \in 0 .. 15
  <2>1. PICK d : IsDigit(text[next], d)
    BY <1>2, <1>3, DigitsAre
  <2> QED
    BY <2>1, DigitIs DEF IsDigit
<1>5. \A p \in Places : p # 0 => p - 1 \in Places
  BY DEF Places, Width
<1>6. ret' \in [Places -> 0 .. 15]
  BY <1>1, <1>2, <1>4, <1>5 DEF ShiftIn
<1>7. ASSUME NEW p \in Places
      PROVE  ret'[p] = IF p < next THEN DigitValue(text[next - p]) ELSE 0
  <2>1. CASE p = 0
    <3>1. p < next /\ next - p = next
      BY <1>3, <2>1
    <3> QED
      BY <1>1, <2>1, <3>1 DEF ShiftIn
  <2>2. CASE p # 0
    <3>1. p - 1 \in Places /\ next - 1 - (p - 1) = next - p /\ (p - 1 < next - 1 <=> p < next)
      BY <1>3, <1>5, <2>2 DEF Places, Width
    <3>2. ret'[p] = ret[p - 1]
      BY <1>1, <2>2 DEF ShiftIn
    <3> QED
      BY <1>2, <3>1, <3>2
  <2> QED
    BY <2>1, <2>2
<1>8. SmallId' <=> SmallId
  BY <1>1 DEF SmallId
<1> QED
  BY <1>1, <1>2, <1>3, <1>6, <1>7, <1>8 DEF KeyInv

\* A decoded key is the number the client wrote, and a key below 16 the one it
\* was given.
LEMMA KeyRead == KeyInv => KeysTravel
<1> SUFFICES ASSUME KeyInv, Decoded PROVE DecodesPositionally /\ SmallIdsComeBack
  BY DEF KeysTravel, DecodesPositionally, SmallIdsComeBack
<1>1. /\ id \in [Places -> 0 .. 15] /\ ret \in [Places -> 0 .. 15]
      /\ text \in Seq(Digits) /\ Len(text) \in 1 .. Width /\ next = Len(text) + 1
      /\ \A p \in Places :
           ret[p] = IF p < next - 1 THEN DigitValue(text[next - 1 - p]) ELSE 0
      /\ SmallId =>
           /\ IsDigit(text[Len(text)], id[0])
           /\ \A n \in 1 .. Len(text) - 1 : IsDigit(text[n], 0)
  BY DEF KeyInv, Decoded, Width
<1>2. next - 1 = Len(text)
  BY <1>1 DEF Width
<1>3. ASSUME NEW p \in Places
      PROVE  /\ p < Len(text) => Len(text) - p \in 1 .. Len(text)
             /\ p # 0 => Len(text) - p \in Int /\ Len(text) - p < Len(text)
             /\ Len(text) - 0 = Len(text) /\ 0 < Len(text)
  <2>1. Len(text) \in 1 .. Width
    BY <1>1
  <2>2. p \in 0 .. Width - 1
    BY DEF Places
  <2>3. p \in Nat /\ Len(text) \in Nat /\ 0 < Len(text) /\ Len(text) - 0 = Len(text)
    BY <2>1, <2>2 DEF Width
  <2>4. p < Len(text) => Len(text) - p \in 1 .. Len(text)
    BY <2>3
  <2>5. p # 0 => Len(text) - p \in Int /\ Len(text) - p < Len(text)
    BY <2>3
  <2> QED
    BY <2>3, <2>4, <2>5
<1>4. DecodesPositionally
  <2> SUFFICES ASSUME NEW p \in Places
               PROVE  ret[p] = IF p < Len(text)
                               THEN CHOOSE d \in 0 .. 15 : text[Len(text) - p] \in {lower[d + 1], upper[d + 1]}
                               ELSE 0
    BY DEF DecodesPositionally
  <2>1. CASE p < Len(text)
    <3>1. PICK d : IsDigit(text[Len(text) - p], d)
      BY <1>1, <1>3, <2>1, DigitsAre
    <3>2. ret[p] = DigitValue(text[Len(text) - p])
      BY <1>1, <1>2, <2>1
    <3> QED
      BY <2>1, <3>1, <3>2, DigitIs
  <2>2. CASE ~(p < Len(text))
    BY <1>1, <1>2, <2>2
  <2> QED
    BY <2>1, <2>2
<1>5. ASSUME SmallId PROVE ret = id
  <2>1. ASSUME NEW p \in Places PROVE ret[p] = id[p]
    <3>1. CASE p = 0
      <4>1. ret[p] = DigitValue(text[Len(text)])
        BY <1>1, <1>2, <1>3, <3>1
      <4> QED
        BY <1>1, <1>5, <3>1, <4>1, DigitIs
    <3>2. CASE p # 0 /\ p < Len(text)
      <4>1. Len(text) - p \in 1 .. Len(text) - 1
        BY <1>1, <1>3, <3>2 DEF Width
      <4>2. ret[p] = DigitValue(text[Len(text) - p])
        BY <1>1, <1>2, <3>2
      <4>3. DigitValue(text[Len(text) - p]) = 0
        BY <1>1, <1>5, <4>1, DigitIs
      <4> QED
        BY <1>5, <3>2, <4>2, <4>3 DEF SmallId
    <3>3. CASE p # 0 /\ ~(p < Len(text))
      BY <1>1, <1>2, <1>5, <3>3 DEF SmallId
    <3> QED
      BY <3>1, <3>2, <3>3
  <2> QED
    BY <1>1, <2>1
<1> QED
  BY <1>4, <1>5 DEF SmallIdsComeBack, SmallId

LEMMA KeyStep == KeyInv /\ [TextNext]_allVars => KeyInv'
<1>1. KeyInv /\ UNCHANGED vars => KeyInv'
  BY DEF KeyInv, SmallId, vars
<1> QED
  BY <1>1, KeyEncode, KeyAsk, KeyDecode DEF TextNext, Next, allVars

\* Of keys of any eight nibbles, hex_decode_id() returns what the client wrote, and
\* a key below 16 comes back as the one hex_encode_id() was given.
THEOREM SmallKeysTravel == TextSpec => []KeysTravel
BY KeyInit, KeyStep, KeyRead, PTL DEF TextSpec

-----------------------------------------------------------------------------
(* The parts of the path *)

\* The fields between slashes that are not empty, and those that start before p.
Named(s)          == {i \in Fields(s, {"/"}) : In(s, i) # <<>>}
NamedBefore(s, p) == {i \in Named(s) : i[1] < p}

\* The parts ps are the fields of s that start before p, each at its place.
PlacedBefore(s, ps, p) ==
  /\ Len(ps) = Cardinality(NamedBefore(s, p))
  /\ \A i \in NamedBefore(s, p) : ps[Cardinality(NamedBefore(s, i[1] + 1))] = In(s, i)

LEMMA NamedAre ==
  ASSUME NEW s \in Texts, NEW i \in Named(s)
  PROVE  /\ i[1] \in 1 .. Len(s) /\ i[2] \in i[1] .. Len(s) /\ i = <<i[1], i[2]>>
         /\ \A k \in i[1] .. i[2] : s[k] # "/"
         /\ i[1] = 1 \/ s[i[1] - 1] = "/"
<1>1. i \in Fields(s, {"/"}) /\ In(s, i) # <<>>
  BY DEF Named
<1> QED
  BY <1>1, FieldIs

LEMMA NamedFinite ==
  ASSUME NEW s \in Texts, NEW p
  PROVE  IsFiniteSet(NamedBefore(s, p)) /\ Cardinality(NamedBefore(s, p)) \in Nat
<1> DEFINE All == (1 .. Len(s) + 1) \X (0 .. Len(s))
<1>1. Len(s) \in Nat
  BY DEF Texts
<1>2. IsFiniteSet(1 .. Len(s) + 1) /\ IsFiniteSet(0 .. Len(s))
  BY <1>1, FS_Interval
<1>3. IsFiniteSet(All)
  BY <1>2, FS_Product
<1>4. NamedBefore(s, p) \subseteq All
  BY DEF NamedBefore, Named, Fields
<1> HIDE DEF All
<1> QED
  BY <1>3, <1>4, FS_Subset, FS_CardinalityType

\* The next part of what is left of s from p is its field from m to b.
PartAt(s, p, t, m, b) ==
  LET n    == Min(PartStarts(t))
      part == UpTo(From(t, n), {"/"})
  IN /\ part = In(s, <<m, b>>) /\ From(t, n + Len(part)) = From(s, b + 1)
     /\ b + 1 = Len(s) + 1 \/ s[b + 1] = "/"
     /\ NamedBefore(s, b + 1) = NamedBefore(s, p) \cup {<<m, b>>}
     /\ NamedBefore(s, m + 1) = NamedBefore(s, b + 1)

\* Where the next part stands, and that nothing is left when there is none.
LEMMA NextPart ==
  ASSUME NEW s \in Texts, NEW p \in 1 .. Len(s) + 1, p = Len(s) + 1 \/ s[p] = "/",
         NEW t, t = From(s, p)
  PROVE  /\ PartStarts(t) = {} => NamedBefore(s, p) = Named(s)
         /\ PartStarts(t) # {} => \E m \in p .. Len(s) : \E b \in m .. Len(s) : PartAt(s, p, t, m, b)
<1>1. Len(s) \in Nat
  BY DEF Texts
<1>2. IsPiece(t, s, p, Len(s))
  BY <1>1, FromIs
<1>3. t \in Texts /\ Len(t) = Len(s) - p + 1 /\ \A k \in 1 .. Len(t) : t[k] = s[p + k - 1]
  BY <1>2 DEF IsPiece
<1>4. ASSUME NEW k \in p .. Len(s)
      PROVE  k - p + 1 \in 1 .. Len(t) /\ t[k - p + 1] = s[k]
  <2>1. k - p + 1 \in 1 .. Len(t) /\ p + (k - p + 1) - 1 = k
    BY <1>1, <1>3
  <2> QED
    BY <1>3, <2>1
\* A field that starts at p or behind it starts a part.
<1>5. ASSUME NEW a \in p .. Len(s), s[a] # "/", a = 1 \/ s[a - 1] = "/"
      PROVE  a - p + 1 \in PartStarts(t) /\ a - p + 1 > 1
  <2>1. a # p
    BY <1>1, <1>5
  <2>2. a - 1 \in p .. Len(s) /\ a # 1
    BY <1>1, <2>1
  <2> DEFINE k == a - p + 1
  <2>3. k \in 2 .. Len(t) /\ a - 1 - p + 1 = k - 1
    BY <1>1, <1>3, <2>2
  <2>4. t[k] = s[a] /\ t[k - 1] = s[a - 1]
    BY <1>4, <2>2, <2>3
  <2> HIDE DEF k
  <2>5. k \in PartStarts(t)
    BY <1>5, <2>2, <2>3, <2>4 DEF PartStarts
  <2> QED
    BY <2>3, <2>5 DEF k
<1>6. ASSUME NEW i \in Named(s), ~(i[1] < p)
      PROVE  /\ i[1] \in p .. Len(s) /\ s[i[1]] # "/" /\ (i[1] = 1 \/ s[i[1] - 1] = "/")
             /\ i[1] - p + 1 \in PartStarts(t) /\ i[1] - p + 1 > 1
  <2>1. i[1] \in 1 .. Len(s) /\ i[2] \in i[1] .. Len(s) /\ (i[1] = 1 \/ s[i[1] - 1] = "/")
        /\ \A k \in i[1] .. i[2] : s[k] # "/"
    BY NamedAre
  <2>2. i[1] \in p .. Len(s) /\ i[1] \in i[1] .. i[2]
    BY <1>1, <1>6, <2>1
  <2> QED
    BY <1>5, <2>1, <2>2
<1>7. CASE PartStarts(t) = {}
  BY <1>6, <1>7 DEF NamedBefore
<1>8. CASE PartStarts(t) # {}
  <2> DEFINE n    == Min(PartStarts(t))
             part == UpTo(From(t, n), {"/"})
             m    == p + n - 1
  <2> HIDE DEF part
  <2>1. /\ n \in 2 .. Len(t) /\ t[n - 1] = "/" /\ t[n] # "/"
        /\ \A k \in 2 .. n - 1 : t[k - 1] = "/" => t[k] = "/"
    BY <1>3, <1>8, PartStart
  <2> HIDE DEF n
  <2>2. n \in Nat /\ m \in p + 1 .. Len(s) /\ m = p + n - 1 /\ m - p + 1 = n /\ m - 1 - p + 1 = n - 1
    BY <1>1, <1>3, <2>1
  <2> HIDE DEF m
  <2>3. m \in p .. Len(s) /\ m - 1 \in p .. Len(s) /\ m \in 1 .. Len(s) + 1 /\ m \in Nat
    BY <1>1, <2>2
  <2>4. s[m - 1] = "/" /\ s[m] # "/"
    BY <1>4, <2>1, <2>2, <2>3
  <2>5. From(t, n) = From(s, m)
    <3>1. n \in 1 .. Len(s) + 2 - p
      BY <1>1, <1>3, <2>1
    <3> QED
      BY <2>2, <3>1, FromFrom
  <2>6. PICK b \in m - 1 .. Len(s) :
          /\ UpTo(From(s, m), {"/"}) = In(s, <<m, b>>)
          /\ Len(UpTo(From(s, m), {"/"})) = b - m + 1
          /\ <<m, b>> \in Fields(s, {"/"})
          /\ \A k \in m .. b : s[k] \notin {"/"}
          /\ b < Len(s) => s[b + 1] \in {"/"}
          /\ \A i \in Fields(s, {"/"}) : i[1] \in m .. b + 1 => i = <<m, b>>
    <3>1. s[m - 1] \in {"/"}
      BY <2>4
    <3> QED
      BY <2>3, <3>1, FieldFrom
  <2>7. part = In(s, <<m, b>>) /\ Len(part) = b - m + 1
    BY <2>5, <2>6 DEF part
  <2>8. b \in m .. Len(s) /\ b \in Nat
    <3>1. b = m - 1 => s[m] \in {"/"}
      <4>1. b = m - 1 => b < Len(s) /\ b + 1 = m
        BY <1>1, <2>3
      <4> QED
        BY <2>6, <4>1
    <3> QED
      BY <1>1, <2>4, <2>3, <3>1
  <2>9. From(t, n + Len(part)) = From(s, b + 1)
    <3>1. n + Len(part) \in 1 .. Len(s) + 2 - p /\ p + (n + Len(part)) - 1 = b + 1
      BY <1>1, <2>2, <2>8, <2>3, <2>7
    <3> QED
      BY <3>1, FromFrom
  <2>10. b + 1 = Len(s) + 1 \/ s[b + 1] = "/"
    BY <1>1, <2>6, <2>8
  <2>11. <<m, b>> \in Named(s)
    <3>1. IsPiece(In(s, <<m, b>>), s, m, b)
      BY <1>1, <2>2, <2>8, PieceIs DEF In
    <3>2. Len(In(s, <<m, b>>)) # 0
      BY <1>1, <2>2, <2>8, <3>1 DEF IsPiece
    <3> QED
      BY <2>6, <3>2 DEF Named
  <2>12. ASSUME NEW i \in Named(s), ~(i[1] < p), i[1] < b + 1
         PROVE  i = <<m, b>>
    <3>1. /\ i[1] \in p .. Len(s) /\ i[1] - p + 1 \in PartStarts(t) /\ i[1] - p + 1 > 1
          /\ i \in Fields(s, {"/"})
      BY <1>6, <2>12 DEF Named
    <3>2. ASSUME NEW k \in PartStarts(t), k > 1, k < n PROVE FALSE
      <4>1. k \in 2 .. n - 1 /\ t[k - 1] = "/" /\ t[k] # "/"
        BY <1>3, <2>2, <3>2 DEF PartStarts
      <4> QED
        BY <2>1, <4>1
    <3>3. ~(i[1] - p + 1 < n)
      BY <3>1, <3>2
    <3>4. i[1] \in m .. b + 1
      BY <1>1, <2>2, <2>8, <2>12, <3>1, <3>3
    <3> QED
      BY <2>6, <3>1, <3>4
  <2>13. \A i \in Named(s) : i[1] \in Int
    BY NamedAre
  <2>14. NamedBefore(s, b + 1) = NamedBefore(s, p) \cup {<<m, b>>}
    <3>1. <<m, b>>[1] < b + 1
      BY <2>8, <2>3
    <3>2. \A i \in Named(s) : i[1] < p => i[1] < b + 1
      <4>1. p < b + 1 /\ p \in Nat
        BY <1>1, <2>8, <2>3
      <4> QED
        BY <2>8, <2>13, <4>1
    <3> QED
      BY <2>11, <2>12, <3>1, <3>2 DEF NamedBefore
  <2>15. NamedBefore(s, m + 1) = NamedBefore(s, b + 1)
    <3>1. \A i \in Named(s) : i[1] < m + 1 => i[1] < b + 1
      BY <2>8, <2>13, <2>3
    <3>2. \A i \in Named(s) : i[1] < p => i[1] < m + 1
      <4>1. p < m + 1 /\ p \in Nat
        BY <1>1, <2>3
      <4> QED
        BY <2>13, <2>3, <4>1
    <3>3. <<m, b>>[1] < m + 1
      BY <2>3
    <3> QED
      BY <2>11, <2>12, <3>1, <3>2, <3>3 DEF NamedBefore
  <2>16. PartAt(s, p, t, m, b)
    BY <2>9, <2>10, <2>14, <2>15, <2>7 DEF n, part, PartAt
  <2> QED
    BY <1>8, <2>8, <2>3, <2>16
<1> QED
  BY <1>7, <1>8

\* One more part is at its place.
LEMMA PlaceOne ==
  ASSUME NEW s \in Texts, NEW ps \in Seq(Texts), NEW p \in Nat, PlacedBefore(s, ps, p),
         NEW m \in Nat, NEW b \in Nat, ~(m < p),
         NamedBefore(s, b + 1) = NamedBefore(s, p) \cup {<<m, b>>},
         NamedBefore(s, m + 1) = NamedBefore(s, b + 1)
  PROVE  PlacedBefore(s, Append(ps, In(s, <<m, b>>)), b + 1)
<1> DEFINE qs == Append(ps, In(s, <<m, b>>))
<1>1. <<m, b>> \notin NamedBefore(s, p)
  BY DEF NamedBefore
<1>2. /\ IsFiniteSet(NamedBefore(s, p)) /\ Cardinality(NamedBefore(s, p)) \in Nat
      /\ Cardinality(NamedBefore(s, b + 1)) = Cardinality(NamedBefore(s, p)) + 1
  BY <1>1, NamedFinite, FS_AddElement
<1>3. Len(ps) = Cardinality(NamedBefore(s, p)) /\ Len(ps) \in Nat
  BY <1>2 DEF PlacedBefore
<1>4. <<m, b>> \in Named(s)
  BY DEF NamedBefore
<1>5. /\ Len(qs) = Len(ps) + 1 /\ qs[Len(ps) + 1] = In(s, <<m, b>>)
      /\ \A k \in 1 .. Len(ps) : qs[k] = ps[k]
  OBVIOUS
<1> HIDE DEF qs
<1>6. ASSUME NEW i \in NamedBefore(s, b + 1)
      PROVE  qs[Cardinality(NamedBefore(s, i[1] + 1))] = In(s, i)
  <2>1. CASE i = <<m, b>>
    <3>1. NamedBefore(s, i[1] + 1) = NamedBefore(s, b + 1)
      BY <2>1
    <3> QED
      BY <1>2, <1>3, <1>5, <2>1, <3>1
  <2>2. CASE i \in NamedBefore(s, p)
    <3> DEFINE before == NamedBefore(s, i[1] + 1)
    <3>1. i[1] < p /\ i \in Named(s) /\ i[1] \in Nat
      BY <2>2, NamedAre DEF NamedBefore
    <3>2. before \subseteq NamedBefore(s, p)
      <4>1. \A j \in Named(s) : j[1] \in Nat
        BY NamedAre
      <4> QED
        BY <3>1, <4>1 DEF NamedBefore
    <3>3. i \in before
      BY <3>1 DEF NamedBefore
    <3>4. IsFiniteSet(before) /\ Cardinality(before) \in Nat
      BY NamedFinite
    <3> HIDE DEF before
    <3>5. Cardinality(before) <= Cardinality(NamedBefore(s, p))
      BY <1>2, <3>2, FS_Subset
    <3>6. Cardinality(before) # 0
      BY <3>3, <3>4, FS_EmptySet
    <3>7. Cardinality(before) \in 1 .. Len(ps)
      BY <1>2, <1>3, <3>4, <3>5, <3>6
    <3>8. ps[Cardinality(before)] = In(s, i)
      BY <2>2 DEF PlacedBefore, before
    <3> QED
      BY <1>5, <3>7, <3>8 DEF before
  <2> QED
    BY <2>1, <2>2
<1> QED
  BY <1>2, <1>3, <1>5, <1>6 DEF PlacedBefore, qs

\* How far the path of the target is taken apart.
PathText == UpTo(given, {"?", "#"})
PartsInv ==
  /\ stage = "target" => given \in Targets /\ parts = <<>>
  /\ stage = "parts" =>
       \E p \in 1 .. Len(PathText) + 1 :
         /\ todo = From(PathText, p) /\ (p = Len(PathText) + 1 \/ PathText[p] = "/")
         /\ PlacedBefore(PathText, parts, p)
  /\ stage \in {"queries", "parsed", "flags", "read", "refused"} =>
       \E p \in Nat :
         PlacedBefore(PathText, parts, p) /\ NamedBefore(PathText, p) = Named(PathText)

LEMMA PartsPlaced == TextsOK /\ PartsInv => PartsArePath
<1> SUFFICES ASSUME TextsOK, PartsInv, Parsed PROVE PartsArePath
  BY DEF PartsArePath
<1> DEFINE path == UpTo(given, {"?", "#"})
<1>1. path \in Texts
  BY UpToText DEF TextsOK
<1>2. PICK p \in Nat : PlacedBefore(path, parts, p) /\ NamedBefore(path, p) = Named(path)
  BY DEF PartsInv, Parsed, PathText
<1> HIDE DEF path
<1>3. Len(parts) = Cardinality(Named(path))
  BY <1>2 DEF PlacedBefore
<1>4. ASSUME NEW i \in Named(path)
      PROVE  parts[Cardinality({j \in Named(path) : j[1] <= i[1]})] = In(path, i)
  <2>1. \A j \in Named(path) : j[1] \in Nat
    BY <1>1, NamedAre
  <2>2. {j \in Named(path) : j[1] <= i[1]} = NamedBefore(path, i[1] + 1)
    BY <2>1 DEF NamedBefore
  <2> QED
    BY <1>2, <2>2 DEF PlacedBefore
<1> QED
  BY <1>3, <1>4 DEF PartsArePath, Named, path

\* The path that is taken apart is what a reader takes for it, and nothing is
\* lost of a target that has none.
LEMMA PathRead ==
  ASSUME NEW s \in Targets, NEW path, path = UpTo(s, {"?", "#"})
  PROVE  /\ path \in Texts
         /\ \/ PathOf(s) = From(path, 1) /\ path[1] = "/" /\ Len(path) >= 1
            \/ PathOf(s) = From(path, Len(path) + 1)
         /\ NamedBefore(path, 1) = {}
         /\ PathOf(s) = <<>> => Named(path) = {}
<1>1. s \in Texts /\ s # <<>> /\ s[1] = "/" /\ Len(s) \in Nat /\ Len(s) > 0
  BY TargetsAssumption DEF Texts
<1>2. path \in Texts
  BY <1>1, UpToText
<1>3. PICK n \in 0 .. Len(s) :
        /\ path = SubSeq(s, 1, n)
        /\ \A k \in 1 .. n : s[k] \notin {"?", "#"}
        /\ n < Len(s) => s[n + 1] \in {"?", "#"}
  BY <1>1, UpToIs
<1>4. IsPiece(path, s, 1, n)
  <2>1. 1 \in 1 .. Len(s) + 1 /\ n \in 1 - 1 .. Len(s)
    BY <1>1
  <2> QED
    BY <1>1, <1>3, <2>1, PieceIs
<1>5. n >= 1 /\ Len(path) = n /\ path[1] = "/"
  <2>1. s[1] \notin {"?", "#"}
    BY <1>1
  <2>2. n # 0
    BY <1>1, <1>3, <2>1
  <2> QED
    BY <1>1, <1>3, <1>4, <2>2 DEF IsPiece
<1>6. NamedBefore(path, 1) = {}
  BY <1>2, NamedAre DEF NamedBefore
<1>7. CASE Len(s) > 1 /\ s[2] \notin {"#", "?"}
  <2>1. {"#", "?"} = {"?", "#"}
    OBVIOUS
  <2>2. PathOf(s) = path
    BY <1>7, <2>1 DEF PathOf
  <2>3. From(path, 1) = path
    BY <1>2, SubSeqFull DEF From, Texts
  <2>4. path # <<>>
    BY <1>5
  <2> QED
    BY <1>2, <1>5, <1>6, <2>2, <2>3, <2>4
<1>8. CASE ~(Len(s) > 1 /\ s[2] \notin {"#", "?"})
  <2>1. PathOf(s) = <<>>
    BY <1>8 DEF PathOf
  <2>2. From(path, Len(path) + 1) = <<>>
    BY <1>2, <1>5, SubSeqEmpty DEF From
  <2>3. n = 1
    <3>1. CASE Len(s) = 1
      BY <1>3, <1>5, <3>1
    <3>2. CASE Len(s) # 1
      <4>1. Len(s) > 1
        <5>1. PICK l \in Nat : l = Len(s)
          BY <1>1
        <5>2. l # 0 /\ l # 1
          BY <1>1, <3>2, <5>1
        <5> QED
          BY <5>1, <5>2
      <4>2. s[2] \in {"?", "#"}
        BY <1>8, <4>1
      <4> QED
        BY <1>1, <1>3, <1>5, <4>2
    <3> QED
      BY <3>1, <3>2
  <2>4. Named(path) = {}
    <3>1. ASSUME NEW i \in Named(path) PROVE FALSE
      <4>1. i[1] \in 1 .. Len(path) /\ i[1] \in i[1] .. i[2] /\ path[i[1]] # "/"
        BY <1>2, NamedAre
      <4>2. i[1] = 1
        BY <1>5, <2>3, <4>1
      <4> QED
        BY <1>5, <4>1, <4>2
    <3> QED
      BY <3>1
  <2> QED
    BY <1>2, <1>6, <2>1, <2>2, <2>4
<1> QED
  BY <1>7, <1>8

LEMMA PartsInit == TextInit => PartsInv
BY DEF TextInit, Reading, PartsInv

LEMMA PartsStep == TextsOK /\ PartsInv /\ [TextNext]_allVars => PartsInv'
<1> SUFFICES ASSUME TextsOK, PartsInv, [TextNext]_allVars PROVE PartsInv'
  OBVIOUS
<1>1. PathText \in Texts /\ Len(PathText) \in Nat
  BY UpToText DEF TextsOK, PathText, Texts
<1>2. CASE UNCHANGED <<stage, given, todo, parts>>
  BY <1>2 DEF PartsInv, PathText
<1>3. ASSUME stage' \notin {"target", "parts", "queries", "parsed", "flags", "read", "refused"}
      PROVE  PartsInv'
  BY <1>3 DEF PartsInv
<1>4. ASSUME stage \in {"queries", "parsed", "flags", "read", "refused"},
             stage' \in {"queries", "parsed", "flags", "read", "refused"},
             UNCHANGED <<given, parts>>
      PROVE  PartsInv'
  BY <1>4 DEF PartsInv, PathText
<1>5. CASE TakeQuery \/ QueriesDone \/ ReadFlags \/ TakeFlag \/ TakeOnlyFlag \/ RefuseFlag \/ FlagsDone
  BY <1>4, <1>5
  DEF TakeQuery, QueriesDone, ReadFlags, TakeFlag, TakeOnlyFlag, RefuseFlag, FlagsDone
<1>6. CASE ReadHeader \/ TakeCoding \/ CodingsDone \/ HandleCompression
  BY <1>3, <1>6 DEF ReadHeader, TakeCoding, CodingsDone, HandleCompression, Compress
<1>7. CASE MatchTarget
  <2>1. /\ stage = "target" /\ stage' = "parts" /\ todo' = PathOf(given)
        /\ given' = given /\ given \in Targets /\ parts' = <<>>
    BY <1>7 DEF MatchTarget, PartsInv
  <2>2. PathText' = PathText
    BY <2>1 DEF PathText
  <2>3. /\ \/ PathOf(given) = From(PathText, 1) /\ PathText[1] = "/" /\ Len(PathText) >= 1
           \/ PathOf(given) = From(PathText, Len(PathText) + 1)
        /\ NamedBefore(PathText, 1) = {}
        /\ PathOf(given) = <<>> => Named(PathText) = {}
    BY <2>1, PathRead DEF PathText
  <2>4. ASSUME NEW p, NamedBefore(PathText, p) = {} PROVE PlacedBefore(PathText, <<>>, p)
    BY <2>4, FS_EmptySet DEF PlacedBefore
  <2>5. CASE PathOf(given) = From(PathText, 1) /\ PathText[1] = "/" /\ Len(PathText) >= 1
    <3>1. 1 \in 1 .. Len(PathText) + 1
      BY <1>1
    <3> QED
      BY <2>1, <2>2, <2>3, <2>4, <2>5, <3>1 DEF PartsInv
  <2>6. CASE PathOf(given) = From(PathText, Len(PathText) + 1)
    <3>1. PathOf(given) = <<>> /\ Len(PathText) + 1 \in 1 .. Len(PathText) + 1
      BY <1>1, <2>6, SubSeqEmpty DEF From
    <3>2. NamedBefore(PathText, Len(PathText) + 1) = {}
      BY <2>3, <3>1 DEF NamedBefore
    <3> QED
      BY <2>1, <2>2, <2>4, <2>6, <3>1, <3>2 DEF PartsInv
  <2> QED
    BY <2>3, <2>5, <2>6
<1>8. ASSUME stage = "parts"
      PROVE  \E p \in 1 .. Len(PathText) + 1 :
               /\ todo = From(PathText, p) /\ (p = Len(PathText) + 1 \/ PathText[p] = "/")
               /\ PlacedBefore(PathText, parts, p)
  BY <1>8 DEF PartsInv
<1>9. CASE TakePart
  <2> DEFINE n    == Min(PartStarts(todo))
             part == UpTo(From(todo, n), {"/"})
  <2>1. /\ stage = "parts" /\ stage' = "parts" /\ PartStarts(todo) # {} /\ given' = given
        /\ parts' = Append(parts, part) /\ todo' = From(todo, n + Len(part))
    BY <1>9 DEF TakePart
  <2>2. PICK p \in 1 .. Len(PathText) + 1 :
          /\ todo = From(PathText, p) /\ (p = Len(PathText) + 1 \/ PathText[p] = "/")
          /\ PlacedBefore(PathText, parts, p)
    BY <1>8, <2>1
  <2>3. PICK m \in p .. Len(PathText) : \E b \in m .. Len(PathText) : PartAt(PathText, p, todo, m, b)
    BY <1>1, <2>1, <2>2, NextPart
  <2>4. PICK b \in m .. Len(PathText) : PartAt(PathText, p, todo, m, b)
    BY <2>3
  <2>5. /\ part = In(PathText, <<m, b>>) /\ From(todo, n + Len(part)) = From(PathText, b + 1)
        /\ b + 1 = Len(PathText) + 1 \/ PathText[b + 1] = "/"
        /\ NamedBefore(PathText, b + 1) = NamedBefore(PathText, p) \cup {<<m, b>>}
        /\ NamedBefore(PathText, m + 1) = NamedBefore(PathText, b + 1)
    BY <2>4 DEF PartAt
  <2> HIDE DEF n, part
  <2>6. p \in Nat /\ m \in Nat /\ b \in Nat /\ ~(m < p) /\ b + 1 \in 1 .. Len(PathText) + 1
    BY <1>1
  <2>7. parts \in Seq(Texts)
    BY DEF TextsOK
  <2>8. PlacedBefore(PathText, Append(parts, In(PathText, <<m, b>>)), b + 1)
    BY <1>1, <2>2, <2>5, <2>6, <2>7, PlaceOne
  <2>9. PathText' = PathText
    BY <2>1 DEF PathText
  <2> QED
    BY <2>1, <2>5, <2>6, <2>8, <2>9 DEF PartsInv
<1>10. CASE PartsDone
  <2>1. stage = "parts" /\ stage' = "queries" /\ PartStarts(todo) = {} /\ UNCHANGED <<given, parts>>
    BY <1>10 DEF PartsDone
  <2>2. PICK p \in 1 .. Len(PathText) + 1 :
          /\ todo = From(PathText, p) /\ (p = Len(PathText) + 1 \/ PathText[p] = "/")
          /\ PlacedBefore(PathText, parts, p)
    BY <1>8, <2>1
  <2>3. NamedBefore(PathText, p) = Named(PathText)
    BY <1>1, <2>1, <2>2, NextPart
  <2>4. PathText' = PathText /\ p \in Nat
    BY <2>1 DEF PathText
  <2> QED
    BY <2>1, <2>2, <2>3, <2>4 DEF PartsInv
<1> QED
  BY <1>2, <1>5, <1>6, <1>7, <1>9, <1>10
  DEF TextNext, ReadTarget, ReadQuery, Negotiate, allVars, textVars

\* The path_parts of a target of any length are what stands between the slashes of
\* its path, in order, and nothing of the queries or the fragment.
THEOREM PartsAreThePath == TextSpec => []PartsArePath
BY TextsHold, PartsInit, PartsStep, PartsPlaced, PTL DEF TextSpec

-----------------------------------------------------------------------------
(* The queries *)

QueriesIn(s)        == {i \in Fields(s, QueryEnds) : In(s, i) # <<>>}
QueriesBefore(s, p) == {i \in QueriesIn(s) : i[1] < p}
Plain(s)            == \A i \in QueriesIn(s) : OneQuery(In(s, i))

\* No other query of s with the name of i comes before it.
Appears(s, i) ==
  \A j \in QueriesIn(s) : j[1] < i[1] => NameIn(In(s, j)) # NameIn(In(s, i))

\* The map holds the queries of s before p, each with its first value.
ReadBefore(s, map, p) ==
  /\ DOMAIN map = {NameIn(In(s, i)) : i \in QueriesBefore(s, p)}
  /\ \A i \in QueriesBefore(s, p) :
       Appears(s, i) => map[NameIn(In(s, i))] = ValueIn(In(s, i))

LEMMA SeparatorsAre ==
  /\ \A c : c \in Separators <=> c \in QueryEnds \/ c = "="
  /\ "=" \notin QueryEnds
<1>1. "=" \notin {"&", ";"}
  BY Zenon
<1> QED
  BY <1>1 DEF Separators, QueryEnds

\* A query does not start with a separator, and has one equals sign at most.
LEMMA QueryIs ==
  ASSUME NEW s \in Texts, Plain(s), NEW i \in QueriesIn(s)
  PROVE  /\ i[1] \in 1 .. Len(s) /\ i[2] \in i[1] .. Len(s) /\ i = <<i[1], i[2]>>
         /\ \A k \in i[1] .. i[2] : s[k] \notin QueryEnds
         /\ i[1] = 1 \/ s[i[1] - 1] \in QueryEnds
         /\ i[2] = Len(s) \/ s[i[2] + 1] \in QueryEnds
         /\ s[i[1]] \notin Separators
         /\ \A k, l \in i[1] .. i[2] : s[k] = "=" /\ s[l] = "=" => k = l
<1>1. i \in Fields(s, QueryEnds) /\ In(s, i) # <<>> /\ OneQuery(In(s, i))
  BY DEF QueriesIn, Plain
<1>2. /\ i[1] \in 1 .. Len(s) /\ i[2] \in i[1] .. Len(s) /\ i = <<i[1], i[2]>>
      /\ \A k \in i[1] .. i[2] : s[k] \notin QueryEnds
      /\ i[1] = 1 \/ s[i[1] - 1] \in QueryEnds
      /\ i[2] = Len(s) \/ s[i[2] + 1] \in QueryEnds
  BY <1>1, FieldIs
<1> DEFINE a == i[1]
           b == i[2]
           r == In(s, i)
<1>3. Len(s) \in Nat /\ a \in 1 .. Len(s) /\ b \in a .. Len(s)
  BY <1>2 DEF Texts
<1> HIDE DEF a, b
<1>4. IsPiece(r, s, a, b)
  <2>1. a \in 1 .. Len(s) + 1 /\ b \in a - 1 .. Len(s)
    BY <1>3
  <2>2. IsPiece(SubSeq(s, a, b), s, a, b)
    BY <2>1, PieceIs
  <2> QED
    BY <2>2 DEF In, a, b
<1> HIDE DEF r
<1>5. r \in Texts /\ Len(r) = b - a + 1 /\ Len(r) \in Nat /\ \A k \in 1 .. Len(r) : r[k] = s[a + k - 1]
  BY <1>3, <1>4 DEF IsPiece
<1>6. ASSUME NEW k \in a .. b PROVE k - a + 1 \in 1 .. Len(r) /\ r[k - a + 1] = s[k]
  <2>1. k - a + 1 \in 1 .. Len(r) /\ a + (k - a + 1) - 1 = k
    BY <1>3, <1>5
  <2> QED
    BY <1>5, <2>1
<1>7. s[a] \notin Separators
  <2>1. a \in a .. b /\ a - a + 1 = 1
    BY <1>3
  <2>2. r[1] = s[a]
    BY <1>6, <2>1
  <2>3. r # <<>> /\ OneQuery(r)
    BY <1>1 DEF r
  <2>4. Head(r) = r[1]
    BY <1>5, <2>3 DEF Texts
  <2>5. s[a] # "="
    BY <2>2, <2>3, <2>4 DEF OneQuery
  <2>6. s[a] \notin QueryEnds
    BY <1>2, <2>1 DEF a, b
  <2> QED
    BY <2>5, <2>6, SeparatorsAre
<1>8. ASSUME NEW k \in a .. b, NEW l \in a .. b, s[k] = "=", s[l] = "=" PROVE k = l
  <2> DEFINE x == k - a + 1
             y == l - a + 1
  <2>1. x \in Equals(r) /\ y \in Equals(r)
    BY <1>6, <1>8 DEF Equals
  <2>2. x \in Int /\ y \in Int /\ (x = y => k = l)
    BY <1>3
  <2> HIDE DEF x, y
  <2>3. IsFiniteSet(Equals(r)) /\ Cardinality(Equals(r)) \in Nat
    <3>1. IsFiniteSet(1 .. Len(r))
      BY <1>5, FS_Interval
    <3>2. Equals(r) \subseteq 1 .. Len(r)
      BY DEF Equals
    <3> QED
      BY <3>1, <3>2, FS_Subset, FS_CardinalityType
  <2>4. Cardinality(Equals(r)) <= 1
    BY <1>1 DEF OneQuery, r
  <2>5. ASSUME x # y PROVE FALSE
    <3>1. IsFiniteSet({x}) /\ Cardinality({x}) = 1
      BY FS_Singleton
    <3>2. Cardinality({x} \cup {y}) = Cardinality({x}) + 1
      BY <2>5, <3>1, FS_AddElement
    <3>3. Cardinality({x} \cup {y}) <= Cardinality(Equals(r))
      BY <2>1, <2>3, FS_Subset
    <3> QED
      BY <2>3, <2>4, <3>1, <3>2, <3>3
  <2> QED
    BY <2>2, <2>5
<1> QED
  BY <1>2, <1>7, <1>8 DEF a, b

\* A character that ends no query stands in one, which starts behind the last end.
LEMMA StandsIn ==
  ASSUME NEW s \in Texts, NEW p \in 1 .. Len(s), p = 1 \/ s[p] \in QueryEnds,
         NEW m \in p .. Len(s), s[m] \notin QueryEnds
  PROVE  \E i \in QueriesIn(s) : i[1] \in p .. m /\ m \in i[1] .. i[2]
<1>1. Len(s) \in Nat /\ p \in Nat /\ m \in Nat
  BY DEF Texts
<1> DEFINE A == {a \in p .. m : a = 1 \/ s[a - 1] \in QueryEnds}
<1>2. A # {}
  <2>1. CASE p = 1
    <3>1. p \in A
      BY <1>1, <2>1
    <3> QED
      BY <3>1
  <2>2. CASE s[p] \in QueryEnds
    <3>1. p # m
      BY <2>2
    <3>2. p + 1 \in p .. m /\ p + 1 - 1 = p
      BY <1>1, <3>1
    <3>3. p + 1 \in A
      BY <2>2, <3>2
    <3> QED
      BY <3>3
  <2> QED
    BY <2>1, <2>2
<1>3. A \in SUBSET (0 .. m)
  BY <1>1
<1>4. Max(A) \in A /\ \A n \in A : Max(A) >= n
  <2> HIDE DEF A
  <2> QED
    BY <1>1, <1>2, <1>3, MaxIs
<1>5. PICK a \in A : \A n \in A : a >= n
  BY <1>4
<1>6. a \in p .. m /\ a \in 1 .. Len(s) + 1 /\ (a = 1 \/ s[a - 1] \in QueryEnds)
  BY <1>1
<1>7. ASSUME NEW l \in a .. m - 1 PROVE s[l] \notin QueryEnds
  <2>1. l + 1 \in p .. m /\ l + 1 - 1 = l /\ ~(a >= l + 1)
    BY <1>1, <1>6
  <2>2. l + 1 \notin A
    BY <1>5, <2>1
  <2> QED
    BY <2>1, <2>2
<1> HIDE DEF A
<1>8. PICK b \in a - 1 .. Len(s) :
        /\ <<a, b>> \in Fields(s, QueryEnds)
        /\ b < Len(s) => s[b + 1] \in QueryEnds
  BY <1>6, FieldFrom
<1>9. b >= m
  <2>1. ASSUME b < m PROVE FALSE
    <3>1. b < Len(s) /\ b + 1 \in a .. m
      BY <1>1, <1>6, <2>1
    <3>2. b + 1 = m \/ b + 1 \in a .. m - 1
      BY <1>1, <1>6, <3>1
    <3> QED
      BY <1>7, <1>8, <3>1, <3>2
  <2> QED
    BY <1>1, <1>6, <2>1
<1>10. In(s, <<a, b>>) # <<>>
  <2>1. a \in 1 .. Len(s) + 1 /\ b \in a - 1 .. Len(s) /\ b - a + 1 \in Int /\ b - a + 1 # 0
    BY <1>1, <1>6, <1>9
  <2>2. IsPiece(In(s, <<a, b>>), s, a, b)
    BY <2>1, PieceIs DEF In
  <2>3. Len(In(s, <<a, b>>)) # 0
    BY <2>1, <2>2 DEF IsPiece
  <2> QED
    BY <2>3
<1>11. <<a, b>> \in QueriesIn(s) /\ <<a, b>>[1] = a /\ <<a, b>>[2] = b /\ m \in a .. b
  BY <1>1, <1>6, <1>8, <1>9, <1>10 DEF QueriesIn
<1> QED
  BY <1>6, <1>11

\* The first character of a piece, and what is behind it.
LEMMA TailIs ==
  ASSUME NEW s, NEW a \in Nat, NEW b \in Nat, a <= b, NEW r, IsPiece(r, s, a, b)
  PROVE  r # <<>> /\ Head(r) = s[a] /\ IsPiece(Tail(r), s, a + 1, b)
<1>1. /\ r \in Texts /\ Len(r) = b - a + 1 /\ Len(r) \in Nat /\ Len(r) > 0
      /\ \A k \in 1 .. Len(r) : r[k] = s[a + k - 1]
  BY DEF IsPiece
<1>2. r # <<>>
  BY <1>1
<1>3. Head(r) = s[a]
  <2>1. Head(r) = r[1] /\ 1 \in 1 .. Len(r) /\ a + 1 - 1 = a
    BY <1>1, <1>2, HeadTailProperties DEF Texts
  <2> QED
    BY <1>1, <2>1
<1>4. IsPiece(Tail(r), s, a + 1, b)
  <2>1. /\ Tail(r) \in Texts /\ Len(Tail(r)) = Len(r) - 1
        /\ \A k \in 1 .. Len(Tail(r)) : Tail(r)[k] = r[k + 1]
    BY <1>1, <1>2, HeadTailProperties DEF Texts
  <2>2. Len(Tail(r)) = b - (a + 1) + 1
    BY <1>1, <2>1
  <2>3. ASSUME NEW k \in 1 .. Len(Tail(r)) PROVE Tail(r)[k] = s[a + 1 + k - 1]
    <3>1. k + 1 \in 1 .. Len(r) /\ a + (k + 1) - 1 = a + 1 + k - 1
      BY <1>1, <2>1
    <3> QED
      BY <1>1, <2>1, <3>1
  <2> QED
    BY <2>1, <2>2, <2>3 DEF IsPiece
<1> QED
  BY <1>2, <1>3, <1>4

LEMMA TailFrom ==
  ASSUME NEW s \in Texts, NEW a \in 1 .. Len(s)
  PROVE  From(s, a) # <<>> /\ Head(From(s, a)) = s[a] /\ Tail(From(s, a)) = From(s, a + 1)
<1>1. Len(s) \in Nat /\ a \in Nat /\ a <= Len(s) /\ a \in 1 .. Len(s) + 1 /\ a + 1 \in 1 .. Len(s) + 1
  BY DEF Texts
<1>2. IsPiece(From(s, a), s, a, Len(s)) /\ IsPiece(From(s, a + 1), s, a + 1, Len(s))
  BY <1>1, FromIs
<1>3. /\ From(s, a) # <<>> /\ Head(From(s, a)) = s[a]
      /\ IsPiece(Tail(From(s, a)), s, a + 1, Len(s))
  BY <1>1, <1>2, TailIs
<1>4. a + 1 \in Int /\ Len(s) \in Int
  BY <1>1
<1> QED
  BY <1>2, <1>3, <1>4, SamePiece

\* Where the equals signs of a piece are.
LEMMA EqualsAre ==
  ASSUME NEW s \in Texts, NEW m \in 1 .. Len(s), NEW b \in m .. Len(s)
  PROVE  /\ IsPiece(In(s, <<m, b>>), s, m, b)
         /\ Equals(In(s, <<m, b>>)) = {k - m + 1 : k \in {j \in m .. b : s[j] = "="}}
<1>1. Len(s) \in Nat /\ m \in Nat /\ b \in Nat /\ m \in 1 .. Len(s) + 1 /\ b \in m - 1 .. Len(s)
  BY DEF Texts
<1> DEFINE r == In(s, <<m, b>>)
<1>2. IsPiece(r, s, m, b)
  BY <1>1, PieceIs DEF In
<1> HIDE DEF r
<1>3. Len(r) = b - m + 1 /\ \A k \in 1 .. Len(r) : r[k] = s[m + k - 1]
  BY <1>2 DEF IsPiece
<1>4. ASSUME NEW n \in Equals(r) PROVE n \in {k - m + 1 : k \in {j \in m .. b : s[j] = "="}}
  <2>1. n \in 1 .. Len(r) /\ r[n] = "="
    BY DEF Equals
  <2>2. m + n - 1 \in m .. b /\ s[m + n - 1] = "=" /\ n = (m + n - 1) - m + 1
    BY <1>1, <1>3, <2>1
  <2> QED
    BY <2>2
<1>5. ASSUME NEW k \in m .. b, s[k] = "=" PROVE k - m + 1 \in Equals(r)
  <2>1. k - m + 1 \in 1 .. Len(r) /\ m + (k - m + 1) - 1 = k
    BY <1>1, <1>3
  <2>2. r[k - m + 1] = "="
    BY <1>3, <1>5, <2>1
  <2> QED
    BY <2>1, <2>2 DEF Equals
<1> QED
  BY <1>2, <1>4, <1>5 DEF r

\* What the name and the value of a query are.
LEMMA NameAlone ==
  ASSUME NEW s \in Texts, NEW m \in 1 .. Len(s), NEW b \in m .. Len(s),
         \A k \in m .. b : s[k] # "="
  PROVE  NameIn(In(s, <<m, b>>)) = In(s, <<m, b>>) /\ ValueIn(In(s, <<m, b>>)) = <<>>
<1>1. Equals(In(s, <<m, b>>)) = {}
  BY EqualsAre
<1> QED
  BY <1>1 DEF NameIn, ValueIn

LEMMA NameAndValue ==
  ASSUME NEW s \in Texts, NEW m \in 1 .. Len(s), NEW x \in m .. Len(s), NEW y \in x + 1 .. Len(s),
         s[x + 1] = "=", \A k \in m .. y : s[k] = "=" => k = x + 1
  PROVE  /\ NameIn(In(s, <<m, y>>)) = In(s, <<m, x>>)
         /\ ValueIn(In(s, <<m, y>>)) = In(s, <<x + 2, y>>)
<1>1. /\ Len(s) \in Nat /\ m \in Nat /\ x \in Nat /\ y \in Nat /\ y \in m .. Len(s)
      /\ x + 1 \in m .. y /\ m <= x /\ x + 1 <= y /\ y <= Len(s) /\ 1 <= m
  BY DEF Texts
<1> DEFINE r == In(s, <<m, y>>)
           e == x - m + 2
<1>2. IsPiece(r, s, m, y) /\ Equals(r) = {k - m + 1 : k \in {j \in m .. y : s[j] = "="}}
  BY <1>1, EqualsAre
<1> HIDE DEF r
<1>3. {j \in m .. y : s[j] = "="} = {x + 1}
  BY <1>1
<1>4. Equals(r) = {e} /\ e \in Nat
  BY <1>1, <1>2, <1>3
<1>5. Min(Equals(r)) = e
  <2>1. {e} \in SUBSET Nat /\ {e} # {}
    BY <1>4
  <2> HIDE DEF e
  <2> QED
    BY <1>4, <2>1, MinIs
<1>6. r \in Texts /\ Len(r) = y - m + 1
  BY <1>2 DEF IsPiece
<1>7. NameIn(r) = In(s, <<m, x>>)
  <2>1. NameIn(r) = SubSeq(r, 1, e - 1)
    BY <1>4, <1>5 DEF NameIn
  <2>2. 1 \in 1 .. Len(r) + 1 /\ e - 1 \in 1 - 1 .. Len(r) /\ m + 1 - 1 = m /\ m + (e - 1) - 1 = x
    BY <1>1, <1>6
  <2> HIDE DEF e
  <2>3. IsPiece(SubSeq(r, 1, e - 1), s, m + 1 - 1, m + (e - 1) - 1)
    BY <1>1, <1>2, <2>2, PieceOfPiece
  <2>4. IsPiece(SubSeq(r, 1, e - 1), s, m, x)
    BY <2>2, <2>3
  <2>5. IsPiece(In(s, <<m, x>>), s, m, x)
    BY EqualsAre
  <2>6. m \in Int /\ x \in Int
    BY <1>1
  <2> QED
    BY <2>1, <2>4, <2>5, <2>6, SamePiece
<1>8. ValueIn(r) = In(s, <<x + 2, y>>)
  <2>1. ValueIn(r) = SubSeq(r, e + 1, Len(r))
    BY <1>4, <1>5 DEF ValueIn, From
  <2>2. /\ e + 1 \in 1 .. Len(r) + 1 /\ Len(r) \in (e + 1) - 1 .. Len(r)
        /\ m + (e + 1) - 1 = x + 2 /\ m + Len(r) - 1 = y
    BY <1>1, <1>6
  <2> HIDE DEF e
  <2>3. IsPiece(SubSeq(r, e + 1, Len(r)), s, m + (e + 1) - 1, m + Len(r) - 1)
    BY <1>1, <1>2, <2>2, PieceOfPiece
  <2>4. IsPiece(SubSeq(r, e + 1, Len(r)), s, x + 2, y)
    BY <2>2, <2>3
  <2>5. x + 2 \in 1 .. Len(s) + 1 /\ y \in x + 2 - 1 .. Len(s)
    BY <1>1
  <2>6. IsPiece(In(s, <<x + 2, y>>), s, x + 2, y)
    BY <2>5, PieceIs DEF In
  <2>7. x + 2 \in Int /\ y \in Int
    BY <1>1
  <2> QED
    BY <2>1, <2>4, <2>6, <2>7, SamePiece
<1> QED
  BY <1>7, <1>8 DEF r

\* The next query of what is left of s from p is its field from m to b.
QueryAt(s, p, t, m, b) ==
  /\ Name(t) = NameIn(In(s, <<m, b>>)) /\ Value(t) = ValueIn(In(s, <<m, b>>))
  /\ Left(t) = From(s, b + 1) /\ (b + 1 = Len(s) + 1 \/ s[b + 1] \in QueryEnds)
  /\ <<m, b>> \in QueriesIn(s)
  /\ QueriesBefore(s, b + 1) = QueriesBefore(s, p) \cup {<<m, b>>}

\* Where the name of the next query starts, and that no query is passed over.
LEMMA NameAt ==
  ASSUME NEW s \in Texts, Plain(s), NEW p \in 1 .. Len(s) + 1,
         p = 1 \/ p = Len(s) + 1 \/ s[p] \in QueryEnds, NEW t, t = From(s, p)
  PROVE  /\ NameStarts(t) = {} => QueriesBefore(s, p) = QueriesIn(s)
         /\ NameStarts(t) # {} =>
              \E m \in p .. Len(s) :
                /\ m = p + Min(NameStarts(t)) - 1 /\ From(t, Min(NameStarts(t))) = From(s, m)
                /\ s[m] \notin Separators
                /\ \A i \in QueriesIn(s) : i[1] < p \/ i[1] >= m
                /\ \E i \in QueriesIn(s) : i[1] = m
<1>1. Len(s) \in Nat /\ p \in Nat
  BY DEF Texts
<1>2. IsPiece(t, s, p, Len(s))
  BY <1>1, FromIs
<1>3. t \in Texts /\ Len(t) = Len(s) - p + 1 /\ \A k \in 1 .. Len(t) : t[k] = s[p + k - 1]
  BY <1>2 DEF IsPiece
<1>4. ASSUME NEW k \in p .. Len(s), s[k] \notin Separators
      PROVE  k - p + 1 \in NameStarts(t)
  <2>1. k - p + 1 \in 1 .. Len(t) /\ p + (k - p + 1) - 1 = k
    BY <1>1, <1>3
  <2>2. t[k - p + 1] = s[k]
    BY <1>3, <2>1
  <2> QED
    BY <1>4, <2>1, <2>2 DEF NameStarts
<1>5. ASSUME NEW i \in QueriesIn(s), ~(i[1] < p)
      PROVE  i[1] \in p .. Len(s) /\ i[1] - p + 1 \in NameStarts(t)
  <2>1. i[1] \in 1 .. Len(s) /\ s[i[1]] \notin Separators
    BY QueryIs
  <2>2. i[1] \in p .. Len(s)
    BY <1>1, <1>5, <2>1
  <2> QED
    BY <1>4, <2>1, <2>2
<1>6. CASE NameStarts(t) = {}
  BY <1>5, <1>6 DEF QueriesBefore
<1>7. CASE NameStarts(t) # {}
  <2> DEFINE n == Min(NameStarts(t))
             m == p + n - 1
  <2>1. n \in 1 .. Len(t) /\ t[n] \notin Separators /\ \A k \in 1 .. n - 1 : t[k] \in Separators
    BY <1>3, <1>7, NameStart
  <2> HIDE DEF n
  <2>2. n \in Nat /\ m \in p .. Len(s) /\ m \in Nat
    BY <1>1, <1>3, <2>1
  <2>3. s[m] \notin Separators
    BY <1>3, <2>1
  <2>4. From(t, n) = From(s, m)
    <3>1. n \in 1 .. Len(s) + 2 - p
      BY <1>1, <1>3, <2>1
    <3> QED
      BY <3>1, FromFrom
  <2>5. ASSUME NEW i \in QueriesIn(s), ~(i[1] < p) PROVE i[1] >= m
    <3>1. i[1] \in p .. Len(s) /\ i[1] - p + 1 \in NameStarts(t)
      BY <1>5, <2>5
    <3>2. i[1] - p + 1 \in 1 .. Len(t) /\ t[i[1] - p + 1] \notin Separators
      BY <3>1 DEF NameStarts
    <3>3. ~(i[1] - p + 1 \in 1 .. n - 1)
      BY <2>1, <3>2
    <3> QED
      BY <1>1, <2>2, <3>1, <3>2, <3>3
  <2>6. \A i \in QueriesIn(s) : i[1] < p \/ i[1] >= m
    BY <2>5
  <2>7. PICK i \in QueriesIn(s) : i[1] \in p .. m
    <3>1. p \in 1 .. Len(s) /\ (p = 1 \/ s[p] \in QueryEnds) /\ m \in p .. Len(s)
      BY <1>1, <2>2
    <3>2. s[m] \notin QueryEnds
      BY <2>3, SeparatorsAre
    <3> QED
      BY <3>1, <3>2, StandsIn
  <2>8. i[1] = m
    <3>1. ~(i[1] < p) /\ i[1] \in Nat
      BY <1>1, <2>7
    <3>2. i[1] >= m
      BY <2>5, <3>1
    <3> QED
      BY <2>2, <2>7, <3>1, <3>2
  <2>9. \E j \in QueriesIn(s) : j[1] = m
    BY <2>8
  <2> QED
    BY <1>7, <2>2, <2>3, <2>4, <2>6, <2>9 DEF n
<1> QED
  BY <1>6, <1>7

\* A query that starts at m is all there is up to the next end.
LEMMA QueryEndsAt ==
  ASSUME NEW s \in Texts, Plain(s), NEW i \in QueriesIn(s), NEW m, m = i[1],
         NEW b \in m .. Len(s), \A k \in m .. b : s[k] \notin QueryEnds,
         b = Len(s) \/ s[b + 1] \in QueryEnds
  PROVE  i = <<m, b>>
<1>1. Len(s) \in Nat
  BY DEF Texts
<1>2. /\ m \in 1 .. Len(s) /\ i[2] \in m .. Len(s) /\ i = <<m, i[2]>>
      /\ \A k \in m .. i[2] : s[k] \notin QueryEnds
      /\ i[2] = Len(s) \/ s[i[2] + 1] \in QueryEnds
  BY QueryIs
<1>3. ~(i[2] < b)
  <2>1. i[2] < b => i[2] # Len(s) /\ i[2] + 1 \in m .. b
    BY <1>1, <1>2
  <2> QED
    BY <1>2, <2>1
<1>4. ~(b < i[2])
  <2>1. b < i[2] => b # Len(s) /\ b + 1 \in m .. i[2]
    BY <1>1, <1>2
  <2> QED
    BY <1>2, <2>1
<1>5. i[2] = b
  BY <1>1, <1>2, <1>3, <1>4
<1> QED
  BY <1>2, <1>5

\* From m to b stands the first query of s from p on.
FirstFrom(s, p, m, b) ==
  /\ p \in Nat /\ m \in Nat /\ b \in Nat /\ p <= m /\ m <= b /\ b <= Len(s)
  /\ \A i \in QueriesIn(s) : i[1] < p \/ i[1] >= m
  /\ \A k \in m .. b : s[k] \notin QueryEnds
  /\ <<m, b>> \in QueriesIn(s)
  /\ \A i \in QueriesIn(s) : i[1] = m => i = <<m, b>>

\* The queries before b + 1, when one that starts at m ends at b.
LEMMA OneMore ==
  ASSUME NEW s \in Texts, Plain(s), NEW p, NEW m, NEW b, FirstFrom(s, p, m, b)
  PROVE  QueriesBefore(s, b + 1) = QueriesBefore(s, p) \cup {<<m, b>>}
<1> USE DEF FirstFrom
<1>1. \A i \in QueriesIn(s) : i[1] \in Nat
  BY QueryIs
<1>2. ASSUME NEW i \in QueriesIn(s), i[1] < p PROVE i[1] < b + 1
  BY <1>1, <1>2
<1>3. ASSUME NEW i \in QueriesIn(s), ~(i[1] < p), i[1] < b + 1 PROVE i = <<m, b>>
  <2>1. i[1] \in Nat /\ i[1] >= m /\ i[1] \in 1 .. Len(s) /\ (i[1] = 1 \/ s[i[1] - 1] \in QueryEnds)
    BY <1>1, <1>3, QueryIs
  <2>2. CASE i[1] > m
    <3>1. i[1] - 1 \in m .. b
      BY <1>3, <2>1, <2>2
    <3>2. i[1] # 1
      <4>1. m \in 1 .. Len(s)
        <5>1. <<m, b>>[1] \in 1 .. Len(s)
          BY QueryIs
        <5> QED
          BY <5>1
      <4> QED
        BY <2>1, <2>2, <4>1
    <3> QED
      BY <2>1, <3>1, <3>2
  <2> QED
    BY <2>1, <2>2
<1>4. <<m, b>>[1] < b + 1
  OBVIOUS
<1> QED
  BY <1>2, <1>3, <1>4 DEF QueriesBefore

\* Where the next query stands, and that nothing is left when there is none.
LEMMA NextQuery ==
  ASSUME NEW s \in Texts, Plain(s), NEW p \in 1 .. Len(s) + 1,
         p = 1 \/ p = Len(s) + 1 \/ s[p] \in QueryEnds,
         NEW t, t = From(s, p), NameStarts(t) # {}
  PROVE  \E m \in p .. Len(s) : \E b \in m .. Len(s) : QueryAt(s, p, t, m, b)
<1>1. Len(s) \in Nat /\ p \in Nat
  BY DEF Texts
<1> DEFINE n == Min(NameStarts(t))
<1>2. PICK m \in p .. Len(s) :
        /\ m = p + n - 1 /\ From(t, n) = From(s, m) /\ s[m] \notin Separators
        /\ \A i \in QueriesIn(s) : i[1] < p \/ i[1] >= m
        /\ \E i \in QueriesIn(s) : i[1] = m
  BY NameAt
<1>3. PICK i \in QueriesIn(s) : i[1] = m
  BY <1>2
<1>4. n \in Nat
  <2>1. t \in Texts
    BY <1>1, FromText
  <2>2. n \in 1 .. Len(t) /\ Len(t) \in Nat
    BY <2>1, NameStart DEF Texts
  <2> QED
    BY <2>2
<1> HIDE DEF n
<1>5. m \in Nat /\ m \in 1 .. Len(s) /\ m \in 1 .. Len(s) + 1
  BY <1>1
\* The name ends with x.
<1>6. PICK x \in m - 1 .. Len(s) :
        /\ UpTo(From(s, m), Separators) = In(s, <<m, x>>)
        /\ Len(UpTo(From(s, m), Separators)) = x - m + 1
        /\ \A k \in m .. x : s[k] \notin Separators
        /\ x < Len(s) => s[x + 1] \in Separators
  BY <1>5, UpToFrom
<1>7. x \in m .. Len(s) /\ x \in Nat
  <2>1. x = m - 1 => x < Len(s) /\ x + 1 = m
    BY <1>1, <1>5
  <2> QED
    BY <1>1, <1>2, <1>5, <1>6, <2>1
<1>8. Name(t) = In(s, <<m, x>>) /\ Len(Name(t)) = x - m + 1
  BY <1>2, <1>6 DEF Name, n
<1>9. After(t) = From(s, x + 1)
  <2>1. n + (x - m + 1) \in 1 .. Len(s) + 2 - p /\ p + (n + (x - m + 1)) - 1 = x + 1
    BY <1>1, <1>2, <1>4, <1>5, <1>7
  <2>2. From(t, n + (x - m + 1)) = From(s, x + 1)
    BY <2>1, FromFrom
  <2> QED
    BY <1>8, <2>2 DEF After, n
<1>10. \A k \in m .. x : s[k] \notin QueryEnds /\ s[k] # "="
  BY <1>6, SeparatorsAre
\* What is left to show of the end of the query.
<1>11. ASSUME NEW b \in x .. Len(s), \A k \in m .. b : s[k] \notin QueryEnds,
              b = Len(s) \/ s[b + 1] \in QueryEnds,
              Name(t) = NameIn(In(s, <<m, b>>)), Value(t) = ValueIn(In(s, <<m, b>>)),
              Left(t) = From(s, b + 1)
       PROVE  QueryAt(s, p, t, m, b) /\ b \in m .. Len(s)
  <2>1. b \in Nat /\ b \in m .. Len(s) /\ p <= m /\ m <= b /\ b <= Len(s)
    BY <1>1, <1>5, <1>7
  <2>2. \A j \in QueriesIn(s) : j[1] = m => j = <<m, b>>
    BY <1>11, <2>1, QueryEndsAt
  <2>3. <<m, b>> \in QueriesIn(s)
    BY <1>3, <2>2
  <2>4. QueriesBefore(s, b + 1) = QueriesBefore(s, p) \cup {<<m, b>>}
    <3>1. m \in Nat /\ \A j \in QueriesIn(s) : j[1] < p \/ j[1] >= m
      BY <1>2, <1>5
    <3>2. \A k \in m .. b : s[k] \notin QueryEnds
      BY <1>11
    <3>3. FirstFrom(s, p, m, b)
      BY <1>1, <2>1, <2>2, <2>3, <3>1, <3>2 DEF FirstFrom
    <3> QED
      BY <3>3, OneMore
  <2>5. b + 1 = Len(s) + 1 \/ s[b + 1] \in QueryEnds
    BY <1>11
  <2> QED
    BY <1>11, <2>1, <2>3, <2>4, <2>5 DEF QueryAt
<1>12. CASE x = Len(s) \/ s[x + 1] # "="
  <2>1. ~(After(t) # <<>> /\ Head(After(t)) = "=")
    <3>1. CASE x = Len(s)
      <4>1. From(s, Len(s) + 1) = <<>>
        BY <1>1, SubSeqEmpty DEF From
      <4> QED
        BY <1>9, <3>1, <4>1
    <3>2. CASE x # Len(s)
      <4>1. x + 1 \in 1 .. Len(s)
        BY <1>1, <1>7, <3>2
      <4>2. Head(From(s, x + 1)) = s[x + 1]
        BY <4>1, TailFrom
      <4> QED
        BY <1>9, <1>12, <3>2, <4>2
    <3> QED
      BY <3>1, <3>2
  <2>2. Value(t) = <<>> /\ Left(t) = From(s, x + 1)
    BY <1>9, <2>1 DEF Value, Left
  <2>3. NameIn(In(s, <<m, x>>)) = In(s, <<m, x>>) /\ ValueIn(In(s, <<m, x>>)) = <<>>
    BY <1>5, <1>7, <1>10, NameAlone
  <2>4. x = Len(s) \/ s[x + 1] \in QueryEnds
    <3>1. x # Len(s) => x < Len(s)
      BY <1>1, <1>7
    <3> QED
      BY <1>6, <1>12, <3>1, SeparatorsAre
  <2>5. x \in x .. Len(s)
    BY <1>1, <1>7
  <2>6. QueryAt(s, p, t, m, x)
    BY <1>8, <1>10, <1>11, <2>2, <2>3, <2>4, <2>5
  <2> QED
    BY <1>7, <2>6
<1>13. CASE x # Len(s) /\ s[x + 1] = "="
  <2>1. x + 1 \in 1 .. Len(s) /\ x + 2 \in 1 .. Len(s) + 1 /\ x + 1 + 1 = x + 2
    BY <1>1, <1>7, <1>13
  <2>2. After(t) # <<>> /\ Head(After(t)) = "=" /\ Tail(After(t)) = From(s, x + 2)
    <3>1. /\ From(s, x + 1) # <<>> /\ Head(From(s, x + 1)) = s[x + 1]
          /\ Tail(From(s, x + 1)) = From(s, x + 1 + 1)
      BY <2>1, TailFrom
    <3> QED
      BY <1>9, <1>13, <2>1, <3>1
  <2>3. PICK y \in (x + 2) - 1 .. Len(s) :
          /\ UpTo(From(s, x + 2), Separators) = In(s, <<x + 2, y>>)
          /\ Len(UpTo(From(s, x + 2), Separators)) = y - (x + 2) + 1
          /\ \A k \in x + 2 .. y : s[k] \notin Separators
          /\ y < Len(s) => s[y + 1] \in Separators
    BY <2>1, UpToFrom
  <2>4. y \in x + 1 .. Len(s) /\ y \in Nat /\ y \in x .. Len(s)
    <3>1. (x + 2) - 1 = x + 1
      BY <1>7
    <3>2. y \in x + 1 .. Len(s)
      BY <3>1
    <3> QED
      BY <1>1, <1>7, <3>2
  <2>5. Value(t) = In(s, <<x + 2, y>>) /\ Len(Value(t)) = y - x - 1
    <3>1. Value(t) = UpTo(From(s, x + 2), Separators)
      BY <2>2 DEF Value
    <3>2. y - (x + 2) + 1 = y - x - 1
      BY <1>7, <2>4
    <3> QED
      BY <2>3, <3>1, <3>2
  <2>6. Left(t) = From(s, y + 1)
    <3>1. Left(t) = From(From(s, x + 1), 2 + (y - x - 1))
      BY <1>9, <2>2, <2>5 DEF Left
    <3>2. /\ x + 1 \in 1 .. Len(s) + 1 /\ 2 + (y - x - 1) \in 1 .. Len(s) + 2 - (x + 1)
          /\ x + 1 + (2 + (y - x - 1)) - 1 = y + 1
      BY <1>1, <1>7, <2>1, <2>4
    <3> QED
      BY <3>1, <3>2, FromFrom
  <2>7. ASSUME NEW k \in m .. y PROVE s[k] \notin QueryEnds /\ (s[k] = "=" => k = x + 1)
    <3>1. k \in m .. x \/ k = x + 1 \/ k \in x + 2 .. y
      BY <1>5, <1>7, <2>4
    <3> QED
      BY <1>10, <1>13, <2>3, <3>1, SeparatorsAre
  <2>8. /\ NameIn(In(s, <<m, y>>)) = In(s, <<m, x>>)
        /\ ValueIn(In(s, <<m, y>>)) = In(s, <<x + 2, y>>)
    BY <1>5, <1>7, <1>13, <2>4, <2>7, NameAndValue
\* Another equals sign would be the query's second.
  <2>9. y = Len(s) \/ s[y + 1] \in QueryEnds
    <3>1. CASE y < Len(s) /\ s[y + 1] = "="
      <4>1. /\ i[2] \in m .. Len(s) /\ (i[2] = Len(s) \/ s[i[2] + 1] \in QueryEnds)
            /\ \A k, l \in m .. i[2] : s[k] = "=" /\ s[l] = "=" => k = l
        BY <1>3, QueryIs
      <4>2. ASSUME NEW k \in m .. y + 1 PROVE s[k] \notin QueryEnds
        <5>1. k \in m .. y \/ k = y + 1
          BY <1>5, <2>4
        <5> QED
          BY <2>7, <3>1, <5>1, SeparatorsAre
      <4>3. ~(i[2] < y + 1)
        <5>1. i[2] < y + 1 => i[2] # Len(s) /\ i[2] + 1 \in m .. y + 1
          BY <1>1, <1>5, <2>4, <3>1, <4>1
        <5> QED
          BY <4>1, <4>2, <5>1
      <4>4. x + 1 \in m .. i[2] /\ y + 1 \in m .. i[2] /\ x + 1 # y + 1
        BY <1>1, <1>5, <1>7, <2>4, <4>1, <4>3
      <4> QED
        BY <1>13, <3>1, <4>1, <4>4
    <3>2. y # Len(s) => y < Len(s)
      BY <1>1, <2>4
    <3> QED
      BY <2>3, <3>1, <3>2, SeparatorsAre
  <2>10. QueryAt(s, p, t, m, y) /\ y \in m .. Len(s)
    BY <1>8, <1>11, <2>4, <2>5, <2>6, <2>7, <2>8, <2>9
  <2> QED
    BY <2>10
<1> QED
  BY <1>12, <1>13

\* One more query is in the map, unless its name was.
LEMMA ReadOne ==
  ASSUME NEW s \in Texts, NEW map, NEW p \in Nat, ReadBefore(s, map, p),
         NEW m \in Nat, NEW b \in Nat, p <= m, <<m, b>> \in QueriesIn(s),
         QueriesBefore(s, b + 1) = QueriesBefore(s, p) \cup {<<m, b>>},
         Plain(s)
  PROVE  ReadBefore(s, Emplaced(map, NameIn(In(s, <<m, b>>)), ValueIn(In(s, <<m, b>>))), b + 1)
<1> DEFINE name  == NameIn(In(s, <<m, b>>))
           value == ValueIn(In(s, <<m, b>>))
           more  == Emplaced(map, name, value)
<1>1. DOMAIN map = {NameIn(In(s, i)) : i \in QueriesBefore(s, p)}
  BY DEF ReadBefore
<1>2. DOMAIN more = DOMAIN map \cup {name}
  BY DEF Emplaced
<1>3. DOMAIN more = {NameIn(In(s, i)) : i \in QueriesBefore(s, b + 1)}
  BY <1>1, <1>2
<1>4. ASSUME NEW i \in QueriesBefore(s, b + 1), Appears(s, i)
      PROVE  more[NameIn(In(s, i))] = ValueIn(In(s, i))
  <2>1. CASE i \in QueriesBefore(s, p)
    <3>1. NameIn(In(s, i)) \in DOMAIN map /\ map[NameIn(In(s, i))] = ValueIn(In(s, i))
      BY <1>1, <1>4, <2>1 DEF ReadBefore
    <3> QED
      BY <3>1 DEF Emplaced
  <2>2. CASE i = <<m, b>>
    <3>1. ASSUME name \in DOMAIN map PROVE FALSE
      <4>1. PICK j \in QueriesBefore(s, p) : name = NameIn(In(s, j))
        BY <1>1, <3>1
      <4>2. j \in QueriesIn(s) /\ j[1] < p /\ j[1] \in Nat
        BY QueryIs DEF QueriesBefore
      <4>3. j[1] < i[1]
        BY <2>2, <4>2
      <4> QED
        BY <1>4, <2>2, <4>1, <4>2, <4>3 DEF Appears
    <3> QED
      BY <2>2, <3>1 DEF Emplaced
  <2> QED
    BY <2>1, <2>2
<1> QED
  BY <1>3, <1>4 DEF ReadBefore

\* What stands before the queries is no part of them.
LEMMA MarkIsNone ==
  ASSUME NEW s \in Texts, NEW n \in 1 .. Len(s), s[n] = "?"
  PROVE  QueryOf(From(s, n)) # <<>> /\ Tail(QueryOf(From(s, n))) = QueryOf(From(s, n + 1))
<1>1. Len(s) \in Nat /\ n \in Nat /\ n <= Len(s) /\ n \in 1 .. Len(s) + 1 /\ n + 1 \in 1 .. Len(s) + 1
  BY DEF Texts
<1> DEFINE u == From(s, n)
           v == From(s, n + 1)
<1>2. IsPiece(u, s, n, Len(s)) /\ IsPiece(v, s, n + 1, Len(s))
  BY <1>1, FromIs
<1>3. u # <<>> /\ Head(u) = "?" /\ From(u, 1) = u
  <2>1. u # <<>> /\ Head(u) = s[n]
    BY TailFrom
  <2>2. SubSeq(u, 1, Len(u)) = u
    BY <1>2, SubSeqFull DEF IsPiece, Texts
  <2> QED
    BY <2>1, <2>2 DEF From
<1>4. ASSUME NEW k \in 1 .. Len(s) - n + 1 PROVE From(u, k + 1) = From(v, k)
  <2>1. k + 1 \in 1 .. Len(s) + 2 - n /\ k \in 1 .. Len(s) + 2 - (n + 1) /\ n + (k + 1) - 1 = n + 1 + k - 1
    BY <1>1
  <2>2. From(u, k + 1) = From(s, n + (k + 1) - 1) /\ From(v, k) = From(s, n + 1 + k - 1)
    BY <1>1, <2>1, FromFrom
  <2> QED
    BY <2>1, <2>2
<1> HIDE DEF u, v
<1>5. u \in Texts /\ v \in Texts /\ Len(u) = Len(s) - n + 1 /\ Len(v) = Len(s) - n
  BY <1>1, <1>2 DEF IsPiece
<1>6. 0 \notin Rests(u)
  <2>1. ~IsFragment(u)
    BY <1>3 DEF IsFragment
  <2>2. Len(u) # 0
    BY <1>1, <1>5
  <2>3. From(u, 0 + 1) = u
    BY <1>3
  <2> QED
    BY <2>1, <2>2, <2>3 DEF Rests
<1>7. ASSUME NEW k \in Nat PROVE k + 1 \in Rests(u) <=> k \in Rests(v)
  <2>1. k + 1 \in 0 .. Len(u) <=> k \in 0 .. Len(v)
    BY <1>1, <1>5
  <2>2. k + 1 = Len(u) <=> k = Len(v)
    BY <1>1, <1>5
  <2>3. k \in 0 .. Len(v) => From(u, k + 1 + 1) = From(v, k + 1)
    <3>1. k \in 0 .. Len(v) => k + 1 \in 1 .. Len(s) - n + 1
      BY <1>1, <1>5
    <3> QED
      BY <1>4, <3>1
  <2> QED
    BY <2>1, <2>2, <2>3 DEF Rests
<1> DEFINE a == Min(Rests(u))
           b == Min(Rests(v))
<1>8. /\ a \in Rests(u) /\ a \in 0 .. Len(u) /\ (\A k \in Rests(u) : a <= k) /\ QueryOf(u) = SubSeq(u, 1, a)
      /\ b \in Rests(v) /\ b \in 0 .. Len(v) /\ (\A k \in Rests(v) : b <= k) /\ QueryOf(v) = SubSeq(v, 1, b)
  BY <1>5, QueryOfIs
<1> HIDE DEF a, b
<1>9. a = b + 1
  <2>1. a \in Nat /\ b \in Nat /\ a # 0
    BY <1>6, <1>8
  <2>2. b + 1 \in Rests(u)
    BY <1>7, <1>8, <2>1
  <2>3. a - 1 \in Nat /\ (a - 1) + 1 = a
    BY <2>1
  <2>4. a - 1 \in Rests(v)
    BY <1>7, <1>8, <2>3
  <2>5. a <= b + 1 /\ b <= a - 1
    BY <1>8, <2>2, <2>4
  <2> QED
    BY <2>1, <2>5
<1>10. IsPiece(QueryOf(u), s, n, n + b)
  <2>1. /\ 1 \in 1 .. Len(u) + 1 /\ a \in 1 - 1 .. Len(u) /\ Len(s) \in Nat
        /\ n + 1 - 1 = n /\ n + a - 1 = n + b
    BY <1>1, <1>5, <1>8, <1>9
  <2>2. IsPiece(SubSeq(u, 1, a), s, n + 1 - 1, n + a - 1)
    BY <1>1, <1>2, <2>1, PieceOfPiece
  <2> QED
    BY <1>8, <2>1, <2>2
<1>11. IsPiece(QueryOf(v), s, n + 1, n + b)
  <2>1. /\ 1 \in 1 .. Len(v) + 1 /\ b \in 1 - 1 .. Len(v) /\ n + 1 \in Nat
        /\ (n + 1) + 1 - 1 = n + 1 /\ (n + 1) + b - 1 = n + b
    BY <1>1, <1>5, <1>8
  <2>2. IsPiece(SubSeq(v, 1, b), s, (n + 1) + 1 - 1, (n + 1) + b - 1)
    BY <1>1, <1>2, <2>1, PieceOfPiece
  <2> QED
    BY <1>8, <2>1, <2>2
<1>12. n + b \in Nat /\ n <= n + b /\ n + 1 \in Int /\ n + b \in Int
  BY <1>1, <1>8
<1>13. QueryOf(u) # <<>> /\ IsPiece(Tail(QueryOf(u)), s, n + 1, n + b)
  BY <1>1, <1>10, <1>12, TailIs
<1>14. Tail(QueryOf(u)) = QueryOf(v)
  BY <1>11, <1>12, <1>13, SamePiece
<1> QED
  BY <1>13, <1>14 DEF u, v

\* The queries that are taken apart are what a reader takes for them.
AfterMark(s) == IF s = <<>> THEN <<>> ELSE Tail(s)

LEMMA QueryRead ==
  ASSUME given \in Texts, Ordinary
  PROVE  /\ QueryText \in Texts
         /\ AfterMark(QueryOf(From(given, Len(PathOf(given)) + 1))) = QueryText
<1>1. Len(given) \in Nat
  BY DEF Texts
<1> DEFINE n == FirstIn(given, {"?", "#"})
<1>2. /\ n \in 0 .. Len(given) /\ (n > 0 => given[n] = "?")
      /\ PathOf(given) = IF n = 0 THEN given ELSE SubSeq(given, 1, n - 1)
      /\ QueryText = IF n = 0 \/ given[n] = "#" THEN <<>> ELSE QueryOf(From(given, n + 1))
  <2>1. n \in 0 .. Len(given)
    BY FirstIs
  <2>2. Len(given) > 1 /\ given[2] \notin {"?", "#"} /\ (n > 0 => given[n] = "?")
    BY DEF Ordinary
  <2>3. {"#", "?"} = {"?", "#"}
    OBVIOUS
  <2>4. PathOf(given) = UpTo(given, {"?", "#"})
    BY <2>2, <2>3 DEF PathOf
  <2>5. QueryText = IF n = 0 \/ given[n] = "#" THEN <<>> ELSE QueryOf(From(given, n + 1))
    BY DEF QueryText, QueryOf
  <2> QED
    BY <2>1, <2>2, <2>4, <2>5 DEF UpTo
<1> HIDE DEF n
<1>3. CASE n = 0
  <2>1. From(given, Len(given) + 1) = <<>>
    BY <1>1, SubSeqEmpty DEF From
  <2>2. <<>> \in Texts /\ Len(<<>>) = 0
    BY DEF Texts
  <2>3. QueryOf(<<>>) = <<>>
    <3>1. Min(Rests(<<>>)) \in 0 .. 0 /\ QueryOf(<<>>) = SubSeq(<<>>, 1, Min(Rests(<<>>)))
      BY <2>2, QueryOfIs
    <3>2. Min(Rests(<<>>)) = 0
      BY <3>1
    <3>3. SubSeq(<<>>, 1, 0) = <<>>
      BY <2>2, SubSeqEmpty
    <3> QED
      BY <3>1, <3>2, <3>3
  <2>4. PathOf(given) = given /\ QueryText = <<>>
    BY <1>2, <1>3
  <2> QED
    BY <2>1, <2>2, <2>3, <2>4 DEF AfterMark
<1>4. CASE n # 0
  <2>1. n \in 1 .. Len(given) /\ given[n] = "?" /\ given[n] # "#" /\ n > 0
    BY <1>1, <1>2, <1>4
  <2>2. PathOf(given) = SubSeq(given, 1, n - 1) /\ QueryText = QueryOf(From(given, n + 1))
    BY <1>2, <1>4, <2>1
  <2>3. Len(PathOf(given)) + 1 = n
    <3>1. 1 \in 1 .. Len(given) + 1 /\ n - 1 \in 1 - 1 .. Len(given)
      BY <1>1, <2>1
    <3>2. IsPiece(SubSeq(given, 1, n - 1), given, 1, n - 1)
      BY <3>1, PieceIs
    <3>3. Len(SubSeq(given, 1, n - 1)) = n - 1 - 1 + 1
      BY <3>2 DEF IsPiece
    <3> QED
      BY <1>1, <2>1, <2>2, <3>3
  <2>4. QueryOf(From(given, n)) # <<>> /\ Tail(QueryOf(From(given, n))) = QueryOf(From(given, n + 1))
    BY <2>1, MarkIsNone
  <2>5. QueryOf(From(given, n + 1)) \in Texts
    BY <1>1, <2>1, FromText, QueryOfText
  <2> QED
    BY <2>2, <2>3, <2>4, <2>5 DEF AfterMark
<1> QED
  BY <1>3, <1>4

\* How far the queries of the target are read.
QueriesRead(p) == ReadBefore(QueryText, queries, p)
QueriesInv ==
  /\ stage = "target" => queries = Empty
  /\ stage = "parts" => queries = Empty /\ (Ordinary => AfterMark(query) = QueryText)
  /\ stage = "queries" /\ Ordinary /\ Plain(QueryText) =>
       \E p \in 1 .. Len(QueryText) + 1 :
         /\ todo = From(QueryText, p)
         /\ p = 1 \/ p = Len(QueryText) + 1 \/ QueryText[p] \in QueryEnds
         /\ QueriesRead(p)
  /\ Parsed /\ Ordinary /\ Plain(QueryText) =>
       \E p \in Nat : QueriesRead(p) /\ QueriesBefore(QueryText, p) = QueriesIn(QueryText)

LEMMA FirstAppearanceIs == QueriesInv => FirstAppearance
<1> DEFINE s == QueryText
<1> SUFFICES ASSUME QueriesInv, Parsed, Ordinary, \A i \in Queries : OneQuery(In(s, i))
             PROVE  FirstAppearance
  BY DEF FirstAppearance
<1>1. Queries = QueriesIn(s)
  BY DEF Queries, QueriesIn
<1>2. PICK p \in Nat : ReadBefore(s, queries, p) /\ QueriesBefore(s, p) = QueriesIn(s)
  BY <1>1 DEF QueriesInv, QueriesRead, Plain
<1> HIDE DEF s
<1>3. DOMAIN queries = {NameIn(In(s, i)) : i \in Queries}
  BY <1>1, <1>2 DEF ReadBefore
<1>4. ASSUME NEW i \in Queries, \A j \in Queries : j[1] < i[1] => NameIn(In(s, j)) # NameIn(In(s, i))
      PROVE  /\ queries[NameIn(In(s, i))] = ValueIn(In(s, i))
             /\ ValueIn(In(s, i)) = <<>> => GetBool(NameIn(In(s, i))) = "true"
  <2>1. queries[NameIn(In(s, i))] = ValueIn(In(s, i))
    BY <1>1, <1>2, <1>4 DEF ReadBefore, Appears
  <2>2. NameIn(In(s, i)) \in DOMAIN queries
    BY <1>3
  <2> QED
    BY <2>1, <2>2 DEF GetBool, Lookup
<1>5. ASSUME NEW tag \in Tags, tag \notin DOMAIN queries PROVE GetBool(tag) = "none"
  <2>1. Lookup(tag) = <<>>
    BY <1>5 DEF Lookup
  <2>2. <<>> \notin {<<"0">>, <<"n", "o">>, <<"f", "a", "l", "s", "e">>}
    OBVIOUS
  <2> QED
    BY <1>5, <2>1, <2>2 DEF GetBool
<1> QED
  BY <1>3, <1>4, <1>5 DEF FirstAppearance, s

LEMMA QueriesInit == TextInit => QueriesInv
BY DEF TextInit, Reading, QueriesInv, Parsed

LEMMA QueriesStep == TextsOK /\ QueriesInv /\ [TextNext]_allVars => QueriesInv'
<1> SUFFICES ASSUME TextsOK, QueriesInv, [TextNext]_allVars PROVE QueriesInv'
  OBVIOUS
<1>1. given \in Texts
  BY DEF TextsOK
<1>2. ASSUME given' = given PROVE QueryText' = QueryText /\ (Ordinary' <=> Ordinary)
  BY <1>2 DEF QueryText, Ordinary
<1>3. CASE UNCHANGED <<stage, given, todo, query, queries>>
  BY <1>2, <1>3 DEF QueriesInv, QueriesRead, Parsed
<1>4. ASSUME stage' \notin {"target", "parts", "queries", "parsed", "flags", "read", "refused"}
      PROVE  QueriesInv'
  BY <1>4 DEF QueriesInv, Parsed
<1>5. ASSUME Parsed, Parsed', UNCHANGED <<given, queries>> PROVE QueriesInv'
  <2>1. stage' \notin {"target", "parts", "queries"}
    BY <1>5 DEF Parsed
  <2> QED
    BY <1>2, <1>5, <2>1 DEF QueriesInv, QueriesRead
<1>6. CASE ReadFlags \/ TakeFlag \/ TakeOnlyFlag \/ RefuseFlag \/ FlagsDone
  BY <1>5, <1>6 DEF ReadFlags, TakeFlag, TakeOnlyFlag, RefuseFlag, FlagsDone, Parsed
<1>7. CASE ReadHeader \/ TakeCoding \/ CodingsDone \/ HandleCompression
  BY <1>4, <1>7 DEF ReadHeader, TakeCoding, CodingsDone, HandleCompression, Compress
<1>8. CASE MatchTarget
  <2>1. /\ stage' = "parts" /\ queries' = Empty /\ given' = given
        /\ query' = QueryOf(From(given, Len(PathOf(given)) + 1))
    BY <1>8 DEF MatchTarget, QueriesInv
  <2>2. Ordinary' => AfterMark(query') = QueryText'
    BY <1>1, <1>2, <2>1, QueryRead
  <2> QED
    BY <2>1, <2>2 DEF QueriesInv, Parsed
<1>9. CASE TakePart
  <2>1. stage = "parts" /\ stage' = "parts" /\ UNCHANGED <<given, query, queries>>
    BY <1>9 DEF TakePart
  <2> QED
    BY <1>2, <2>1 DEF QueriesInv, Parsed
<1>10. CASE PartsDone
  <2>1. /\ stage = "parts" /\ stage' = "queries" /\ UNCHANGED <<given, query, queries>>
        /\ todo' = AfterMark(query)
    BY <1>10 DEF PartsDone, AfterMark
  <2>2. SUFFICES ASSUME Ordinary', Plain(QueryText)'
                 PROVE  \E p \in 1 .. Len(QueryText') + 1 :
                          /\ todo' = From(QueryText', p)
                          /\ p = 1 \/ p = Len(QueryText') + 1 \/ QueryText'[p] \in QueryEnds
                          /\ ReadBefore(QueryText', queries', p)
    BY <2>1 DEF QueriesInv, QueriesRead, Parsed
  <2>3. QueryText \in Texts /\ Len(QueryText) \in Nat /\ Plain(QueryText) /\ Ordinary
    BY <1>1, <1>2, <2>1, <2>2, QueryRead DEF Texts, Plain
  <2>4. todo' = QueryText /\ queries' = Empty
    BY <2>1, <2>3 DEF QueriesInv
  <2>5. From(QueryText, 1) = QueryText
    BY <2>3, SubSeqFull DEF From, Texts
  <2>6. QueriesBefore(QueryText, 1) = {}
    BY <2>3, QueryIs DEF QueriesBefore
  <2>7. ReadBefore(QueryText, Empty, 1)
    BY <2>6 DEF ReadBefore, Empty
  <2>8. 1 \in 1 .. Len(QueryText) + 1
    BY <2>3
  <2> QED
    BY <1>2, <2>1, <2>4, <2>5, <2>7, <2>8
<1>11. ASSUME stage = "queries", Ordinary, Plain(QueryText)
       PROVE  /\ QueryText \in Texts /\ Len(QueryText) \in Nat
              /\ \E p \in 1 .. Len(QueryText) + 1 :
                   /\ todo = From(QueryText, p)
                   /\ p = 1 \/ p = Len(QueryText) + 1 \/ QueryText[p] \in QueryEnds
                   /\ ReadBefore(QueryText, queries, p)
  BY <1>1, <1>11, QueryRead DEF QueriesInv, QueriesRead, Texts
<1>12. CASE TakeQuery
  <2>1. /\ stage = "queries" /\ stage' = "queries" /\ NameStarts(todo) # {} /\ given' = given
        /\ queries' = Emplaced(queries, Name(todo), Value(todo)) /\ todo' = Left(todo)
    BY <1>12 DEF TakeQuery
  <2>2. SUFFICES ASSUME Ordinary', Plain(QueryText)'
                 PROVE  \E p \in 1 .. Len(QueryText') + 1 :
                          /\ todo' = From(QueryText', p)
                          /\ p = 1 \/ p = Len(QueryText') + 1 \/ QueryText'[p] \in QueryEnds
                          /\ ReadBefore(QueryText', queries', p)
    BY <2>1 DEF QueriesInv, QueriesRead, Parsed
  <2>3. Plain(QueryText) /\ Ordinary
    BY <1>2, <2>1, <2>2 DEF Plain
  <2>4. PICK s \in Texts : s = QueryText /\ Len(s) \in Nat
    BY <1>11, <2>1, <2>3
  <2>5. PICK p \in 1 .. Len(s) + 1 :
          /\ todo = From(s, p) /\ (p = 1 \/ p = Len(s) + 1 \/ s[p] \in QueryEnds)
          /\ ReadBefore(s, queries, p)
    BY <1>11, <2>1, <2>3, <2>4
  <2>6. PICK m \in p .. Len(s) : \E b \in m .. Len(s) : QueryAt(s, p, todo, m, b)
    BY <2>1, <2>3, <2>4, <2>5, NextQuery
  <2>7. PICK b \in m .. Len(s) : QueryAt(s, p, todo, m, b)
    BY <2>6
  <2>8. p \in Nat /\ m \in Nat /\ b \in Nat /\ p <= m /\ b + 1 \in 1 .. Len(s) + 1
    BY <2>4
  <2>9. ReadBefore(s, queries', b + 1)
    <3>1. /\ Name(todo) = NameIn(In(s, <<m, b>>)) /\ Value(todo) = ValueIn(In(s, <<m, b>>))
          /\ <<m, b>> \in QueriesIn(s)
          /\ QueriesBefore(s, b + 1) = QueriesBefore(s, p) \cup {<<m, b>>}
      BY <2>7 DEF QueryAt
    <3>2. ReadBefore(s, Emplaced(queries, NameIn(In(s, <<m, b>>)), ValueIn(In(s, <<m, b>>))), b + 1)
      BY <2>3, <2>4, <2>5, <2>8, <3>1, ReadOne
    <3> QED
      BY <2>1, <3>1, <3>2
  <2>10. todo' = From(s, b + 1) /\ (b + 1 = Len(s) + 1 \/ s[b + 1] \in QueryEnds)
    BY <2>1, <2>7 DEF QueryAt
  <2> QED
    BY <1>2, <2>1, <2>4, <2>8, <2>9, <2>10
<1>13. CASE QueriesDone
  <2>1. /\ stage = "queries" /\ stage' = "parsed" /\ NameStarts(todo) = {}
        /\ UNCHANGED <<given, queries>>
    BY <1>13 DEF QueriesDone
  <2>2. SUFFICES ASSUME Ordinary', Plain(QueryText)'
                 PROVE  \E p \in Nat : /\ ReadBefore(QueryText', queries', p)
                                       /\ QueriesBefore(QueryText', p) = QueriesIn(QueryText')
    BY <2>1 DEF QueriesInv, QueriesRead, QueriesBefore, QueriesIn
  <2>3. Plain(QueryText) /\ Ordinary
    BY <1>2, <2>1, <2>2 DEF Plain
  <2>4. PICK p \in 1 .. Len(QueryText) + 1 :
          /\ todo = From(QueryText, p)
          /\ p = 1 \/ p = Len(QueryText) + 1 \/ QueryText[p] \in QueryEnds
          /\ ReadBefore(QueryText, queries, p)
    BY <1>11, <2>1, <2>3
  <2>5. QueryText \in Texts /\ Len(QueryText) \in Nat
    BY <1>11, <2>1, <2>3
  <2>6. QueriesBefore(QueryText, p) = QueriesIn(QueryText) /\ p \in Nat
    BY <2>1, <2>3, <2>4, <2>5, NameAt
  <2> QED
    BY <1>2, <2>1, <2>4, <2>6
<1> QED
  BY <1>3, <1>6, <1>7, <1>8, <1>9, <1>10, <1>12, <1>13
  DEF TextNext, ReadTarget, ReadQuery, Negotiate, allVars, textVars

\* parse_queries() keeps the queries of an ordinary target of any length, and of
\* two with the same name the first, which getBool() and the flags then see.
THEOREM FirstOfAName == TextSpec => []FirstAppearance
BY TextsHold, QueriesInit, QueriesStep, FirstAppearanceIs, PTL DEF TextSpec
=============================================================================
