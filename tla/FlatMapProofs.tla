--------------------------- MODULE FlatMapProofs ----------------------------
EXTENDS FlatMap, SequenceTheorems, FiniteSetTheorems, WellFoundedInduction, TLAPS

-----------------------------------------------------------------------------
(* Positions *)

\* A set of naturals that is not empty has a least element: the intervals below
\* its elements are ordered by inclusion.
LEMMA LeastNatural ==
  ASSUME NEW S \in SUBSET Nat, NEW m \in S
  PROVE  \E p \in S : \A n \in S : p <= n
<1> DEFINE Below == {1 .. n : n \in S \cap (0 .. m)}
<1>1. IsWellFoundedOn(StrictSubsetOrdering(1 .. m), FiniteSubsetsOf(1 .. m))
  BY FS_Interval, FS_StrictSubsetOrderingWellFounded
<1>2. ASSUME NEW B \in Below  PROVE B \in FiniteSubsetsOf(1 .. m)
  <2>1. PICK n \in S \cap (0 .. m) : B = 1 .. n
    OBVIOUS
  <2>2. IsFiniteSet(B) /\ B \subseteq 1 .. m
    BY <2>1, FS_Interval
  <2> QED BY <2>2 DEF FiniteSubsetsOf
<1>3. 1 .. m \in Below
  OBVIOUS
<1>4. PICK B \in Below : \A C \in Below : ~(<<C, B>> \in StrictSubsetOrdering(1 .. m))
  <2> HIDE DEF Below
  <2> QED BY <1>1, <1>2, <1>3, WFMin
<1>5. PICK p \in S \cap (0 .. m) : B = 1 .. p
  OBVIOUS
<1>6. ASSUME NEW n \in S, n < p  PROVE FALSE
  <2>1. 1 .. n \in Below
    BY <1>5, <1>6
  <2>2. 1 .. n \subseteq B /\ 1 .. n # B
    BY <1>5, <1>6
  <2>3. <<1 .. n, B>> \in StrictSubsetOrdering(1 .. m)
    BY <1>5, <1>6, <2>2 DEF StrictSubsetOrdering
  <2> QED BY <1>4, <2>1, <2>3
<1> QED
  BY <1>5, <1>6

\* lower_bound() finds a place, end() if need be: those before it are less.
LEMMA LowerBoundIs ==
  ASSUME NEW keys \in Seq(Int), NEW k \in Int
  PROVE  /\ LowerBound(keys, k) \in 1 .. Len(keys) + 1
         /\ \A n \in 1 .. LowerBound(keys, k) - 1 : keys[n] < k
         /\ LowerBound(keys, k) <= Len(keys) => keys[LowerBound(keys, k)] >= k
<1> DEFINE NotLess == {p \in 1 .. Len(keys) + 1 : p <= Len(keys) => ~(keys[p] < k)}
<1>1. NotLess \in SUBSET Nat /\ Len(keys) + 1 \in NotLess
  OBVIOUS
<1>2. PICK p \in NotLess : \A n \in NotLess : p <= n
  <2> HIDE DEF NotLess
  <2> QED BY <1>1, LeastNatural
<1>3. \A n \in 1 .. p - 1 : keys[n] < k
  BY <1>2
<1>4. /\ LowerBound(keys, k) \in 1 .. Len(keys) + 1
      /\ \A n \in 1 .. LowerBound(keys, k) - 1 : keys[n] < k
      /\ LowerBound(keys, k) <= Len(keys) => ~(keys[LowerBound(keys, k)] < k)
  BY <1>2, <1>3 DEF LowerBound
<1> QED
  BY <1>4

\* find_if() finds the first of the entries with the key, or end().
LEMMA FindEqualIs ==
  ASSUME NEW T, NEW keys \in Seq(T), NEW k
  PROVE  /\ FindEqual(keys, k) \in 1 .. Len(keys) + 1
         /\ \A n \in 1 .. FindEqual(keys, k) - 1 : keys[n] # k
         /\ FindEqual(keys, k) <= Len(keys) => keys[FindEqual(keys, k)] = k
<1> DEFINE Equal == {p \in 1 .. Len(keys) + 1 : p <= Len(keys) => keys[p] = k}
<1>1. Equal \in SUBSET Nat /\ Len(keys) + 1 \in Equal
  OBVIOUS
<1>2. PICK p \in Equal : \A n \in Equal : p <= n
  <2> HIDE DEF Equal
  <2> QED BY <1>1, LeastNatural
<1>3. \A n \in 1 .. p - 1 : keys[n] # k
  BY <1>2
<1> QED
  BY <1>2, <1>3 DEF FindEqual

-----------------------------------------------------------------------------
(* Vectors *)

\* r is s with e put at p; without what was at p; with its last element there.
Inserted(r, s, p, e) ==
  /\ Len(r) = Len(s) + 1
  /\ \A n \in 1 .. Len(s) + 1 : r[n] = IF n < p THEN s[n] ELSE IF n = p THEN e ELSE s[n - 1]
Removed(r, s, p) ==
  /\ Len(r) = Len(s) - 1
  /\ \A n \in 1 .. Len(s) - 1 : r[n] = IF n < p THEN s[n] ELSE s[n + 1]
Moved(r, s, p) ==
  /\ Len(r) = Len(s) - 1
  /\ \A n \in 1 .. Len(s) - 1 : r[n] = IF n = p THEN s[Len(s)] ELSE s[n]

LEMMA InsertAtIs ==
  ASSUME NEW T, NEW s \in Seq(T), NEW p \in 1 .. Len(s) + 1, NEW e \in T
  PROVE  InsertAt(s, p, e) \in Seq(T) /\ Inserted(InsertAt(s, p, e), s, p, e)
<1> DEFINE before == SubSeq(s, 1, p - 1)
           after  == SubSeq(s, p, Len(s))
<1>1. /\ before \in Seq(T) /\ Len(before) = p - 1
      /\ \A n \in 1 .. p - 1 : before[n] = s[n]
  <2>1. \A n \in 1 .. p - 1 : s[n] \in T
    OBVIOUS
  <2> QED BY <2>1, SubSeqProperties
<1>2. /\ after \in Seq(T) /\ Len(after) = Len(s) - p + 1
      /\ \A n \in 1 .. Len(s) - p + 1 : after[n] = s[n + p - 1]
  <2>1. \A n \in p .. Len(s) : s[n] \in T
    OBVIOUS
  <2> QED BY <2>1, SubSeqProperties
<1>3. InsertAt(s, p, e) = before \o <<e>> \o after
  BY DEF InsertAt
<1> HIDE DEF before, after
<1>4. /\ before \o <<e>> \in Seq(T) /\ Len(before \o <<e>>) = p
      /\ \A n \in 1 .. p : (before \o <<e>>)[n] = IF n < p THEN s[n] ELSE e
  <2>1. <<e>> \in Seq(T) /\ Len(<<e>>) = 1 /\ <<e>>[1] = e
    OBVIOUS
  <2> QED BY <1>1, <2>1, ConcatProperties
<1> QED
  BY <1>2, <1>3, <1>4, ConcatProperties DEF Inserted

LEMMA RemoveAtIs ==
  ASSUME NEW T, NEW s \in Seq(T), NEW p \in 1 .. Len(s)
  PROVE  RemoveAt(s, p) \in Seq(T) /\ Removed(RemoveAt(s, p), s, p)
<1> DEFINE before == SubSeq(s, 1, p - 1)
           after  == SubSeq(s, p + 1, Len(s))
<1>1. /\ before \in Seq(T) /\ Len(before) = p - 1
      /\ \A n \in 1 .. p - 1 : before[n] = s[n]
  <2>1. \A n \in 1 .. p - 1 : s[n] \in T
    OBVIOUS
  <2> QED BY <2>1, SubSeqProperties
<1>2. /\ after \in Seq(T) /\ Len(after) = Len(s) - p
      /\ \A n \in 1 .. Len(s) - p : after[n] = s[n + p]
  <2>1. \A n \in p + 1 .. Len(s) : s[n] \in T
    OBVIOUS
  <2> QED BY <2>1, SubSeqProperties
<1>3. RemoveAt(s, p) = before \o after
  BY DEF RemoveAt
<1> HIDE DEF before, after
<1> QED
  BY <1>1, <1>2, <1>3, ConcatProperties DEF Removed

LEMMA MoveLastIntoIs ==
  ASSUME NEW T, NEW s \in Seq(T), NEW p \in 1 .. Len(s)
  PROVE  MoveLastInto(s, p) \in Seq(T) /\ Moved(MoveLastInto(s, p), s, p)
<1> DEFINE t == [s EXCEPT ![p] = s[Len(s)]]
<1>1. /\ t \in Seq(T) /\ Len(t) = Len(s)
      /\ \A n \in 1 .. Len(s) : t[n] = IF n = p THEN s[Len(s)] ELSE s[n]
  OBVIOUS
<1>2. MoveLastInto(s, p) = SubSeq(t, 1, Len(t) - 1)
  BY DEF MoveLastInto, Front, Last
<1> HIDE DEF t
<1>3. \A n \in 1 .. Len(t) - 1 : t[n] \in T
  BY <1>1
<1> QED
  BY <1>1, <1>2, <1>3, SubSeqProperties DEF Moved

-----------------------------------------------------------------------------
(* Split storage *)

Splits == {s \in [keys : Seq(Keys), values : Seq(Values)] : Len(s.keys) = Len(s.values)}

LEMMA ZipIs ==
  ASSUME NEW s \in Splits
  PROVE  /\ Zipped(s) \in Seq(Entries)
         /\ Len(Zipped(s)) = Len(s.keys)
         /\ \A n \in 1 .. Len(s.keys) : Zipped(s)[n] = Entry(s.keys[n], s.values[n])
         /\ KeysOf(Zipped(s)) = s.keys
<1>1. s.keys \in Seq(Keys) /\ s.values \in Seq(Values) /\ Len(s.keys) = Len(s.values)
  BY DEF Splits
<1>2. \A n \in 1 .. Len(s.keys) : Entry(s.keys[n], s.values[n]) \in Entries
  BY <1>1 DEF Entry, Entries
<1>3. Zipped(s) = [n \in 1 .. Len(s.keys) |-> Entry(s.keys[n], s.values[n])]
  BY <1>1 DEF Zipped, Deref
<1>4. Zipped(s) \in Seq(Entries) /\ Len(Zipped(s)) = Len(s.keys)
  BY <1>1, <1>2, <1>3
<1>5. KeysOf(Zipped(s)) = [n \in 1 .. Len(s.keys) |-> s.keys[n]]
  BY <1>1, <1>3 DEF KeysOf, Entry
<1> QED
  BY <1>1, <1>3, <1>4, <1>5

\* Inserting into both vectors at one place inserts a pair there.
LEMMA ZipInsert ==
  ASSUME NEW s \in Splits, NEW p \in 1 .. Len(s.keys) + 1, NEW k \in Keys, NEW v \in Values,
         NEW t, t = [keys |-> InsertAt(s.keys, p, k), values |-> InsertAt(s.values, p, v)]
  PROVE  t \in Splits /\ Zipped(t) = InsertAt(Zipped(s), p, Entry(k, v))
<1>1. s.keys \in Seq(Keys) /\ s.values \in Seq(Values) /\ Len(s.keys) = Len(s.values)
  BY DEF Splits
<1>2. t.keys \in Seq(Keys) /\ Inserted(t.keys, s.keys, p, k)
  <2>1. t.keys = InsertAt(s.keys, p, k)
    OBVIOUS
  <2>2. InsertAt(s.keys, p, k) \in Seq(Keys) /\ Inserted(InsertAt(s.keys, p, k), s.keys, p, k)
    BY <1>1, InsertAtIs
  <2> QED BY <2>1, <2>2
<1>3. t.values \in Seq(Values) /\ Inserted(t.values, s.values, p, v)
  <2>1. t.values = InsertAt(s.values, p, v)
    OBVIOUS
  <2>2. p \in 1 .. Len(s.values) + 1
    BY <1>1
  <2>3. InsertAt(s.values, p, v) \in Seq(Values) /\ Inserted(InsertAt(s.values, p, v), s.values, p, v)
    BY <1>1, <2>2, InsertAtIs
  <2> QED BY <2>1, <2>3
<1>4. t \in Splits
  BY <1>1, <1>2, <1>3 DEF Splits, Inserted
<1>5. Entry(k, v) \in Entries
  BY DEF Entry, Entries
<1> DEFINE r == InsertAt(Zipped(s), p, Entry(k, v))
<1>6. r \in Seq(Entries) /\ Inserted(r, Zipped(s), p, Entry(k, v))
  BY <1>5, ZipIs, InsertAtIs
<1> HIDE DEF r
<1>7. ASSUME NEW n \in 1 .. Len(s.keys) + 1  PROVE Zipped(t)[n] = r[n]
  <2>1. Zipped(t)[n] = Entry(t.keys[n], t.values[n])
    BY <1>2, <1>4, ZipIs DEF Inserted
  <2>2. r[n] = IF n < p THEN Zipped(s)[n] ELSE IF n = p THEN Entry(k, v) ELSE Zipped(s)[n - 1]
    BY <1>6, ZipIs DEF Inserted
  <2>3. /\ t.keys[n] = IF n < p THEN s.keys[n] ELSE IF n = p THEN k ELSE s.keys[n - 1]
        /\ t.values[n] = IF n < p THEN s.values[n] ELSE IF n = p THEN v ELSE s.values[n - 1]
    BY <1>1, <1>2, <1>3 DEF Inserted
  <2>4. CASE n < p
    <3>1. Zipped(s)[n] = Entry(s.keys[n], s.values[n])
      BY <1>1, <2>4, ZipIs
    <3> QED BY <2>1, <2>2, <2>3, <2>4, <3>1
  <2>5. CASE n = p
    BY <2>1, <2>2, <2>3, <2>5
  <2>6. CASE n > p
    <3>1. Zipped(s)[n - 1] = Entry(s.keys[n - 1], s.values[n - 1])
      BY <1>1, <2>6, ZipIs
    <3> QED BY <2>1, <2>2, <2>3, <2>6, <3>1
  <2> QED BY <1>1, <2>4, <2>5, <2>6
<1>8. Zipped(t) \in Seq(Entries) /\ Len(Zipped(t)) = Len(s.keys) + 1
  BY <1>2, <1>4, ZipIs DEF Inserted
<1>9. Len(r) = Len(s.keys) + 1
  BY <1>6, ZipIs DEF Inserted
<1>10. Zipped(t) = r
  BY <1>6, <1>7, <1>8, <1>9, SeqEqual
<1> QED
  BY <1>4, <1>10 DEF r

LEMMA ZipRemove ==
  ASSUME NEW s \in Splits, NEW p \in 1 .. Len(s.keys),
         NEW t, t = [keys |-> RemoveAt(s.keys, p), values |-> RemoveAt(s.values, p)]
  PROVE  t \in Splits /\ Zipped(t) = RemoveAt(Zipped(s), p)
<1>1. s.keys \in Seq(Keys) /\ s.values \in Seq(Values) /\ Len(s.keys) = Len(s.values)
  BY DEF Splits
<1>2. t.keys \in Seq(Keys) /\ Removed(t.keys, s.keys, p)
  <2>1. t.keys = RemoveAt(s.keys, p)
    OBVIOUS
  <2>2. RemoveAt(s.keys, p) \in Seq(Keys) /\ Removed(RemoveAt(s.keys, p), s.keys, p)
    BY <1>1, RemoveAtIs
  <2> QED BY <2>1, <2>2
<1>3. t.values \in Seq(Values) /\ Removed(t.values, s.values, p)
  <2>1. t.values = RemoveAt(s.values, p)
    OBVIOUS
  <2>2. p \in 1 .. Len(s.values)
    BY <1>1
  <2>3. RemoveAt(s.values, p) \in Seq(Values) /\ Removed(RemoveAt(s.values, p), s.values, p)
    BY <1>1, <2>2, RemoveAtIs
  <2> QED BY <2>1, <2>3
<1>4. t \in Splits
  BY <1>1, <1>2, <1>3 DEF Splits, Removed
<1>5. RemoveAt(Zipped(s), p) \in Seq(Entries) /\ Removed(RemoveAt(Zipped(s), p), Zipped(s), p)
  BY ZipIs, RemoveAtIs
<1>6. ASSUME NEW n \in 1 .. Len(s.keys) - 1  PROVE Zipped(t)[n] = RemoveAt(Zipped(s), p)[n]
  <2>1. Zipped(t)[n] = Entry(t.keys[n], t.values[n])
    BY <1>2, <1>4, ZipIs DEF Removed
  <2>2. /\ Zipped(s)[n] = Entry(s.keys[n], s.values[n])
        /\ Zipped(s)[n + 1] = Entry(s.keys[n + 1], s.values[n + 1])
    BY <1>1, ZipIs
  <2>3. RemoveAt(Zipped(s), p)[n] = IF n < p THEN Zipped(s)[n] ELSE Zipped(s)[n + 1]
    BY <1>5, ZipIs DEF Removed
  <2>4. /\ t.keys[n] = IF n < p THEN s.keys[n] ELSE s.keys[n + 1]
        /\ t.values[n] = IF n < p THEN s.values[n] ELSE s.values[n + 1]
    BY <1>1, <1>2, <1>3 DEF Removed
  <2>5. CASE n < p
    BY <2>1, <2>2, <2>3, <2>4, <2>5
  <2>6. CASE n >= p
    BY <2>1, <2>2, <2>3, <2>4, <2>6
  <2> QED BY <2>5, <2>6
<1>7. Zipped(t) \in Seq(Entries) /\ Len(Zipped(t)) = Len(s.keys) - 1
  BY <1>2, <1>4, ZipIs DEF Removed
<1>8. Len(RemoveAt(Zipped(s), p)) = Len(s.keys) - 1 /\ RemoveAt(Zipped(s), p) \in Seq(Entries)
  BY <1>5, ZipIs DEF Removed
<1>9. Zipped(t) = RemoveAt(Zipped(s), p)
  BY <1>6, <1>7, <1>8, SeqEqual
<1> QED
  BY <1>4, <1>9

LEMMA ZipMove ==
  ASSUME NEW s \in Splits, NEW p \in 1 .. Len(s.keys),
         NEW t, t = [keys |-> MoveLastInto(s.keys, p), values |-> MoveLastInto(s.values, p)]
  PROVE  t \in Splits /\ Zipped(t) = MoveLastInto(Zipped(s), p)
<1>1. s.keys \in Seq(Keys) /\ s.values \in Seq(Values) /\ Len(s.keys) = Len(s.values)
  BY DEF Splits
<1>2. t.keys \in Seq(Keys) /\ Moved(t.keys, s.keys, p)
  <2>1. t.keys = MoveLastInto(s.keys, p)
    OBVIOUS
  <2>2. MoveLastInto(s.keys, p) \in Seq(Keys) /\ Moved(MoveLastInto(s.keys, p), s.keys, p)
    BY <1>1, MoveLastIntoIs
  <2> QED BY <2>1, <2>2
<1>3. t.values \in Seq(Values) /\ Moved(t.values, s.values, p)
  <2>1. t.values = MoveLastInto(s.values, p)
    OBVIOUS
  <2>2. p \in 1 .. Len(s.values)
    BY <1>1
  <2>3. MoveLastInto(s.values, p) \in Seq(Values) /\ Moved(MoveLastInto(s.values, p), s.values, p)
    BY <1>1, <2>2, MoveLastIntoIs
  <2> QED BY <2>1, <2>3
<1>4. t \in Splits
  BY <1>1, <1>2, <1>3 DEF Splits, Moved
<1>5. MoveLastInto(Zipped(s), p) \in Seq(Entries) /\ Moved(MoveLastInto(Zipped(s), p), Zipped(s), p)
  BY ZipIs, MoveLastIntoIs
<1>6. ASSUME NEW n \in 1 .. Len(s.keys) - 1  PROVE Zipped(t)[n] = MoveLastInto(Zipped(s), p)[n]
  <2>1. Zipped(t)[n] = Entry(t.keys[n], t.values[n])
    BY <1>2, <1>4, ZipIs DEF Moved
  <2>2. Zipped(s)[n] = Entry(s.keys[n], s.values[n])
    BY <1>1, ZipIs
  <2>3. Zipped(s)[Len(s.keys)] = Entry(s.keys[Len(s.keys)], s.values[Len(s.keys)])
    BY <1>1, ZipIs
  <2>4. MoveLastInto(Zipped(s), p)[n] = IF n = p THEN Zipped(s)[Len(s.keys)] ELSE Zipped(s)[n]
    BY <1>5, ZipIs DEF Moved
  <2>5. /\ t.keys[n] = IF n = p THEN s.keys[Len(s.keys)] ELSE s.keys[n]
        /\ t.values[n] = IF n = p THEN s.values[Len(s.keys)] ELSE s.values[n]
    BY <1>1, <1>2, <1>3 DEF Moved
  <2>6. CASE n = p
    BY <2>1, <2>3, <2>4, <2>5, <2>6
  <2>7. CASE n # p
    BY <2>1, <2>2, <2>4, <2>5, <2>7
  <2> QED BY <2>6, <2>7
<1>7. Zipped(t) \in Seq(Entries) /\ Len(Zipped(t)) = Len(s.keys) - 1
  BY <1>2, <1>4, ZipIs DEF Moved
<1>8. Len(MoveLastInto(Zipped(s), p)) = Len(s.keys) - 1 /\ MoveLastInto(Zipped(s), p) \in Seq(Entries)
  BY <1>5, ZipIs DEF Moved
<1>9. Zipped(t) = MoveLastInto(Zipped(s), p)
  BY <1>6, <1>7, <1>8, SeqEqual
<1> QED
  BY <1>4, <1>9

LEMMA ZipAppend ==
  ASSUME NEW s \in Splits, NEW k \in Keys, NEW v \in Values,
         NEW t, t = [keys |-> Append(s.keys, k), values |-> Append(s.values, v)]
  PROVE  t \in Splits /\ Zipped(t) = Append(Zipped(s), Entry(k, v))
<1>1. s.keys \in Seq(Keys) /\ s.values \in Seq(Values) /\ Len(s.keys) = Len(s.values)
  BY DEF Splits
<1>2. /\ t.keys \in Seq(Keys) /\ Len(t.keys) = Len(s.keys) + 1
      /\ \A n \in 1 .. Len(s.keys) : t.keys[n] = s.keys[n]
      /\ t.keys[Len(s.keys) + 1] = k
  BY <1>1, AppendProperties
<1>3. /\ t.values \in Seq(Values) /\ Len(t.values) = Len(s.keys) + 1
      /\ \A n \in 1 .. Len(s.keys) : t.values[n] = s.values[n]
      /\ t.values[Len(s.keys) + 1] = v
  BY <1>1, AppendProperties
<1>4. t \in Splits
  BY <1>2, <1>3 DEF Splits
<1>5. /\ Append(Zipped(s), Entry(k, v)) \in Seq(Entries)
      /\ Len(Append(Zipped(s), Entry(k, v))) = Len(s.keys) + 1
      /\ \A n \in 1 .. Len(s.keys) : Append(Zipped(s), Entry(k, v))[n] = Zipped(s)[n]
      /\ Append(Zipped(s), Entry(k, v))[Len(s.keys) + 1] = Entry(k, v)
  <2>1. Entry(k, v) \in Entries
    BY DEF Entry, Entries
  <2> QED BY <2>1, ZipIs, AppendProperties
<1>6. ASSUME NEW n \in 1 .. Len(s.keys) + 1  PROVE Zipped(t)[n] = Append(Zipped(s), Entry(k, v))[n]
  <2>1. Zipped(t)[n] = Entry(t.keys[n], t.values[n])
    BY <1>2, <1>4, ZipIs
  <2>2. CASE n = Len(s.keys) + 1
    <3>1. t.keys[n] = k /\ t.values[n] = v /\ Append(Zipped(s), Entry(k, v))[n] = Entry(k, v)
      BY <1>2, <1>3, <1>5, <2>2
    <3> QED BY <2>1, <3>1
  <2>3. CASE n \in 1 .. Len(s.keys)
    <3>1. t.keys[n] = s.keys[n] /\ t.values[n] = s.values[n]
      BY <1>2, <1>3, <2>3
    <3>2. Append(Zipped(s), Entry(k, v))[n] = Zipped(s)[n]
      BY <1>5, <2>3
    <3>3. Zipped(s)[n] = Entry(s.keys[n], s.values[n])
      BY <2>3, ZipIs
    <3> QED BY <2>1, <3>1, <3>2, <3>3
  <2>4. n = Len(s.keys) + 1 \/ n \in 1 .. Len(s.keys)
    BY <1>1
  <2> QED BY <2>2, <2>3, <2>4
<1>7. Zipped(t) \in Seq(Entries) /\ Len(Zipped(t)) = Len(s.keys) + 1
  BY <1>2, <1>4, ZipIs
<1> QED
  BY <1>4, <1>5, <1>6, <1>7, SeqEqual

\* The assignments of a value, in either layout.
PairSet(s, p, v)  == [s EXCEPT ![p].value = v]
SplitSet(s, p, v) == [s EXCEPT !.values[p] = v]

LEMMA ZipSet ==
  ASSUME NEW s \in Splits, NEW p \in 1 .. Len(s.keys), NEW v \in Values,
         NEW t, t = SplitSet(s, p, v)
  PROVE  t \in Splits /\ Zipped(t) = PairSet(Zipped(s), p, v)
<1>1. s.keys \in Seq(Keys) /\ s.values \in Seq(Values) /\ Len(s.keys) = Len(s.values)
  BY DEF Splits
<1>2. t = [keys |-> s.keys, values |-> [s.values EXCEPT ![p] = v]]
  BY DEF Splits, SplitSet
<1>3. /\ t.values \in Seq(Values) /\ Len(t.values) = Len(s.keys)
      /\ \A n \in 1 .. Len(s.keys) : t.values[n] = IF n = p THEN v ELSE s.values[n]
  BY <1>1, <1>2
<1>4. t \in Splits
  BY <1>1, <1>2, <1>3 DEF Splits
<1>5. Entry(s.keys[p], v) \in Entries
  BY <1>1 DEF Entry, Entries
<1>6. PairSet(Zipped(s), p, v) = [Zipped(s) EXCEPT ![p] = Entry(s.keys[p], v)]
  <2>1. Zipped(s)[p] = Entry(s.keys[p], s.values[p])
    BY <1>1, ZipIs
  <2>2. [Zipped(s)[p] EXCEPT !.value = v] = Entry(s.keys[p], v)
    BY <2>1 DEF Entry
  <2> QED BY <2>2 DEF PairSet
<1>7. ASSUME NEW n \in 1 .. Len(s.keys)
      PROVE  Zipped(t)[n] = [Zipped(s) EXCEPT ![p] = Entry(s.keys[p], v)][n]
  <2>1. Zipped(t)[n] = Entry(s.keys[n], t.values[n])
    BY <1>2, <1>4, ZipIs
  <2>2. Zipped(s)[n] = Entry(s.keys[n], s.values[n])
    BY <1>1, ZipIs
  <2>3. [Zipped(s) EXCEPT ![p] = Entry(s.keys[p], v)][n]
          = IF n = p THEN Entry(s.keys[p], v) ELSE Zipped(s)[n]
    BY ZipIs, <1>5, ExceptSeq
  <2> QED BY <1>3, <2>1, <2>2, <2>3
<1>8. Zipped(t) \in Seq(Entries) /\ Len(Zipped(t)) = Len(s.keys)
  BY <1>2, <1>4, ZipIs
<1>9. /\ [Zipped(s) EXCEPT ![p] = Entry(s.keys[p], v)] \in Seq(Entries)
      /\ Len([Zipped(s) EXCEPT ![p] = Entry(s.keys[p], v)]) = Len(s.keys)
  BY <1>5, ZipIs, ExceptSeq
<1> QED
  BY <1>4, <1>6, <1>7, <1>8, <1>9, SeqEqual

-----------------------------------------------------------------------------
(* Vectors of pairs with distinct keys *)

Distinct(s) == \A m, n \in 1 .. Len(s) : s[m].key = s[n].key => m = n
WithKey(s, k) == {e \in Range(s) : e.key = k}

LEMMA KeysOfIs ==
  ASSUME NEW s \in Seq(Entries)
  PROVE  /\ KeysOf(s) \in Seq(Keys) /\ Len(KeysOf(s)) = Len(s)
         /\ \A n \in 1 .. Len(s) : KeysOf(s)[n] = s[n].key /\ s[n].key \in Keys
<1>1. ASSUME NEW n \in 1 .. Len(s)  PROVE s[n].key \in Keys
  <2>1. s[n] \in Entries
    BY ElementOfSeq
  <2> QED BY <2>1 DEF Entries
<1> QED
  BY <1>1 DEF KeysOf

LEMMA RangeIs ==
  ASSUME NEW s \in Seq(Entries)
  PROVE  Range(s) = {s[n] : n \in 1 .. Len(s)} /\ Range(s) \subseteq Entries
  BY RangeEquality, RangeOfSeq

LEMMA EntryIs ==
  ASSUME NEW k \in Keys, NEW v \in Values
  PROVE  Entry(k, v) \in Entries /\ Entry(k, v).key = k /\ Entry(k, v).value = v
  BY DEF Entry, Entries

\* Ascending keys are distinct.
LEMMA AscendingIsDistinct ==
  ASSUME NEW s \in Seq(Entries), Ascending(KeysOf(s))
  PROVE  Distinct(s)
<1> SUFFICES ASSUME NEW m \in 1 .. Len(s), NEW n \in 1 .. Len(s), s[m].key = s[n].key, m # n
             PROVE  FALSE
  BY DEF Distinct
<1>1. KeysOf(s)[m] \in Int /\ KeysOf(s)[n] \in Int /\ KeysOf(s)[m] = KeysOf(s)[n]
  BY KeysOfIs, KeysAssumption
<1>2. m \in DOMAIN KeysOf(s) /\ n \in DOMAIN KeysOf(s)
  BY KeysOfIs
<1> QED
  BY <1>1, <1>2 DEF Ascending

\* The entry at a position is the only one with its key.
LEMMA OnlyOne ==
  ASSUME NEW s \in Seq(Entries), Distinct(s), NEW p \in 1 .. Len(s)
  PROVE  WithKey(s, s[p].key) = {s[p]}
  BY RangeIs DEF Distinct, WithKey

LEMMA NoneWithKey ==
  ASSUME NEW s \in Seq(Entries), NEW k, \A n \in 1 .. Len(s) : s[n].key # k
  PROVE  WithKey(s, k) = {}
  BY RangeIs DEF WithKey

\* r has what s has, and e at p; all but what s has for k; what s has, but v for
\* the value of the entry at p.
Adds(r, s, p, e) ==
  r \in Seq(Entries) /\ p \in 1 .. Len(r) /\ r[p] = e /\ Range(r) = Range(s) \cup {e}
Drops(r, s, k) ==
  r \in Seq(Entries) /\ Range(r) = Range(s) \ WithKey(s, k)
Sets(r, s, p, v) ==
  /\ r \in Seq(Entries) /\ Len(r) = Len(s) /\ KeysOf(r) = KeysOf(s)
  /\ r[p] = Entry(s[p].key, v)
  /\ Range(r) = (Range(s) \ WithKey(s, s[p].key)) \cup {Entry(s[p].key, v)}

LEMMA SetValue ==
  ASSUME NEW s \in Seq(Entries), Distinct(s), NEW p \in 1 .. Len(s), NEW v \in Values,
         NEW r, r = PairSet(s, p, v)
  PROVE  Sets(r, s, p, v) /\ Distinct(r)
<1>1. s[p] \in Entries /\ s[p].key \in Keys
  BY ElementOfSeq, KeysOfIs
<1>2. [s[p] EXCEPT !.value = v] = Entry(s[p].key, v)
  BY <1>1 DEF Entry, Entries
<1>3. r = [s EXCEPT ![p] = Entry(s[p].key, v)]
  BY <1>2 DEF PairSet
<1>4. Entry(s[p].key, v) \in Entries /\ Entry(s[p].key, v).key = s[p].key
  BY <1>1, EntryIs
<1>5. /\ r \in Seq(Entries) /\ Len(r) = Len(s)
      /\ \A n \in 1 .. Len(s) : r[n] = IF n = p THEN Entry(s[p].key, v) ELSE s[n]
  BY <1>3, <1>4, ExceptSeq
<1>6. \A n \in 1 .. Len(s) : r[n].key = s[n].key
  BY <1>4, <1>5
<1>7. KeysOf(r) = KeysOf(s)
  BY <1>5, <1>6 DEF KeysOf
<1>8. Distinct(r)
  BY <1>5, <1>6 DEF Distinct
<1>9. WithKey(s, s[p].key) = {s[p]}
  BY OnlyOne
<1>10. \A n \in 1 .. Len(s) : s[n] = s[p] => n = p
  BY DEF Distinct
<1>11. Range(r) = {r[n] : n \in 1 .. Len(s)} /\ Range(s) = {s[n] : n \in 1 .. Len(s)}
  BY <1>5, RangeIs
<1>12. Range(r) = (Range(s) \ {s[p]}) \cup {Entry(s[p].key, v)}
  BY <1>5, <1>10, <1>11
<1> QED
  BY <1>5, <1>7, <1>8, <1>9, <1>12 DEF Sets

LEMMA InsertEntry ==
  ASSUME NEW s \in Seq(Entries), NEW p \in 1 .. Len(s) + 1, NEW e \in Entries,
         NEW r, r = InsertAt(s, p, e)
  PROVE  Inserted(r, s, p, e) /\ Adds(r, s, p, e)
<1>1. r \in Seq(Entries) /\ Inserted(r, s, p, e)
  BY InsertAtIs
<1>2. r[p] = e /\ p \in 1 .. Len(r)
  BY <1>1 DEF Inserted
<1>3. Range(r) = {r[n] : n \in 1 .. Len(s) + 1} /\ Range(s) = {s[n] : n \in 1 .. Len(s)}
  BY <1>1, RangeIs DEF Inserted
<1>4. ASSUME NEW n \in 1 .. Len(s)  PROVE s[n] \in Range(r)
  <2>1. CASE n < p
    <3>1. r[n] = s[n] /\ n \in 1 .. Len(s) + 1
      BY <1>1, <2>1 DEF Inserted
    <3> QED BY <1>3, <3>1
  <2>2. CASE n >= p
    <3>1. r[n + 1] = s[n] /\ n + 1 \in 1 .. Len(s) + 1
      BY <1>1, <2>2 DEF Inserted
    <3> QED BY <1>3, <3>1
  <2> QED BY <2>1, <2>2
<1>5. ASSUME NEW n \in 1 .. Len(s) + 1  PROVE r[n] \in Range(s) \cup {e}
  BY <1>1, <1>3 DEF Inserted
<1>6. e \in Range(r)
  BY <1>2, <1>1, RangeIs
<1>7. Range(s) \subseteq Range(r) /\ Range(r) \subseteq Range(s) \cup {e}
  BY <1>3, <1>4, <1>5
<1>8. Range(r) = Range(s) \cup {e}
  BY <1>6, <1>7
<1> QED
  BY <1>1, <1>2, <1>8 DEF Adds

LEMMA RemoveEntry ==
  ASSUME NEW s \in Seq(Entries), Distinct(s), NEW p \in 1 .. Len(s),
         NEW r, r = RemoveAt(s, p)
  PROVE  Removed(r, s, p) /\ Drops(r, s, s[p].key)
<1>1. r \in Seq(Entries) /\ Removed(r, s, p)
  BY RemoveAtIs
<1>2. Range(r) = {r[n] : n \in 1 .. Len(s) - 1} /\ Range(s) = {s[n] : n \in 1 .. Len(s)}
  BY <1>1, RangeIs DEF Removed
<1>3. \A n \in 1 .. Len(s) : s[n] = s[p] => n = p
  BY DEF Distinct
<1>4. ASSUME NEW n \in 1 .. Len(s), n # p  PROVE s[n] \in Range(r)
  <2>1. CASE n < p
    <3>1. r[n] = s[n] /\ n \in 1 .. Len(s) - 1
      BY <1>1, <2>1 DEF Removed
    <3> QED BY <1>2, <3>1
  <2>2. CASE n > p
    <3>1. r[n - 1] = s[n] /\ n - 1 \in 1 .. Len(s) - 1
      BY <1>1, <2>2 DEF Removed
    <3> QED BY <1>2, <3>1
  <2> QED BY <1>4, <2>1, <2>2
<1>5. ASSUME NEW n \in 1 .. Len(s) - 1  PROVE r[n] \in Range(s) \ {s[p]}
  <2>1. CASE n < p
    <3>1. r[n] = s[n] /\ n \in 1 .. Len(s) /\ n # p
      BY <1>1, <2>1 DEF Removed
    <3> QED BY <1>2, <1>3, <3>1
  <2>2. CASE n >= p
    <3>1. r[n] = s[n + 1] /\ n + 1 \in 1 .. Len(s) /\ n + 1 # p
      BY <1>1, <2>2 DEF Removed
    <3> QED BY <1>2, <1>3, <3>1
  <2> QED BY <2>1, <2>2
<1>6. Range(r) = Range(s) \ {s[p]}
  BY <1>2, <1>4, <1>5
<1> QED
  BY <1>1, <1>6, OnlyOne DEF Drops

LEMMA MoveEntry ==
  ASSUME NEW s \in Seq(Entries), Distinct(s), NEW p \in 1 .. Len(s),
         NEW r, r = MoveLastInto(s, p)
  PROVE  Drops(r, s, s[p].key) /\ Distinct(r)
<1>1. r \in Seq(Entries) /\ Moved(r, s, p)
  BY MoveLastIntoIs
<1>2. Range(r) = {r[n] : n \in 1 .. Len(s) - 1} /\ Range(s) = {s[n] : n \in 1 .. Len(s)}
  BY <1>1, RangeIs DEF Moved
<1>3. \A n \in 1 .. Len(s) : s[n] = s[p] => n = p
  BY DEF Distinct
<1>4. ASSUME NEW n \in 1 .. Len(s), n # p  PROVE s[n] \in Range(r)
  <2>1. CASE n = Len(s)
    <3>1. r[p] = s[n] /\ p \in 1 .. Len(s) - 1
      BY <1>1, <1>4, <2>1 DEF Moved
    <3> QED BY <1>2, <3>1
  <2>2. CASE n < Len(s)
    <3>1. r[n] = s[n] /\ n \in 1 .. Len(s) - 1
      BY <1>1, <1>4, <2>2 DEF Moved
    <3> QED BY <1>2, <3>1
  <2> QED BY <2>1, <2>2
<1>5. ASSUME NEW n \in 1 .. Len(s) - 1  PROVE r[n] \in Range(s) \ {s[p]}
  <2>1. CASE n = p
    <3>1. r[n] = s[Len(s)] /\ Len(s) \in 1 .. Len(s) /\ Len(s) # p
      BY <1>1, <2>1 DEF Moved
    <3> QED BY <1>2, <1>3, <3>1
  <2>2. CASE n # p
    <3>1. r[n] = s[n] /\ n \in 1 .. Len(s)
      BY <1>1, <2>2 DEF Moved
    <3> QED BY <1>2, <1>3, <2>2, <3>1
  <2> QED BY <2>1, <2>2
<1>6. Range(r) = Range(s) \ {s[p]}
  BY <1>2, <1>4, <1>5
<1>7. Distinct(r)
  <2> DEFINE from(n) == IF n = p THEN Len(s) ELSE n
  <2>1. Len(r) = Len(s) - 1 /\ \A n \in 1 .. Len(s) - 1 : r[n] = s[from(n)]
    BY <1>1 DEF Moved
  <2>2. \A n \in 1 .. Len(s) - 1 : from(n) \in 1 .. Len(s)
    OBVIOUS
  <2>3. \A m, n \in 1 .. Len(s) - 1 : from(m) = from(n) => m = n
    OBVIOUS
  <2> HIDE DEF from
  <2> QED
    BY <2>1, <2>2, <2>3 DEF Distinct
<1> QED
  BY <1>1, <1>6, <1>7, OnlyOne DEF Drops

LEMMA AppendEntry ==
  ASSUME NEW s \in Seq(Entries), Distinct(s), NEW e \in Entries, WithKey(s, e.key) = {},
         NEW r, r = Append(s, e)
  PROVE  Adds(r, s, Len(s) + 1, e) /\ Distinct(r)
<1>1. /\ r \in Seq(Entries) /\ Len(r) = Len(s) + 1 /\ r[Len(s) + 1] = e
      /\ \A n \in 1 .. Len(s) : r[n] = s[n]
  BY AppendProperties
<1>2. Range(r) = {r[n] : n \in 1 .. Len(s) + 1} /\ Range(s) = {s[n] : n \in 1 .. Len(s)}
  BY <1>1, RangeIs
<1>3. Range(r) = Range(s) \cup {e}
  <2>1. \A n \in 1 .. Len(s) + 1 : n = Len(s) + 1 \/ n \in 1 .. Len(s)
    OBVIOUS
  <2>2. \A n \in 1 .. Len(s) : n \in 1 .. Len(s) + 1
    OBVIOUS
  <2>3. Len(s) + 1 \in 1 .. Len(s) + 1
    OBVIOUS
  <2> QED BY <1>1, <1>2, <2>1, <2>2, <2>3
<1>4. \A n \in 1 .. Len(s) : s[n].key # e.key
  BY <1>2 DEF WithKey
<1>5. Distinct(r)
  BY <1>1, <1>4 DEF Distinct
<1> QED
  BY <1>1, <1>3, <1>5 DEF Adds

-----------------------------------------------------------------------------
(* find_key() and find_if() on them *)

\* p is the place of k in s: of its entry if there is one, else where it would go.
PlaceOf(p, found, s, k) ==
  /\ p \in 1 .. Len(s) + 1
  /\ found => p \in 1 .. Len(s) /\ s[p].key = k /\ WithKey(s, k) = {s[p]}
  /\ ~found => WithKey(s, k) = {}

LEMMA FindKeyIs ==
  ASSUME NEW s \in Seq(Entries), Ascending(KeysOf(s)), NEW k \in Keys
  PROVE  \E p \in 1 .. Len(s) + 1, found \in BOOLEAN :
           /\ FindKey(KeysOf(s), k).at = p /\ FindKey(KeysOf(s), k).exact = found
           /\ PlaceOf(p, found, s, k)
           /\ ~found => \A n \in 1 .. Len(s) : IF n < p THEN s[n].key < k ELSE k < s[n].key
<1> DEFINE f == FindKey(KeysOf(s), k)
<1> DEFINE keys == KeysOf(s)
           p    == LowerBound(keys, k)
<1>1. /\ keys \in Seq(Int) /\ k \in Int /\ Len(keys) = Len(s)
      /\ \A n \in 1 .. Len(s) : keys[n] = s[n].key
      /\ \A m, n \in 1 .. Len(s) : m < n => keys[m] < keys[n]
  <2>1. keys \in Seq(Int)
    BY KeysOfIs, KeysAssumption, SeqMonotonic
  <2> QED BY <2>1, KeysOfIs, KeysAssumption DEF Ascending
<1>2. f.at = p /\ f.exact \in BOOLEAN /\ (f.exact <=> p <= Len(s) /\ ~(k < keys[p]))
  <2> DEFINE here == p <= Len(keys) /\ ~(k < keys[p])
  <2>1. f.at = p /\ f.exact = here
    BY DEF FindKey
  <2>2. here \in BOOLEAN
    OBVIOUS
  <2>3. here <=> p <= Len(s) /\ ~(k < keys[p])
    <3> HIDE DEF keys, p
    <3> QED BY <1>1
  <2> HIDE DEF keys, p, here
  <2> QED BY <2>1, <2>2, <2>3, Zenon
<1> HIDE DEF keys
<1>3. /\ p \in 1 .. Len(s) + 1
      /\ \A n \in 1 .. p - 1 : keys[n] < k
      /\ p <= Len(s) => keys[p] >= k
  BY <1>1, LowerBoundIs
<1> HIDE DEF p
<1>4. \A n \in 1 .. Len(s) : keys[n] \in Int
  BY <1>1
<1>5. ASSUME f.exact  PROVE p \in 1 .. Len(s) /\ s[p].key = k
  BY <1>1, <1>2, <1>3, <1>4, <1>5
<1>6. ASSUME f.exact  PROVE WithKey(s, k) = {s[p]}
  BY <1>5, <1>6, AscendingIsDistinct, OnlyOne
<1>7. ASSUME ~f.exact, NEW n \in 1 .. Len(s)
      PROVE  IF n < p THEN s[n].key < k ELSE k < s[n].key
  <2>1. CASE n < p
    BY <1>1, <1>3, <2>1
  <2>2. CASE n >= p
    <3>1. k < keys[p] /\ p \in 1 .. Len(s)
      BY <1>1, <1>2, <1>3, <1>4, <1>7, <2>2
    <3>2. keys[p] < keys[n] \/ n = p
      BY <1>1, <3>1, <2>2
    <3> QED BY <1>1, <1>3, <1>4, <2>2, <3>1, <3>2
  <2> QED BY <1>3, <2>1, <2>2
<1>8. ASSUME ~f.exact  PROVE WithKey(s, k) = {}
  <2>1. \A n \in 1 .. Len(s) : s[n].key # k
    BY <1>1, <1>3, <1>4, <1>7, <1>8
  <2> QED BY <2>1, NoneWithKey
<1> DEFINE found == f.exact
<1>9. PlaceOf(p, found, s, k)
  BY <1>3, <1>5, <1>6, <1>8 DEF PlaceOf
<1> QED
  BY <1>2, <1>3, <1>7, <1>9


\* Inserting where find_key() says keeps the keys ascending.
LEMMA InsertKeepsOrder ==
  ASSUME NEW s \in Seq(Entries), Ascending(KeysOf(s)), NEW k \in Keys, NEW v \in Values,
         NEW p \in 1 .. Len(s) + 1,
         \A n \in 1 .. Len(s) : IF n < p THEN s[n].key < k ELSE k < s[n].key,
         NEW r, r = InsertAt(s, p, Entry(k, v))
  PROVE  Ascending(KeysOf(r))
<1>2. r \in Seq(Entries) /\ Inserted(r, s, p, Entry(k, v)) /\ Entry(k, v).key = k
  BY EntryIs, InsertEntry DEF Adds
<1>3. \A n \in 1 .. Len(s) : s[n].key \in Int
  BY KeysOfIs, KeysAssumption
<1>4. \A m, n \in 1 .. Len(s) : m < n => s[m].key < s[n].key
  BY KeysOfIs DEF Ascending
<1>5. ASSUME NEW m \in 1 .. Len(s) + 1, NEW n \in 1 .. Len(s) + 1, m < n
      PROVE  r[m].key < r[n].key
  <2>1. /\ r[m] = IF m < p THEN s[m] ELSE IF m = p THEN Entry(k, v) ELSE s[m - 1]
        /\ r[n] = IF n < p THEN s[n] ELSE IF n = p THEN Entry(k, v) ELSE s[n - 1]
    BY <1>2 DEF Inserted
  <2>2. CASE n < p
    BY <1>4, <1>5, <2>1, <2>2
  <2>3. CASE n = p
    BY <1>2, <1>5, <2>1, <2>3
  <2>4. CASE n > p
    <3>1. r[n] = s[n - 1] /\ n - 1 \in 1 .. Len(s) /\ ~(n - 1 < p)
      BY <2>1, <2>4
    <3>2. CASE m < p
      BY <1>4, <2>1, <3>1, <3>2
    <3>3. CASE m = p
      BY <1>2, <2>1, <3>1, <3>3
    <3>4. CASE m > p
      <4>1. r[m] = s[m - 1] /\ m - 1 \in 1 .. Len(s) /\ m - 1 < n - 1
        BY <1>5, <2>1, <3>4
      <4> QED BY <1>4, <3>1, <4>1
    <3> QED BY <3>2, <3>3, <3>4
  <2> QED BY <2>2, <2>3, <2>4
<1>6. Len(r) = Len(s) + 1
  BY <1>2 DEF Inserted
<1> QED
  BY <1>2, <1>5, <1>6, KeysOfIs DEF Ascending

LEMMA RemoveKeepsOrder ==
  ASSUME NEW s \in Seq(Entries), Ascending(KeysOf(s)), NEW p \in 1 .. Len(s),
         NEW r, r = RemoveAt(s, p)
  PROVE  Ascending(KeysOf(r))
<1>1. r \in Seq(Entries) /\ Removed(r, s, p)
  BY AscendingIsDistinct, RemoveEntry DEF Drops
<1>2. \A m, n \in 1 .. Len(s) : m < n => s[m].key < s[n].key
  BY KeysOfIs DEF Ascending
<1>3. ASSUME NEW m \in 1 .. Len(s) - 1, NEW n \in 1 .. Len(s) - 1, m < n
      PROVE  r[m].key < r[n].key
  <2>1. /\ r[m] = s[IF m < p THEN m ELSE m + 1]
        /\ r[n] = s[IF n < p THEN n ELSE n + 1]
    BY <1>1 DEF Removed
  <2>2. (IF m < p THEN m ELSE m + 1) < (IF n < p THEN n ELSE n + 1)
    BY <1>3
  <2>3. /\ (IF m < p THEN m ELSE m + 1) \in 1 .. Len(s)
        /\ (IF n < p THEN n ELSE n + 1) \in 1 .. Len(s)
    OBVIOUS
  <2> QED BY <1>2, <2>1, <2>2, <2>3
<1>4. DOMAIN KeysOf(r) = 1 .. Len(s) - 1 /\ \A n \in 1 .. Len(s) - 1 : KeysOf(r)[n] = r[n].key
  BY <1>1, KeysOfIs DEF Removed
<1> QED
  BY <1>3, <1>4 DEF Ascending

LEMMA FindEntry ==
  ASSUME NEW s \in Seq(Entries), Distinct(s), NEW k \in Keys,
         NEW p, p = FindEqual(KeysOf(s), k)
  PROVE  PlaceOf(p, p <= Len(s), s, k) /\ (~(p <= Len(s)) => p = Len(s) + 1)
<1>1. KeysOf(s) \in Seq(Keys) /\ Len(KeysOf(s)) = Len(s)
  BY KeysOfIs
<1>2. /\ p \in 1 .. Len(s) + 1
      /\ \A n \in 1 .. p - 1 : KeysOf(s)[n] # k
      /\ p <= Len(s) => KeysOf(s)[p] = k
  BY <1>1, FindEqualIs
<1>3. ASSUME p <= Len(s)  PROVE p \in 1 .. Len(s) /\ s[p].key = k
  BY <1>2, <1>3, KeysOfIs
<1>4. ASSUME ~(p <= Len(s))  PROVE p = Len(s) + 1 /\ \A n \in 1 .. Len(s) : s[n].key # k
  BY <1>2, <1>4, KeysOfIs
<1> QED
  BY <1>2, <1>3, <1>4, OnlyOne, NoneWithKey DEF PlaceOf

-----------------------------------------------------------------------------
(* The steps of the sorted containers *)

SortedInv ==
  /\ flat \in Seq(Entries) /\ split \in Splits
  /\ flat = Zipped(split) /\ flatRet = splitRet /\ flatRet \in Results
  /\ Ascending(KeysOf(flat))

LEMMA DerefIs ==
  ASSUME NEW s \in Splits, NEW p \in 1 .. Len(Zipped(s))
  PROVE  Deref(s, p) = Zipped(s)[p]
  BY ZipIs DEF Deref

LEMMA ResultIs ==
  ASSUME NEW e \in Entries \cup {Nothing}, NEW b \in BOOLEAN
  PROVE  Result(e, b) \in Results
  BY DEF Result, Results

LEMMA SortedInsert ==
  ASSUME SortedInv, NEW k \in Keys, NEW v \in Values, FlatInsert(k, v), SplitInsert(k, v)
  PROVE  SortedInv' /\ AsFlat!Insert(k, v)
<1>1. flat \in Seq(Entries) /\ KeysOf(flat) = split.keys /\ Len(flat) = Len(split.keys)
  BY ZipIs DEF SortedInv
<1>2. PICK p \in 1 .. Len(flat) + 1, found \in BOOLEAN :
        /\ FindKey(KeysOf(flat), k).at = p /\ FindKey(KeysOf(flat), k).exact = found
        /\ PlaceOf(p, found, flat, k)
        /\ ~found => \A n \in 1 .. Len(flat) : IF n < p THEN flat[n].key < k ELSE k < flat[n].key
  BY FindKeyIs DEF SortedInv
<1>3. /\ flat' = IF found THEN flat ELSE InsertAt(flat, p, Entry(k, v))
      /\ flatRet' = Result(flat'[p], ~found)
      /\ split' = IF found THEN split ELSE SplitInsertAt(p, k, v)
      /\ splitRet' = Result(Deref(split', p), ~found)
  BY <1>1, <1>2 DEF FlatInsert, SplitInsert
<1>4. CASE found
  <2>1. flat' = flat /\ split' = split /\ p \in 1 .. Len(flat)
    BY <1>2, <1>3, <1>4 DEF PlaceOf
  <2>2. Deref(split', p) = flat[p] /\ flat[p] \in Entries
    BY <1>1, <2>1, DerefIs, ElementOfSeq DEF SortedInv
  <2>3. flatRet' = Result(flat[p], FALSE) /\ splitRet' = flatRet'
    BY <1>3, <1>4, <2>1, <2>2
  <2>4. SortedInv'
    BY <2>1, <2>2, <2>3, ResultIs DEF SortedInv
  <2>5. flat[p] \in AsFlat!Of(k)
    BY <1>2, <1>4 DEF AsFlat!Of, WithKey, PlaceOf
  <2> QED BY <2>1, <2>3, <2>4, <2>5 DEF AsFlat!Insert, AsFlat!Result, Result
<1>5. CASE ~found
  <2> PICK e \in Entries : e = Entry(k, v)
    BY EntryIs
  <2>1. flat' = InsertAt(flat, p, e) /\ split' = SplitInsertAt(p, k, v)
    BY <1>3, <1>5
  <2>2. Adds(flat', flat, p, e)
    BY <1>1, <2>1, InsertEntry
  <2>3. split' \in Splits /\ Zipped(split') = flat'
    BY <1>1, <2>1, ZipInsert DEF SortedInv, SplitInsertAt
  <2>4. flatRet' = Result(e, TRUE) /\ splitRet' = flatRet'
    BY <1>3, <1>5, <2>2, <2>3, DerefIs DEF Adds
  <2>5. Ascending(KeysOf(flat'))
    BY <1>1, <1>2, <1>5, <2>1, InsertKeepsOrder DEF SortedInv
  <2>6. SortedInv'
    BY <2>2, <2>3, <2>4, <2>5, ResultIs DEF SortedInv, Adds
  <2>7. AsFlat!Of(k) = {}
    BY <1>2, <1>5 DEF AsFlat!Of, WithKey, PlaceOf
  <2> QED BY <2>2, <2>4, <2>6, <2>7
          DEF AsFlat!Insert, AsFlat!Has, AsFlat!Result, AsFlat!Entry, Adds, Entry, Result
<1> QED
  BY <1>4, <1>5

\* Setting a value in both layouts.
LEMMA SetBoth ==
  ASSUME NEW z \in Splits, Distinct(Zipped(z)), NEW p \in 1 .. Len(Zipped(z)), NEW v \in Values,
         NEW s, s = PairSet(Zipped(z), p, v), NEW y, y = SplitSet(z, p, v)
  PROVE  y \in Splits /\ Zipped(y) = s /\ Sets(s, Zipped(z), p, v) /\ Distinct(s) /\ Deref(y, p) = s[p]
<1>1. Zipped(z) \in Seq(Entries) /\ p \in 1 .. Len(z.keys)
  BY ZipIs
<1>2. y \in Splits /\ Zipped(y) = s
  BY <1>1, ZipSet
<1>3. Sets(s, Zipped(z), p, v) /\ Distinct(s)
  BY <1>1, SetValue
<1>4. p \in 1 .. Len(Zipped(y))
  BY <1>2, <1>3 DEF Sets
<1> QED
  BY <1>2, <1>3, <1>4, DerefIs

LEMMA SortedInsertOrAssign ==
  ASSUME SortedInv, NEW k \in Keys, NEW v \in Values,
         FlatInsertOrAssign(k, v), SplitInsertOrAssign(k, v)
  PROVE  SortedInv' /\ AsFlat!InsertOrAssign(k, v)
<1>1. flat \in Seq(Entries) /\ KeysOf(flat) = split.keys /\ Len(flat) = Len(split.keys)
  BY ZipIs DEF SortedInv
<1>2. PICK p \in 1 .. Len(flat) + 1, found \in BOOLEAN :
        /\ FindKey(KeysOf(flat), k).at = p /\ FindKey(KeysOf(flat), k).exact = found
        /\ PlaceOf(p, found, flat, k)
        /\ ~found => \A n \in 1 .. Len(flat) : IF n < p THEN flat[n].key < k ELSE k < flat[n].key
  BY FindKeyIs DEF SortedInv
<1>3. /\ flat' = IF found THEN PairSet(flat, p, v) ELSE InsertAt(flat, p, Entry(k, v))
      /\ flatRet' = Result(flat'[p], ~found)
      /\ split' = IF found THEN SplitSet(split, p, v) ELSE SplitInsertAt(p, k, v)
      /\ splitRet' = Result(Deref(split', p), ~found)
  BY <1>1, <1>2 DEF FlatInsertOrAssign, SplitInsertOrAssign, PairSet, SplitSet
<1>4. CASE found
  <2>1. /\ flat' = PairSet(flat, p, v) /\ split' = SplitSet(split, p, v)
        /\ p \in 1 .. Len(flat) /\ PlaceOf(p, TRUE, flat, k)
    BY <1>2, <1>3, <1>4 DEF PlaceOf
  <2>2. Distinct(flat)
    BY <1>1, AscendingIsDistinct DEF SortedInv
  <2>3. /\ split' \in Splits /\ Zipped(split') = flat' /\ Sets(flat', flat, p, v)
        /\ Deref(split', p) = flat'[p]
    <3>1. split \in Splits /\ Zipped(split) = flat
      BY DEF SortedInv
    <3> QED BY <2>1, <2>2, <3>1, SetBoth
  <2>4. /\ flat' \in Seq(Entries) /\ KeysOf(flat') = KeysOf(flat) /\ flat'[p] = Entry(k, v)
        /\ Range(flat') = (Range(flat) \ WithKey(flat, k)) \cup {Entry(k, v)}
    BY <2>1, <2>3 DEF PlaceOf, Sets
  <2>5. flatRet' = Result(Entry(k, v), FALSE) /\ splitRet' = flatRet'
    BY <1>3, <1>4, <2>3, <2>4
  <2>6. SortedInv'
    BY <2>3, <2>4, <2>5, EntryIs, ResultIs DEF SortedInv
  <2>7. AsFlat!Of(k) = WithKey(flat, k) /\ AsFlat!Of(k) # {}
    BY <1>2, <1>4 DEF AsFlat!Of, WithKey, PlaceOf
  <2> QED BY <2>4, <2>5, <2>6, <2>7
          DEF AsFlat!InsertOrAssign, AsFlat!Has, AsFlat!Result, AsFlat!Entry, Entry, Result
<1>5. CASE ~found
  <2> PICK e \in Entries : e = Entry(k, v)
    BY EntryIs
  <2>1. flat' = InsertAt(flat, p, e) /\ split' = SplitInsertAt(p, k, v)
    BY <1>3, <1>5
  <2>2. Adds(flat', flat, p, e)
    BY <1>1, <2>1, InsertEntry
  <2>3. split' \in Splits /\ Zipped(split') = flat'
    BY <1>1, <2>1, ZipInsert DEF SortedInv, SplitInsertAt
  <2>4. flatRet' = Result(e, TRUE) /\ splitRet' = flatRet'
    BY <1>3, <1>5, <2>2, <2>3, DerefIs DEF Adds
  <2>5. Ascending(KeysOf(flat'))
    BY <1>1, <1>2, <1>5, <2>1, InsertKeepsOrder DEF SortedInv
  <2>6. SortedInv'
    BY <2>2, <2>3, <2>4, <2>5, ResultIs DEF SortedInv, Adds
  <2>7. AsFlat!Of(k) = {}
    BY <1>2, <1>5 DEF AsFlat!Of, WithKey, PlaceOf
  <2> QED BY <2>2, <2>4, <2>6, <2>7
          DEF AsFlat!InsertOrAssign, AsFlat!Has, AsFlat!Result, AsFlat!Entry, Adds, Entry, Result
<1> QED
  BY <1>4, <1>5

LEMMA SortedStore ==
  ASSUME SortedInv, NEW k \in Keys, NEW v \in Values, FlatStore(k, v), SplitStore(k, v)
  PROVE  SortedInv' /\ AsFlat!Store(k, v)
<1>1. flat \in Seq(Entries) /\ KeysOf(flat) = split.keys /\ Len(flat) = Len(split.keys)
  BY ZipIs DEF SortedInv
<1>2. PICK p \in 1 .. Len(flat) + 1, found \in BOOLEAN :
        /\ FindKey(KeysOf(flat), k).at = p /\ FindKey(KeysOf(flat), k).exact = found
        /\ PlaceOf(p, found, flat, k)
        /\ ~found => \A n \in 1 .. Len(flat) : IF n < p THEN flat[n].key < k ELSE k < flat[n].key
  BY FindKeyIs DEF SortedInv
<1> PICK s : s = IF found THEN flat ELSE InsertAt(flat, p, Entry(k, Default))
  OBVIOUS
<1> PICK z : z = IF found THEN split ELSE SplitInsertAt(p, k, Default)
  OBVIOUS
<1>3. /\ flat' = PairSet(s, p, v)
      /\ flatRet' = Result(flat'[p], FALSE)
      /\ split' = SplitSet(z, p, v)
      /\ splitRet' = Result(Deref(split', p), FALSE)
  BY <1>1, <1>2 DEF FlatStore, SplitStore, PairSet, SplitSet
<1>4. /\ z \in Splits /\ Zipped(z) = s /\ s \in Seq(Entries) /\ Ascending(KeysOf(s))
      /\ p \in 1 .. Len(s) /\ s[p].key = k
      /\ Range(s) \ WithKey(s, k) = Range(flat) \ WithKey(flat, k)
  <2>1. CASE found
    BY <1>1, <1>2, <2>1 DEF PlaceOf, SortedInv
  <2>2. CASE ~found
    <3> PICK e \in Entries : e = Entry(k, Default)
      BY EntryIs, ValuesAssumption
    <3>1. s = InsertAt(flat, p, e) /\ z = SplitInsertAt(p, k, Default) /\ e.key = k
      BY <2>2, EntryIs, ValuesAssumption
    <3>2. Adds(s, flat, p, e)
      BY <1>1, <3>1, InsertEntry
    <3>3. z \in Splits /\ Zipped(z) = s
      BY <1>1, <3>1, ZipInsert, ValuesAssumption DEF SortedInv, SplitInsertAt
    <3>4. Ascending(KeysOf(s))
      BY <1>1, <1>2, <2>2, <3>1, InsertKeepsOrder, ValuesAssumption DEF SortedInv
    <3>5. WithKey(flat, k) = {}
      BY <1>2, <2>2 DEF PlaceOf
    <3>6. Range(s) \ WithKey(s, k) = Range(flat) \ WithKey(flat, k)
      BY <3>1, <3>2, <3>5 DEF Adds, WithKey
    <3> QED BY <3>1, <3>2, <3>3, <3>4, <3>6 DEF Adds
  <2> QED BY <2>1, <2>2
<1>5. Distinct(Zipped(z))
  BY <1>4, AscendingIsDistinct
<1>6. /\ split' \in Splits /\ Zipped(split') = flat' /\ Sets(flat', s, p, v)
      /\ Deref(split', p) = flat'[p]
  BY <1>3, <1>4, <1>5, SetBoth
<1>7. /\ flat' \in Seq(Entries) /\ KeysOf(flat') = KeysOf(s) /\ flat'[p] = Entry(k, v)
      /\ Range(flat') = (Range(flat) \ WithKey(flat, k)) \cup {Entry(k, v)}
  BY <1>4, <1>6 DEF Sets
<1>8. flatRet' = Result(Entry(k, v), FALSE) /\ splitRet' = flatRet'
  BY <1>3, <1>6, <1>7
<1>9. SortedInv'
  BY <1>4, <1>6, <1>7, <1>8, EntryIs, ResultIs DEF SortedInv
<1>10. AsFlat!Of(k) = WithKey(flat, k)
  BY DEF AsFlat!Of, WithKey
<1> QED
  BY <1>7, <1>8, <1>9, <1>10 DEF AsFlat!Store, AsFlat!Result, AsFlat!Entry, Entry, Result

LEMMA SortedErase ==
  ASSUME SortedInv, NEW k \in Keys, FlatErase(k), SplitErase(k)
  PROVE  SortedInv' /\ AsFlat!Erase(k)
<1>1. flat \in Seq(Entries) /\ KeysOf(flat) = split.keys /\ Len(flat) = Len(split.keys)
  BY ZipIs DEF SortedInv
<1>2. PICK p \in 1 .. Len(flat) + 1, found \in BOOLEAN :
        /\ FindKey(KeysOf(flat), k).at = p /\ FindKey(KeysOf(flat), k).exact = found
        /\ PlaceOf(p, found, flat, k)
        /\ ~found => \A n \in 1 .. Len(flat) : IF n < p THEN flat[n].key < k ELSE k < flat[n].key
  BY FindKeyIs DEF SortedInv
<1> PICK z : z = [keys |-> RemoveAt(split.keys, p), values |-> RemoveAt(split.values, p)]
  OBVIOUS
<1>3. /\ flat' = IF found THEN RemoveAt(flat, p) ELSE flat
      /\ flatRet' = Result(Nothing, found)
      /\ split' = IF found THEN z ELSE split
      /\ splitRet' = Result(Nothing, found)
  BY <1>1, <1>2 DEF FlatErase, SplitErase
<1>4. flatRet' \in Results /\ splitRet' = flatRet'
  BY <1>3, ResultIs
<1>5. AsFlat!Of(k) = WithKey(flat, k)
  BY DEF AsFlat!Of, WithKey
<1>6. CASE found
  <2>1. flat' = RemoveAt(flat, p) /\ split' = z /\ p \in 1 .. Len(flat) /\ flat[p].key = k
    BY <1>2, <1>3, <1>6 DEF PlaceOf
  <2>2. Distinct(flat)
    BY <1>1, AscendingIsDistinct DEF SortedInv
  <2>3. Drops(flat', flat, k)
    BY <1>1, <2>1, <2>2, RemoveEntry
  <2>4. split' \in Splits /\ Zipped(split') = flat'
    BY <1>1, <2>1, ZipRemove DEF SortedInv
  <2>5. Ascending(KeysOf(flat'))
    BY <1>1, <2>1, RemoveKeepsOrder DEF SortedInv
  <2>6. SortedInv'
    BY <1>4, <2>3, <2>4, <2>5 DEF SortedInv, Drops
  <2>7. AsFlat!Has(k) = found
    BY <1>2, <1>5, <1>6 DEF AsFlat!Has, PlaceOf
  <2> QED BY <1>3, <1>5, <2>3, <2>6, <2>7 DEF AsFlat!Erase, AsFlat!Result, Result, Drops
<1>7. CASE ~found
  <2>1. flat' = flat /\ split' = split
    BY <1>3, <1>7
  <2>2. SortedInv'
    BY <1>4, <2>1 DEF SortedInv
  <2>3. AsFlat!Of(k) = {} /\ AsFlat!Has(k) = found
    BY <1>2, <1>5, <1>7 DEF AsFlat!Has, PlaceOf
  <2> QED BY <1>3, <2>1, <2>2, <2>3 DEF AsFlat!Erase, AsFlat!Result, Result
<1> QED
  BY <1>6, <1>7

LEMMA SortedFind ==
  ASSUME SortedInv, NEW k \in Keys, FlatFind(k), SplitFind(k)
  PROVE  SortedInv' /\ AsFlat!Find(k)
<1>1. flat \in Seq(Entries) /\ KeysOf(flat) = split.keys /\ Len(flat) = Len(split.keys)
  BY ZipIs DEF SortedInv
<1>2. PICK p \in 1 .. Len(flat) + 1, found \in BOOLEAN :
        /\ FindKey(KeysOf(flat), k).at = p /\ FindKey(KeysOf(flat), k).exact = found
        /\ PlaceOf(p, found, flat, k)
        /\ ~found => \A n \in 1 .. Len(flat) : IF n < p THEN flat[n].key < k ELSE k < flat[n].key
  BY FindKeyIs DEF SortedInv
<1>3. /\ flat' = flat /\ split' = split
      /\ flatRet' = IF found THEN Result(flat[p], TRUE) ELSE NoResult
      /\ splitRet' = IF found THEN Result(Deref(split, p), TRUE) ELSE NoResult
  BY <1>1, <1>2 DEF FlatFind, SplitFind
<1>4. AsFlat!Of(k) = WithKey(flat, k)
  BY DEF AsFlat!Of, WithKey
<1>5. CASE found
  <2>1. p \in 1 .. Len(flat) /\ WithKey(flat, k) = {flat[p]}
    BY <1>2, <1>5 DEF PlaceOf
  <2>2. Deref(split, p) = flat[p] /\ flat[p] \in Entries
    BY <1>1, <2>1, DerefIs, ElementOfSeq DEF SortedInv
  <2>3. SortedInv'
    BY <1>3, <1>5, <2>2, ResultIs DEF SortedInv
  <2> QED BY <1>3, <1>4, <1>5, <2>1, <2>3 DEF AsFlat!Find, AsFlat!Result, Result
<1>6. CASE ~found
  <2>1. SortedInv'
    BY <1>3, <1>6, ResultIs DEF SortedInv, NoResult
  <2>2. ~AsFlat!Has(k)
    BY <1>2, <1>4, <1>6 DEF AsFlat!Has, PlaceOf
  <2> QED BY <1>3, <1>6, <2>1, <2>2
          DEF AsFlat!Find, AsFlat!NoResult, AsFlat!Result, NoResult, Result
<1> QED
  BY <1>5, <1>6

-----------------------------------------------------------------------------
(* The steps of the unordered containers *)

BagInv ==
  /\ bag \in Seq(Entries) /\ splitbag \in Splits
  /\ bag = Zipped(splitbag) /\ bagRet = splitbagRet /\ bagRet \in Results
  /\ Distinct(bag)

LEMMA BagPlace ==
  ASSUME BagInv, NEW k \in Keys
  PROVE  \E p \in 1 .. Len(bag) + 1, found \in BOOLEAN :
           /\ FindEqual(KeysOf(bag), k) = p /\ FindEqual(splitbag.keys, k) = p
           /\ (p <= Len(bag)) = found /\ (p > Len(bag)) = ~found
           /\ (p <= Len(splitbag.keys)) = found
           /\ PlaceOf(p, found, bag, k)
           /\ ~found => p = Len(bag) + 1
<1>1. bag \in Seq(Entries) /\ KeysOf(bag) = splitbag.keys /\ Len(bag) = Len(splitbag.keys)
  BY ZipIs DEF BagInv
<1> PICK p : p = FindEqual(KeysOf(bag), k)
  OBVIOUS
<1> DEFINE found == p <= Len(bag)
           missed == p > Len(bag)
<1>2. PlaceOf(p, found, bag, k) /\ (~found => p = Len(bag) + 1)
  BY FindEntry DEF BagInv
<1>3. p \in 1 .. Len(bag) + 1
  BY <1>2 DEF PlaceOf
<1>4. (missed <=> ~found) /\ missed \in BOOLEAN /\ found \in BOOLEAN
  BY <1>1, <1>3
<1>5. (p <= Len(splitbag.keys)) = found
  BY <1>1, Zenon
<1> HIDE DEF found, missed
<1>6. missed = ~found
  BY <1>4, Zenon
<1> QED
  BY <1>1, <1>2, <1>3, <1>4, <1>5, <1>6 DEF found, missed

LEMMA BagInsertIs ==
  ASSUME BagInv, NEW k \in Keys, NEW v \in Values, BagInsert(k, v), SplitBagInsert(k, v)
  PROVE  BagInv' /\ AsBag!Insert(k, v)
<1>1. bag \in Seq(Entries) /\ Len(bag) = Len(splitbag.keys) /\ Distinct(bag)
      /\ splitbag \in Splits /\ Zipped(splitbag) = bag
  BY ZipIs DEF BagInv
<1>2. PICK p \in 1 .. Len(bag) + 1, found \in BOOLEAN :
        /\ FindEqual(KeysOf(bag), k) = p /\ FindEqual(splitbag.keys, k) = p
        /\ (p <= Len(bag)) = found /\ (p > Len(bag)) = ~found
        /\ (p <= Len(splitbag.keys)) = found
        /\ PlaceOf(p, found, bag, k)
        /\ ~found => p = Len(bag) + 1
  BY BagPlace
<1>3. /\ bag' = IF found THEN bag ELSE Append(bag, Entry(k, v))
      /\ bagRet' = Result(bag'[p], ~found)
      /\ splitbag' = IF found THEN splitbag ELSE SplitBagAppend(k, v)
      /\ splitbagRet' = Result(Deref(splitbag', p), ~found)
  BY <1>2 DEF BagInsert, SplitBagInsert
<1>4. CASE found
  <2>1. bag' = bag /\ splitbag' = splitbag /\ p \in 1 .. Len(bag)
    BY <1>2, <1>3, <1>4 DEF PlaceOf
  <2>2. Deref(splitbag', p) = bag[p] /\ bag[p] \in Entries
    BY <1>1, <2>1, DerefIs, ElementOfSeq
  <2>3. bagRet' = Result(bag[p], FALSE) /\ splitbagRet' = bagRet'
    BY <1>3, <1>4, <2>1, <2>2
  <2>4. BagInv'
    BY <2>1, <2>2, <2>3, ResultIs DEF BagInv
  <2>5. bag[p] \in AsBag!Of(k)
    BY <1>2, <1>4 DEF AsBag!Of, WithKey, PlaceOf
  <2> QED BY <2>1, <2>3, <2>4, <2>5 DEF AsBag!Insert, AsBag!Result, Result
<1>5. CASE ~found
  <2> PICK e \in Entries : e = Entry(k, v)
    BY EntryIs
  <2>1. bag' = Append(bag, e) /\ splitbag' = SplitBagAppend(k, v) /\ p = Len(bag) + 1
    BY <1>2, <1>3, <1>5
  <2>2. WithKey(bag, e.key) = {}
    BY <1>2, <1>5, EntryIs DEF PlaceOf
  <2>3. Adds(bag', bag, p, e) /\ Distinct(bag')
    BY <1>1, <2>1, <2>2, AppendEntry
  <2>4. splitbag' \in Splits /\ Zipped(splitbag') = bag'
    BY <1>1, <2>1, ZipAppend DEF SplitBagAppend
  <2>5. bagRet' = Result(e, TRUE) /\ splitbagRet' = bagRet'
    BY <1>3, <1>5, <2>3, <2>4, DerefIs DEF Adds
  <2>6. BagInv'
    BY <2>3, <2>4, <2>5, ResultIs DEF BagInv, Adds
  <2>7. AsBag!Of(k) = {}
    BY <1>2, <1>5 DEF AsBag!Of, WithKey, PlaceOf
  <2> QED BY <2>3, <2>5, <2>6, <2>7
          DEF AsBag!Insert, AsBag!Has, AsBag!Result, AsBag!Entry, Adds, Entry, Result
<1> QED
  BY <1>4, <1>5

LEMMA BagInsertOrAssignIs ==
  ASSUME BagInv, NEW k \in Keys, NEW v \in Values,
         BagInsertOrAssign(k, v), SplitBagInsertOrAssign(k, v)
  PROVE  BagInv' /\ AsBag!InsertOrAssign(k, v)
<1>1. bag \in Seq(Entries) /\ Len(bag) = Len(splitbag.keys) /\ Distinct(bag)
      /\ splitbag \in Splits /\ Zipped(splitbag) = bag
  BY ZipIs DEF BagInv
<1>2. PICK p \in 1 .. Len(bag) + 1, found \in BOOLEAN :
        /\ FindEqual(KeysOf(bag), k) = p /\ FindEqual(splitbag.keys, k) = p
        /\ (p <= Len(bag)) = found /\ (p > Len(bag)) = ~found
        /\ (p <= Len(splitbag.keys)) = found
        /\ PlaceOf(p, found, bag, k)
        /\ ~found => p = Len(bag) + 1
  BY BagPlace
<1>3. /\ bag' = IF found THEN PairSet(bag, p, v) ELSE Append(bag, Entry(k, v))
      /\ bagRet' = Result(bag'[p], ~found)
      /\ splitbag' = IF found THEN SplitSet(splitbag, p, v) ELSE SplitBagAppend(k, v)
      /\ splitbagRet' = Result(Deref(splitbag', p), ~found)
  BY <1>2 DEF BagInsertOrAssign, SplitBagInsertOrAssign, PairSet, SplitSet
<1>4. CASE found
  <2>1. /\ bag' = PairSet(bag, p, v) /\ splitbag' = SplitSet(splitbag, p, v)
        /\ p \in 1 .. Len(bag) /\ PlaceOf(p, TRUE, bag, k)
    BY <1>2, <1>3, <1>4 DEF PlaceOf
  <2>2. /\ splitbag' \in Splits /\ Zipped(splitbag') = bag' /\ Sets(bag', bag, p, v)
        /\ Distinct(bag') /\ Deref(splitbag', p) = bag'[p]
    BY <1>1, <2>1, SetBoth
  <2>3. /\ bag' \in Seq(Entries) /\ bag'[p] = Entry(k, v)
        /\ Range(bag') = (Range(bag) \ WithKey(bag, k)) \cup {Entry(k, v)}
    BY <2>1, <2>2 DEF PlaceOf, Sets
  <2>4. bagRet' = Result(Entry(k, v), FALSE) /\ splitbagRet' = bagRet'
    BY <1>3, <1>4, <2>2, <2>3
  <2>5. BagInv'
    BY <2>2, <2>3, <2>4, EntryIs, ResultIs DEF BagInv
  <2>6. AsBag!Of(k) = WithKey(bag, k) /\ AsBag!Of(k) # {}
    BY <1>2, <1>4 DEF AsBag!Of, WithKey, PlaceOf
  <2> QED BY <2>3, <2>4, <2>5, <2>6
          DEF AsBag!InsertOrAssign, AsBag!Has, AsBag!Result, AsBag!Entry, Entry, Result
<1>5. CASE ~found
  <2> PICK e \in Entries : e = Entry(k, v)
    BY EntryIs
  <2>1. bag' = Append(bag, e) /\ splitbag' = SplitBagAppend(k, v) /\ p = Len(bag) + 1
    BY <1>2, <1>3, <1>5
  <2>2. WithKey(bag, e.key) = {}
    BY <1>2, <1>5, EntryIs DEF PlaceOf
  <2>3. Adds(bag', bag, p, e) /\ Distinct(bag')
    BY <1>1, <2>1, <2>2, AppendEntry
  <2>4. splitbag' \in Splits /\ Zipped(splitbag') = bag'
    BY <1>1, <2>1, ZipAppend DEF SplitBagAppend
  <2>5. bagRet' = Result(e, TRUE) /\ splitbagRet' = bagRet'
    BY <1>3, <1>5, <2>3, <2>4, DerefIs DEF Adds
  <2>6. BagInv'
    BY <2>3, <2>4, <2>5, ResultIs DEF BagInv, Adds
  <2>7. AsBag!Of(k) = {}
    BY <1>2, <1>5 DEF AsBag!Of, WithKey, PlaceOf
  <2> QED BY <2>3, <2>5, <2>6, <2>7
          DEF AsBag!InsertOrAssign, AsBag!Has, AsBag!Result, AsBag!Entry, Adds, Entry, Result
<1> QED
  BY <1>4, <1>5

LEMMA BagStoreIs ==
  ASSUME BagInv, NEW k \in Keys, NEW v \in Values, BagStore(k, v), SplitBagStore(k, v)
  PROVE  BagInv' /\ AsBag!Store(k, v)
<1>1. bag \in Seq(Entries) /\ Len(bag) = Len(splitbag.keys) /\ Distinct(bag)
      /\ splitbag \in Splits /\ Zipped(splitbag) = bag
  BY ZipIs DEF BagInv
<1>2. PICK p \in 1 .. Len(bag) + 1, found \in BOOLEAN :
        /\ FindEqual(KeysOf(bag), k) = p /\ FindEqual(splitbag.keys, k) = p
        /\ (p <= Len(bag)) = found /\ (p > Len(bag)) = ~found
        /\ (p <= Len(splitbag.keys)) = found
        /\ PlaceOf(p, found, bag, k)
        /\ ~found => p = Len(bag) + 1
  BY BagPlace
<1> PICK s : s = IF found THEN bag ELSE Append(bag, Entry(k, Default))
  OBVIOUS
<1> PICK z : z = IF found THEN splitbag ELSE SplitBagAppend(k, Default)
  OBVIOUS
<1>3. /\ bag' = PairSet(s, p, v)
      /\ bagRet' = Result(bag'[p], FALSE)
      /\ splitbag' = SplitSet(z, p, v)
      /\ splitbagRet' = Result(Deref(splitbag', p), FALSE)
  BY <1>2 DEF BagStore, SplitBagStore, PairSet, SplitSet
<1>4. /\ z \in Splits /\ Zipped(z) = s /\ s \in Seq(Entries) /\ Distinct(s)
      /\ p \in 1 .. Len(s) /\ s[p].key = k
      /\ Range(s) \ WithKey(s, k) = Range(bag) \ WithKey(bag, k)
  <2>1. CASE found
    BY <1>1, <1>2, <2>1 DEF PlaceOf
  <2>2. CASE ~found
    <3> PICK e \in Entries : e = Entry(k, Default)
      BY EntryIs, ValuesAssumption
    <3>1. /\ s = Append(bag, e) /\ z = SplitBagAppend(k, Default) /\ e.key = k
          /\ p = Len(bag) + 1
      BY <1>2, <2>2, EntryIs, ValuesAssumption
    <3>2. WithKey(bag, k) = {}
      BY <1>2, <2>2 DEF PlaceOf
    <3>3. Adds(s, bag, p, e) /\ Distinct(s)
      BY <1>1, <3>1, <3>2, AppendEntry
    <3>4. z \in Splits /\ Zipped(z) = s
      BY <1>1, <3>1, ZipAppend, ValuesAssumption DEF SplitBagAppend
    <3>5. Range(s) \ WithKey(s, k) = Range(bag) \ WithKey(bag, k)
      BY <3>1, <3>2, <3>3 DEF Adds, WithKey
    <3> QED BY <3>1, <3>3, <3>4, <3>5 DEF Adds
  <2> QED BY <2>1, <2>2
<1>5. /\ splitbag' \in Splits /\ Zipped(splitbag') = bag' /\ Sets(bag', s, p, v)
      /\ Distinct(bag') /\ Deref(splitbag', p) = bag'[p]
  <2>1. Distinct(Zipped(z)) /\ p \in 1 .. Len(Zipped(z)) /\ bag' = PairSet(Zipped(z), p, v)
    BY <1>3, <1>4
  <2> QED BY <1>3, <1>4, <2>1, SetBoth
<1>6. /\ bag' \in Seq(Entries) /\ bag'[p] = Entry(k, v)
      /\ Range(bag') = (Range(bag) \ WithKey(bag, k)) \cup {Entry(k, v)}
  BY <1>4, <1>5 DEF Sets
<1>7. bagRet' = Result(Entry(k, v), FALSE) /\ splitbagRet' = bagRet'
  BY <1>3, <1>5, <1>6
<1>8. BagInv'
  BY <1>5, <1>6, <1>7, EntryIs, ResultIs DEF BagInv
<1>9. AsBag!Of(k) = WithKey(bag, k)
  BY DEF AsBag!Of, WithKey
<1> QED
  BY <1>6, <1>7, <1>8, <1>9 DEF AsBag!Store, AsBag!Result, AsBag!Entry, Entry, Result

LEMMA BagEraseIs ==
  ASSUME BagInv, NEW k \in Keys, BagErase(k), SplitBagErase(k)
  PROVE  BagInv' /\ AsBag!Erase(k)
<1>1. bag \in Seq(Entries) /\ Len(bag) = Len(splitbag.keys) /\ Distinct(bag)
      /\ splitbag \in Splits /\ Zipped(splitbag) = bag
  BY ZipIs DEF BagInv
<1>2. PICK p \in 1 .. Len(bag) + 1, found \in BOOLEAN :
        /\ FindEqual(KeysOf(bag), k) = p /\ FindEqual(splitbag.keys, k) = p
        /\ (p <= Len(bag)) = found /\ (p > Len(bag)) = ~found
        /\ (p <= Len(splitbag.keys)) = found
        /\ PlaceOf(p, found, bag, k)
        /\ ~found => p = Len(bag) + 1
  BY BagPlace
<1> PICK z : z = [keys   |-> MoveLastInto(splitbag.keys, p),
                  values |-> MoveLastInto(splitbag.values, p)]
  OBVIOUS
<1>3. /\ bag' = IF found THEN MoveLastInto(bag, p) ELSE bag
      /\ bagRet' = Result(Nothing, found)
      /\ splitbag' = IF found THEN z ELSE splitbag
      /\ splitbagRet' = Result(Nothing, found)
  BY <1>2 DEF BagErase, SplitBagErase
<1>4. bagRet' \in Results /\ splitbagRet' = bagRet'
  BY <1>3, ResultIs
<1>5. AsBag!Of(k) = WithKey(bag, k)
  BY DEF AsBag!Of, WithKey
<1>6. CASE found
  <2>1. bag' = MoveLastInto(bag, p) /\ splitbag' = z /\ p \in 1 .. Len(bag) /\ bag[p].key = k
    BY <1>2, <1>3, <1>6 DEF PlaceOf
  <2>2. Drops(bag', bag, k) /\ Distinct(bag')
    BY <1>1, <2>1, MoveEntry
  <2>3. splitbag' \in Splits /\ Zipped(splitbag') = bag'
    BY <1>1, <2>1, ZipMove
  <2>4. BagInv'
    BY <1>4, <2>2, <2>3 DEF BagInv, Drops
  <2>5. AsBag!Has(k) = found
    BY <1>2, <1>5, <1>6 DEF AsBag!Has, PlaceOf
  <2> QED BY <1>3, <1>5, <2>2, <2>4, <2>5 DEF AsBag!Erase, AsBag!Result, Result, Drops
<1>7. CASE ~found
  <2>1. bag' = bag /\ splitbag' = splitbag
    BY <1>3, <1>7
  <2>2. BagInv'
    BY <1>4, <2>1 DEF BagInv
  <2>3. AsBag!Of(k) = {} /\ AsBag!Has(k) = found
    BY <1>2, <1>5, <1>7 DEF AsBag!Has, PlaceOf
  <2> QED BY <1>3, <2>1, <2>2, <2>3 DEF AsBag!Erase, AsBag!Result, Result
<1> QED
  BY <1>6, <1>7

LEMMA BagFindIs ==
  ASSUME BagInv, NEW k \in Keys, BagFind(k), SplitBagFind(k)
  PROVE  BagInv' /\ AsBag!Find(k)
<1>1. bag \in Seq(Entries) /\ Len(bag) = Len(splitbag.keys) /\ Distinct(bag)
      /\ splitbag \in Splits /\ Zipped(splitbag) = bag
  BY ZipIs DEF BagInv
<1>2. PICK p \in 1 .. Len(bag) + 1, found \in BOOLEAN :
        /\ FindEqual(KeysOf(bag), k) = p /\ FindEqual(splitbag.keys, k) = p
        /\ (p <= Len(bag)) = found /\ (p > Len(bag)) = ~found
        /\ (p <= Len(splitbag.keys)) = found
        /\ PlaceOf(p, found, bag, k)
        /\ ~found => p = Len(bag) + 1
  BY BagPlace
<1>3. /\ bag' = bag /\ splitbag' = splitbag
      /\ bagRet' = IF found THEN Result(bag[p], TRUE) ELSE NoResult
      /\ splitbagRet' = IF found THEN Result(Deref(splitbag, p), TRUE) ELSE NoResult
  BY <1>2 DEF BagFind, SplitBagFind
<1>4. AsBag!Of(k) = WithKey(bag, k)
  BY DEF AsBag!Of, WithKey
<1>5. CASE found
  <2>1. p \in 1 .. Len(bag) /\ WithKey(bag, k) = {bag[p]}
    BY <1>2, <1>5 DEF PlaceOf
  <2>2. Deref(splitbag, p) = bag[p] /\ bag[p] \in Entries
    BY <1>1, <2>1, DerefIs, ElementOfSeq
  <2>3. BagInv'
    BY <1>3, <1>5, <2>2, ResultIs DEF BagInv
  <2> QED BY <1>3, <1>4, <1>5, <2>1, <2>3 DEF AsBag!Find, AsBag!Result, Result
<1>6. CASE ~found
  <2>1. BagInv'
    BY <1>3, <1>6, ResultIs DEF BagInv, NoResult
  <2>2. ~AsBag!Has(k)
    BY <1>2, <1>4, <1>6 DEF AsBag!Has, PlaceOf
  <2> QED BY <1>3, <1>6, <2>1, <2>2
          DEF AsBag!Find, AsBag!NoResult, AsBag!Result, NoResult, Result
<1> QED
  BY <1>5, <1>6

-----------------------------------------------------------------------------
(* Every behaviour *)

Inv == SortedInv /\ BagInv

\* No operation has anything to return before the first, nor has clear().
LEMMA Empty ==
  ASSUME NEW e \in Seq(Entries), Len(e) = 0, NEW z, z = EmptySplit
  PROVE  /\ z \in Splits /\ e = Zipped(z)
         /\ Ascending(KeysOf(e)) /\ Distinct(e) /\ Range(e) = {}
<1>1. /\ z = [keys |-> <<>>, values |-> <<>>]
      /\ z \in [keys : Seq(Keys), values : Seq(Values)]
  BY DEF EmptySplit
<1>2. z \in Splits
  BY <1>1 DEF Splits
<1>3. Zipped(z) \in Seq(Entries) /\ Len(Zipped(z)) = 0
  BY <1>1, <1>2, ZipIs
<1>4. e = Zipped(z)
  BY <1>1, <1>3, SeqEqual
<1>5. Range(e) = {}
  <2>1. Range(e) = {e[n] : n \in 1 .. Len(e)}
    BY RangeIs
  <2>2. 1 .. Len(e) = {}
    OBVIOUS
  <2> QED BY <2>1, <2>2
<1>6. DOMAIN KeysOf(e) = {}
  BY DEF KeysOf
<1> QED
  BY <1>2, <1>4, <1>5, <1>6 DEF Ascending, Distinct

LEMMA InitIs == Init => Inv /\ AsFlat!Init /\ AsBag!Init
<1> SUFFICES ASSUME Init  PROVE Inv /\ AsFlat!Init /\ AsBag!Init
  OBVIOUS
<1>1. flat \in Seq(Entries) /\ Len(flat) = 0 /\ bag \in Seq(Entries) /\ Len(bag) = 0
  BY DEF Init
<1>2. SortedInv /\ BagInv /\ Range(flat) = {} /\ Range(bag) = {}
  BY <1>1, Empty, ResultIs DEF Init, SortedInv, BagInv, NoResult
<1> QED
  BY <1>2 DEF Inv, Init, AsFlat!Init, AsBag!Init, AsFlat!NoResult, AsBag!NoResult,
              AsFlat!Result, AsBag!Result, NoResult, Result

LEMMA ClearIs == Clear => Inv' /\ AsFlat!Clear /\ AsBag!Clear
<1> SUFFICES ASSUME Clear  PROVE Inv' /\ AsFlat!Clear /\ AsBag!Clear
  OBVIOUS
<1>1. flat' \in Seq(Entries) /\ Len(flat') = 0 /\ bag' \in Seq(Entries) /\ Len(bag') = 0
  BY DEF Clear
<1>2. SortedInv' /\ BagInv' /\ Range(flat') = {} /\ Range(bag') = {}
  BY <1>1, Empty, ResultIs DEF Clear, SortedInv, BagInv, NoResult
<1> QED
  BY <1>2 DEF Inv, Clear, AsFlat!Clear, AsBag!Clear, AsFlat!NoResult, AsBag!NoResult,
              AsFlat!Result, AsBag!Result, NoResult, Result

\* Each operation keeps the invariant, and is the operation of that name of the
\* map.
LEMMA NextIs ==
  ASSUME Inv, [Next]_vars
  PROVE  /\ Inv'
         /\ [AsFlat!Next]_<<Range(flat), flatRet>> /\ [AsBag!Next]_<<Range(bag), bagRet>>
<1> USE DEF Inv
<1>1. ASSUME NEW k \in Keys, NEW v \in Values, Insert(k, v)
      PROVE  Inv' /\ AsFlat!Insert(k, v) /\ AsBag!Insert(k, v)
  BY <1>1, SortedInsert, BagInsertIs DEF Insert
<1>2. ASSUME NEW k \in Keys, NEW v \in Values, InsertOrAssign(k, v)
      PROVE  Inv' /\ AsFlat!InsertOrAssign(k, v) /\ AsBag!InsertOrAssign(k, v)
  BY <1>2, SortedInsertOrAssign, BagInsertOrAssignIs DEF InsertOrAssign
<1>3. ASSUME NEW k \in Keys, NEW v \in Values, Store(k, v)
      PROVE  Inv' /\ AsFlat!Store(k, v) /\ AsBag!Store(k, v)
  BY <1>3, SortedStore, BagStoreIs DEF Store
<1>4. ASSUME NEW k \in Keys, Erase(k)  PROVE Inv' /\ AsFlat!Erase(k) /\ AsBag!Erase(k)
  BY <1>4, SortedErase, BagEraseIs DEF Erase
<1>5. ASSUME NEW k \in Keys, Find(k)  PROVE Inv' /\ AsFlat!Find(k) /\ AsBag!Find(k)
  BY <1>5, SortedFind, BagFindIs DEF Find
<1>6. ASSUME UNCHANGED vars
      PROVE  Inv' /\ UNCHANGED <<Range(flat), flatRet, Range(bag), bagRet>>
  BY <1>6 DEF vars, SortedInv, BagInv
<1> QED
  BY <1>1, <1>2, <1>3, <1>4, <1>5, <1>6, ClearIs DEF Next, AsFlat!Next, AsBag!Next

\* What is so of a container of pairs is so of the one in split storage.
LEMMA SameInit ==
  ASSUME Inv, AsFlat!Init, AsBag!Init
  PROVE  AsSplit!Init /\ AsSplitBag!Init
  BY DEF Inv, SortedInv, BagInv, AsFlat!Init, AsFlat!NoResult, AsFlat!Result,
         AsSplit!Init, AsSplit!NoResult, AsSplit!Result,
         AsBag!Init, AsBag!NoResult, AsBag!Result,
         AsSplitBag!Init, AsSplitBag!NoResult, AsSplitBag!Result

LEMMA SameStep ==
  ASSUME Inv, Inv'
  PROVE  /\ [AsFlat!Next]_<<Range(flat), flatRet>>
              => [AsSplit!Next]_<<Range(Zipped(split)), splitRet>>
         /\ [AsBag!Next]_<<Range(bag), bagRet>>
              => [AsSplitBag!Next]_<<Range(Zipped(splitbag)), splitbagRet>>
<1>1. /\ Range(Zipped(split)) = Range(flat) /\ splitRet = flatRet
      /\ Range(Zipped(splitbag)) = Range(bag) /\ splitbagRet = bagRet
  BY DEF Inv, SortedInv, BagInv
<1>2. /\ Range(Zipped(split))' = Range(flat)' /\ splitRet' = flatRet'
      /\ Range(Zipped(splitbag))' = Range(bag)' /\ splitbagRet' = bagRet'
  BY DEF Inv, SortedInv, BagInv
<1> QED
  BY <1>1, <1>2
  DEF AsFlat!Next, AsFlat!Insert, AsFlat!InsertOrAssign, AsFlat!Store, AsFlat!Erase,
      AsFlat!Find, AsFlat!Clear, AsFlat!Of, AsFlat!Has, AsFlat!NoResult, AsFlat!Result,
      AsFlat!Entry,
      AsSplit!Next, AsSplit!Insert, AsSplit!InsertOrAssign, AsSplit!Store, AsSplit!Erase,
      AsSplit!Find, AsSplit!Clear, AsSplit!Of, AsSplit!Has, AsSplit!NoResult, AsSplit!Result,
      AsSplit!Entry,
      AsBag!Next, AsBag!Insert, AsBag!InsertOrAssign, AsBag!Store, AsBag!Erase, AsBag!Find,
      AsBag!Clear, AsBag!Of, AsBag!Has, AsBag!NoResult, AsBag!Result, AsBag!Entry,
      AsSplitBag!Next, AsSplitBag!Insert, AsSplitBag!InsertOrAssign, AsSplitBag!Store,
      AsSplitBag!Erase, AsSplitBag!Find, AsSplitBag!Clear, AsSplitBag!Of, AsSplitBag!Has,
      AsSplitBag!NoResult, AsSplitBag!Result, AsSplitBag!Entry

LEMMA Invariant == Spec => []Inv
<1>1. Init => Inv
  BY InitIs
<1>2. Inv /\ [Next]_vars => Inv'
  BY NextIs
<1> QED
  BY <1>1, <1>2, PTL DEF Spec

\* Entries are pairs of a key and a value, and split storage has as many keys as
\* values, after any operations.
THEOREM TypeCorrect == Spec => []TypeOK
<1>1. Inv => TypeOK
  BY DEF Inv, SortedInv, BagInv, Splits, TypeOK
<1> QED
  BY <1>1, Invariant, PTL

\* find_key() always searches keys that ascend.
THEOREM KeysStaySorted == Spec => []SortedKeys
<1>1. Inv => SortedKeys
  <2> SUFFICES ASSUME Inv  PROVE SortedKeys
    OBVIOUS
  <2>1. Ascending(KeysOf(flat)) /\ split \in Splits /\ flat = Zipped(split)
    BY DEF Inv, SortedInv
  <2>2. KeysOf(flat) = split.keys
    BY <2>1, ZipIs
  <2> QED BY <2>1, <2>2 DEF SortedKeys
<1> QED
  BY <1>1, Invariant, PTL

\* No order of operations gives a container two entries for a key.
THEOREM KeysStayUnique == Spec => []OneEntryPerKey
<1>1. Inv /\ SortedKeys => OneEntryPerKey
  <2> SUFFICES ASSUME Inv, SortedKeys  PROVE OneEntryPerKey
    OBVIOUS
  <2>1. bag \in Seq(Entries) /\ Distinct(bag) /\ KeysOf(bag) = splitbag.keys
    BY ZipIs DEF Inv, BagInv
  <2>2. \A m, n \in DOMAIN KeysOf(bag) : KeysOf(bag)[m] = KeysOf(bag)[n] => m = n
    BY <2>1, KeysOfIs DEF Distinct
  <2> QED BY <2>1, <2>2 DEF OneEntryPerKey
<1> QED
  BY <1>1, Invariant, KeysStaySorted, PTL

\* A container over two vectors is the one over pairs, taken apart: its entries,
\* their order and every result.
THEOREM LayoutsStayEqual == Spec => []LayoutsAgree
<1>1. Inv => LayoutsAgree
  BY DEF Inv, SortedInv, BagInv, LayoutsAgree
<1> QED
  BY <1>1, Invariant, PTL

\* Each of the four containers implements the map.
THEOREM ContainersAreMaps == Spec => ImplementMap
<1>1. Init => AsFlat!Init /\ AsBag!Init /\ AsSplit!Init /\ AsSplitBag!Init
  BY InitIs, SameInit
<1>2. Inv /\ Inv' /\ [Next]_vars
        => /\ [AsFlat!Next]_<<Range(flat), flatRet>>
           /\ [AsSplit!Next]_<<Range(Zipped(split)), splitRet>>
           /\ [AsBag!Next]_<<Range(bag), bagRet>>
           /\ [AsSplitBag!Next]_<<Range(Zipped(splitbag)), splitbagRet>>
  BY NextIs, SameStep
<1> QED
  BY <1>1, <1>2, Invariant, PTL
  DEF Spec, ImplementMap, AsFlat!Spec, AsSplit!Spec, AsBag!Spec, AsSplitBag!Spec

-----------------------------------------------------------------------------
(* What a position may count on *)

\* r has the keys of s where s has them, and perhaps more behind.
Grown(r, s) ==
  r \in Seq(Entries) /\ Len(r) >= Len(s) /\ \A n \in 1 .. Len(s) : r[n].key = s[n].key

LEMMA GrownStays ==
  ASSUME NEW s \in Seq(Entries), NEW r, Grown(r, s)
  PROVE  Stays(KeysOf(s), KeysOf(r))
<1>1. /\ DOMAIN KeysOf(s) = 1 .. Len(s) /\ DOMAIN KeysOf(r) = 1 .. Len(r)
      /\ \A n \in 1 .. Len(s) : KeysOf(s)[n] = s[n].key
      /\ \A n \in 1 .. Len(r) : KeysOf(r)[n] = r[n].key
  BY KeysOfIs DEF Grown
<1> QED
  BY <1>1 DEF Grown, Stays

LEMMA MovedStays ==
  ASSUME NEW s \in Seq(Entries), Distinct(s), NEW p \in 1 .. Len(s),
         NEW r, r = MoveLastInto(s, p)
  PROVE  Stays(KeysOf(s), KeysOf(r))
<1>1. r \in Seq(Entries) /\ Moved(r, s, p)
  BY MoveLastIntoIs
<1>2. /\ DOMAIN KeysOf(s) = 1 .. Len(s) /\ DOMAIN KeysOf(r) = 1 .. Len(s) - 1
      /\ Len(KeysOf(s)) = Len(s) /\ Len(KeysOf(r)) = Len(s) - 1
      /\ \A n \in 1 .. Len(s) : KeysOf(s)[n] = s[n].key
      /\ \A n \in 1 .. Len(s) - 1 : KeysOf(r)[n] = r[n].key
  <2>1. Len(r) = Len(s) - 1
    BY <1>1 DEF Moved
  <2>2. /\ KeysOf(s) \in Seq(Keys) /\ Len(KeysOf(s)) = Len(s)
        /\ \A n \in 1 .. Len(s) : KeysOf(s)[n] = s[n].key
    BY KeysOfIs
  <2>3. /\ KeysOf(r) \in Seq(Keys) /\ Len(KeysOf(r)) = Len(r)
        /\ \A n \in 1 .. Len(r) : KeysOf(r)[n] = r[n].key
    BY <1>1, KeysOfIs
  <2>4. DOMAIN KeysOf(s) = 1 .. Len(s) /\ DOMAIN KeysOf(r) = 1 .. Len(r)
    BY <2>2, <2>3
  <2> QED BY <2>1, <2>2, <2>3, <2>4
<1>3. ASSUME NEW m \in 1 .. Len(s), m # Len(s), m # p
      PROVE  m \in DOMAIN KeysOf(r) /\ KeysOf(r)[m] = KeysOf(s)[m]
  <2>1. m \in 1 .. Len(s) - 1 /\ r[m] = s[m]
    BY <1>1, <1>3 DEF Moved
  <2> QED BY <1>2, <2>1
<1>4. ASSUME p # Len(s), NEW n \in 1 .. Len(s) - 1  PROVE r[n].key # s[p].key
  <2>1. r[n] = s[IF n = p THEN Len(s) ELSE n]
    BY <1>1 DEF Moved
  <2>2. (IF n = p THEN Len(s) ELSE n) \in 1 .. Len(s) /\ (IF n = p THEN Len(s) ELSE n) # p
    BY <1>4
  <2> QED BY <2>1, <2>2 DEF Distinct
<1>5. p # Len(s) => \A n \in DOMAIN KeysOf(r) : KeysOf(r)[n] # KeysOf(s)[p]
  BY <1>2, <1>4
<1> QED
  BY <1>2, <1>3, <1>5 DEF Stays

LEMMA AppendGrows ==
  ASSUME NEW s \in Seq(Entries), NEW e \in Entries
  PROVE  Grown(Append(s, e), s)
  BY AppendProperties DEF Grown

LEMMA SetGrows ==
  ASSUME NEW s \in Seq(Entries), Distinct(s), NEW p \in 1 .. Len(s), NEW v \in Values
  PROVE  Grown(PairSet(s, p, v), s)
<1> PICK r : r = PairSet(s, p, v)
  OBVIOUS
<1>1. r \in Seq(Entries) /\ Len(r) = Len(s) /\ KeysOf(r) = KeysOf(s)
  BY SetValue DEF Sets
<1>2. \A n \in 1 .. Len(s) : r[n].key = s[n].key
  BY <1>1, KeysOfIs
<1> QED
  BY <1>1, <1>2 DEF Grown

LEMMA BagStays ==
  ASSUME BagInv, NEW k \in Keys, NEW v \in Values,
         BagInsert(k, v) \/ BagInsertOrAssign(k, v) \/ BagStore(k, v) \/ BagErase(k) \/ BagFind(k)
  PROVE  Stays(KeysOf(bag), KeysOf(bag'))
<1>1. bag \in Seq(Entries) /\ Distinct(bag)
  BY DEF BagInv
<1>2. PICK p \in 1 .. Len(bag) + 1, found \in BOOLEAN :
        /\ FindEqual(KeysOf(bag), k) = p /\ (p <= Len(bag)) = found
        /\ PlaceOf(p, found, bag, k)
        /\ ~found => p = Len(bag) + 1
  BY BagPlace
<1>3. found => p \in 1 .. Len(bag)
  BY <1>2 DEF PlaceOf
<1>4. Grown(bag, bag)
  BY <1>1 DEF Grown
<1>5. Entry(k, v) \in Entries /\ Entry(k, Default) \in Entries /\ Entry(k, Default).key = k
  BY EntryIs, ValuesAssumption
<1>6. CASE BagInsert(k, v)
  <2>1. bag' = IF found THEN bag ELSE Append(bag, Entry(k, v))
    BY <1>2, <1>6 DEF BagInsert
  <2> QED BY <1>1, <1>4, <1>5, <2>1, AppendGrows, GrownStays
<1>7. CASE BagInsertOrAssign(k, v)
  <2>1. bag' = IF found THEN PairSet(bag, p, v) ELSE Append(bag, Entry(k, v))
    BY <1>2, <1>7 DEF BagInsertOrAssign, PairSet
  <2> QED BY <1>1, <1>3, <1>5, <2>1, AppendGrows, SetGrows, GrownStays
<1>8. CASE BagStore(k, v)
  <2> PICK s : s = IF found THEN bag ELSE Append(bag, Entry(k, Default))
    OBVIOUS
  <2>1. bag' = PairSet(s, p, v)
    BY <1>2, <1>8 DEF BagStore, PairSet
  <2>2. Grown(s, bag)
    BY <1>1, <1>4, <1>5, AppendGrows
  <2>3. s \in Seq(Entries) /\ Distinct(s) /\ p \in 1 .. Len(s)
    <3>1. CASE found
      BY <1>1, <1>3, <3>1
    <3>2. CASE ~found
      <4>1. WithKey(bag, k) = {} /\ s = Append(bag, Entry(k, Default)) /\ p = Len(bag) + 1
        BY <1>2, <3>2 DEF PlaceOf
      <4> QED BY <1>1, <1>5, <4>1, AppendEntry DEF Adds
    <3> QED BY <3>1, <3>2
  <2>4. Grown(bag', s)
    BY <2>1, <2>3, SetGrows
  <2>5. Grown(bag', bag)
    BY <1>1, <2>2, <2>4 DEF Grown
  <2> QED BY <1>1, <2>5, GrownStays
<1>9. CASE BagErase(k)
  <2>1. bag' = IF found THEN MoveLastInto(bag, p) ELSE bag
    BY <1>2, <1>9 DEF BagErase
  <2> QED BY <1>1, <1>3, <1>4, <2>1, MovedStays, GrownStays
<1>10. CASE BagFind(k)
  BY <1>1, <1>4, <1>10, GrownStays DEF BagFind
<1> QED
  BY <1>6, <1>7, <1>8, <1>9, <1>10

\* Insertion into an unordered container moves no entry, and erase() none but
\* the last, so that a position found before stays good, and with it an iterator
\* of unordered_split_flatmap, but none of unordered_flatmap.
THEOREM PositionsLast == Spec => EntriesStay
<1>1. ASSUME Inv, Inv', [Next]_vars
      PROVE  [Stays(KeysOf(bag), KeysOf(bag)') /\ Stays(splitbag.keys, splitbag.keys')]_vars
  <2>1. bag \in Seq(Entries) /\ KeysOf(bag) = splitbag.keys
    BY <1>1, ZipIs DEF Inv, BagInv
  <2>2. bag' \in Seq(Entries) /\ KeysOf(bag)' = splitbag.keys'
    <3>1. splitbag' \in Splits /\ bag' = Zipped(splitbag')
      BY <1>1 DEF Inv, BagInv
    <3> QED BY <1>1, <3>1, ZipIs DEF Inv, BagInv
  <2>3. ASSUME Clear  PROVE Stays(KeysOf(bag), KeysOf(bag'))
    <3>1. bag' = <<>>
      BY <2>3 DEF Clear
    <3>2. DOMAIN KeysOf(bag') = {}
      BY <3>1 DEF KeysOf
    <3> QED BY <3>2 DEF Stays
  <2>4. ASSUME NEW k \in Keys, NEW v \in Values,
               Insert(k, v) \/ InsertOrAssign(k, v) \/ Store(k, v) \/ Erase(k) \/ Find(k)
        PROVE  Stays(KeysOf(bag), KeysOf(bag'))
    BY <1>1, <2>4, BagStays DEF Inv, Insert, InsertOrAssign, Store, Erase, Find
  <2>5. CASE Next
    BY <2>3, <2>4, <2>5, <2>1, <2>2, ValuesAssumption DEF Next
  <2> QED BY <1>1, <2>5
<1> QED
  BY <1>1, Invariant, PTL DEF Spec, EntriesStay
=============================================================================
