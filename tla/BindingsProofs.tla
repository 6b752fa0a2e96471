--------------------------- MODULE BindingsProofs ---------------------------
(***************************************************************************)
(* Proofs about Ownership and Bindings.  For any addresses and any finite  *)
(* set of variables, libvirt counts what the program holds until one of    *)
(* the operations that break it, and an object that cannot be copied has   *)
(* one owner.  For any bound on the items of an answer, memory is misused, *)
(* and left behind, by the calls that are named for it and by no other,    *)
(* and a list, or an answer of one value, is what libvirt said, but for    *)
(* the methods named.                                                      *)
(***************************************************************************)
EXTENDS Bindings, FiniteSetTheorems, TLAPS

USE OwnershipAssumption

-----------------------------------------------------------------------------
(* Ownership *)

Pointers == Objects \cup {Null, Unborn}
Holdings == [Vars -> Pointers]

\* The owners of o when the variables hold f, and whether p is o, as numbers.
Held(f, o) == Cardinality({u \in Vars : f[u] = o})
Is(p, o)   == IF p = o THEN 1 ELSE 0

\* libvirt's references r are those of the variables f and of its objects l.
Balanced(f, r, l) ==
  \A o \in Objects : r[o] = Held(f, o) + (IF o \in l THEN 1 ELSE 0)

Inv == OwnTypeOK /\ OwnersCounted

LEMMA CountedIsBalanced ==
  /\ Counted <=> Balanced(ptr, refs, lent)
  /\ Counted' <=> Balanced(ptr', refs', lent')
BY DEF Counted, Balanced, Held, Owners, Lent

-----------------------------------------------------------------------------
(* Owners, counted *)

LEMMA HeldType ==
  ASSUME NEW f \in Holdings, NEW o
  PROVE  /\ IsFiniteSet({u \in Vars : f[u] = o})
         /\ Held(f, o) \in Nat
         /\ \A v \in Vars : f[v] = o => Held(f, o) > 0
<1> DEFINE S == {u \in Vars : f[u] = o}
<1>1. IsFiniteSet(S)
  BY FS_Subset
<1>2. Cardinality(S) \in Nat
  BY <1>1, FS_CardinalityType
<1>3. ASSUME NEW v \in Vars, f[v] = o PROVE Cardinality(S) > 0
  <2>1. S # {}
    BY <1>3
  <2>2. Cardinality(S) # 0
    BY <1>1, <2>1, FS_EmptySet
  <2> HIDE DEF S
  <2> QED
    BY <1>2, <2>2
<1> QED
  BY <1>1, <1>2, <1>3 DEF Held

\* A variable that gets another pointer: one owner fewer of what it held, one
\* more of what it gets.
LEMMA Reassigned ==
  ASSUME NEW f \in Holdings, NEW v \in Vars, NEW p \in Pointers, NEW o \in Objects
  PROVE  /\ [f EXCEPT ![v] = p] \in Holdings
         /\ Held([f EXCEPT ![v] = p], o) = Held(f, o) + Is(p, o) - Is(f[v], o)
<1> DEFINE g == [f EXCEPT ![v] = p]
           S == {u \in Vars : f[u] = o}
           T == {u \in Vars : g[u] = o}
<1>1. g \in Holdings
  BY DEF Holdings
<1>2. /\ \A u \in Vars : g[u] = IF u = v THEN p ELSE f[u]
      /\ f[v] \in Pointers
  BY DEF Holdings
<1>3. IsFiniteSet(S) /\ Cardinality(S) \in Nat /\ (v \in S <=> f[v] = o)
  BY HeldType DEF Held
<1>4. Cardinality(T) = Cardinality(S) + Is(p, o) - Is(f[v], o)
  <2>1. CASE p = o /\ f[v] = o
    <3>1. T = S
      BY <1>2, <2>1
    <3> HIDE DEF S, T
    <3> QED
      BY <1>3, <2>1, <3>1 DEF Is
  <2>2. CASE p = o /\ f[v] # o
    <3>1. T = S \cup {v} /\ v \notin S
      BY <1>2, <2>2
    <3> HIDE DEF S, T
    <3>2. Cardinality(T) = Cardinality(S) + 1
      BY <1>3, <3>1, FS_AddElement
    <3> QED
      BY <1>3, <2>2, <3>2 DEF Is
  <2>3. CASE p # o /\ f[v] = o
    <3>1. T = S \ {v} /\ v \in S
      BY <1>2, <2>3
    <3> HIDE DEF S, T
    <3>2. Cardinality(T) = Cardinality(S) - 1
      BY <1>3, <3>1, FS_RemoveElement
    <3> QED
      BY <1>3, <2>3, <3>2 DEF Is
  <2>4. CASE p # o /\ f[v] # o
    <3>1. T = S
      BY <1>2, <2>4
    <3> HIDE DEF S, T
    <3> QED
      BY <1>3, <2>4, <3>1 DEF Is
  <2> QED
    BY <2>1, <2>2, <2>3, <2>4
<1> QED
  BY <1>1, <1>4 DEF Held

\* w's pointer goes to v, and w becomes null: only what v held loses an owner.
LEMMA TakenOver ==
  ASSUME NEW f \in Holdings, NEW v \in Vars, NEW w \in Vars, NEW o \in Objects
  PROVE  LET g == [[f EXCEPT ![v] = f[w]] EXCEPT ![w] = Null]
         IN  g \in Holdings /\ Held(g, o) = Held(f, o) - Is(f[v], o)
<1> DEFINE h == [f EXCEPT ![v] = f[w]]
           g == [h EXCEPT ![w] = Null]
<1>1. f[w] \in Pointers /\ f[v] \in Pointers /\ Null \in Pointers /\ Null # o
  BY DEF Holdings, Pointers
<1>2. h \in Holdings /\ Held(h, o) = Held(f, o) + Is(f[w], o) - Is(f[v], o)
  BY <1>1, Reassigned
<1>3. h[w] = f[w]
  BY DEF Holdings
<1> HIDE DEF h
<1>4. g \in Holdings /\ Held(g, o) = Held(h, o) + Is(Null, o) - Is(h[w], o)
  BY <1>1, <1>2, Reassigned
<1>5. Is(Null, o) = 0 /\ Is(f[w], o) \in Int /\ Is(f[v], o) \in Int
  BY <1>1 DEF Is
<1>6. Held(f, o) \in Nat
  BY HeldType
<1>7. Held(g, o) = Held(f, o) - Is(f[v], o)
  BY <1>2, <1>3, <1>4, <1>5, <1>6
<1> QED
  BY <1>4, <1>7 DEF h

LEMMA Swapped ==
  ASSUME NEW f \in Holdings, NEW v \in Vars, NEW w \in Vars, NEW o \in Objects
  PROVE  LET g == [f EXCEPT ![v] = f[w], ![w] = f[v]]
         IN  g \in Holdings /\ Held(g, o) = Held(f, o)
<1> DEFINE h == [f EXCEPT ![v] = f[w]]
           g == [h EXCEPT ![w] = f[v]]
<1>1. f[w] \in Pointers /\ f[v] \in Pointers
  BY DEF Holdings
<1>2. h \in Holdings /\ Held(h, o) = Held(f, o) + Is(f[w], o) - Is(f[v], o)
  BY <1>1, Reassigned
<1>3. h[w] = f[w]
  BY DEF Holdings
<1> HIDE DEF h
<1>4. g \in Holdings /\ Held(g, o) = Held(h, o) + Is(f[v], o) - Is(h[w], o)
  BY <1>1, <1>2, Reassigned
<1>5. Is(f[w], o) \in Int /\ Is(f[v], o) \in Int
  BY DEF Is
<1>6. Held(f, o) \in Nat
  BY HeldType
<1>7. Held(g, o) = Held(f, o)
  BY <1>2, <1>3, <1>4, <1>5, <1>6
<1> QED
  BY <1>4, <1>7 DEF h

-----------------------------------------------------------------------------
(* References, counted *)

LEMMA TakenRefs ==
  ASSUME NEW r \in [Objects -> Nat], NEW p \in Pointers
  PROVE  /\ Taken(r, p) \in [Objects -> Nat]
         /\ \A o \in Objects : Taken(r, p)[o] = r[o] + Is(p, o)
BY DEF Taken, Is

LEMMA ReleasedRefs ==
  ASSUME NEW r \in [Objects -> Nat], NEW p \in Pointers, p \in Objects => r[p] > 0
  PROVE  /\ Released(r, p) \in [Objects -> Nat]
         /\ \A o \in Objects : Released(r, p)[o] = r[o] - Is(p, o)
BY DEF Released, Is

\* What a variable holds has been counted.
LEMMA HeldIsCounted ==
  ASSUME OwnTypeOK, Counted, NEW v \in Vars
  PROVE  /\ ptr \in Holdings /\ refs \in [Objects -> Nat] /\ ptr[v] \in Pointers
         /\ ptr[v] \in Objects => refs[ptr[v]] > 0
<1>1. ptr \in Holdings /\ refs \in [Objects -> Nat] /\ ptr[v] \in Pointers
  BY DEF OwnTypeOK, Holdings, Pointers
<1>2. ASSUME ptr[v] \in Objects PROVE refs[ptr[v]] > 0
  <2>1. refs[ptr[v]] = Held(ptr, ptr[v]) + (IF ptr[v] \in lent THEN 1 ELSE 0)
    BY <1>2, CountedIsBalanced DEF Balanced
  <2>2. Held(ptr, ptr[v]) > 0 /\ Held(ptr, ptr[v]) \in Nat
    BY <1>1, HeldType
  <2> QED
    BY <2>1, <2>2
<1> QED
  BY <1>1, <1>2

-----------------------------------------------------------------------------
(* What each operation does to the count, o by o *)

\* An operation that keeps the count, or is named for not keeping it.
Kept   == OwnTypeOK' /\ slip' = "none" /\ Counted'
Broken == OwnTypeOK' /\ slip' # "none" /\ ~Counted'

\* What is known of a state before an operation.
LEMMA Before ==
  ASSUME Inv, slip = "none"
  PROVE  /\ OwnTypeOK /\ Counted /\ ptr \in Holdings /\ refs \in [Objects -> Nat]
         /\ \A v \in Vars : ptr[v] \in Pointers /\ (ptr[v] \in Objects => refs[ptr[v]] > 0)
         /\ \A o \in Objects : Held(ptr, o) \in Nat
         /\ \A o \in Objects : refs[o] = Held(ptr, o) + (IF o \in lent THEN 1 ELSE 0)
         /\ \A o \in Objects : Is(Null, o) = 0 /\ Is(Unborn, o) = 0
         /\ \A o \in Objects, p \in Pointers : Is(p, o) \in {0, 1}
<1>1. OwnTypeOK /\ Counted /\ ptr \in Holdings /\ refs \in [Objects -> Nat]
  BY DEF Inv, OwnersCounted, OwnTypeOK, Holdings, Pointers
<1>2. \A v \in Vars : ptr[v] \in Pointers /\ (ptr[v] \in Objects => refs[ptr[v]] > 0)
  BY <1>1, HeldIsCounted
<1>3. \A o \in Objects : Held(ptr, o) \in Nat
  BY <1>1, HeldType
<1>4. \A o \in Objects : refs[o] = Held(ptr, o) + (IF o \in lent THEN 1 ELSE 0)
  BY <1>1, CountedIsBalanced DEF Balanced
<1>5. /\ \A o \in Objects : Is(Null, o) = 0 /\ Is(Unborn, o) = 0
      /\ \A o \in Objects, p \in Pointers : Is(p, o) \in {0, 1}
  BY DEF Is
<1> QED
  BY <1>1, <1>2, <1>3, <1>4, <1>5

LEMMA Sums ==
  ASSUME Inv, slip = "none", NEW o \in Objects
  PROVE  /\ Held(ptr, o) \in Nat /\ refs[o] \in Nat
         /\ refs[o] = Held(ptr, o) + (IF o \in lent THEN 1 ELSE 0)
BY Before

\* A count that changes as the owners do stays right.
LEMMA AfterKept ==
  ASSUME OwnTypeOK', slip' = "none",
         \A o \in Objects : refs'[o] = Held(ptr', o) + (IF o \in lent' THEN 1 ELSE 0)
  PROVE  Kept
BY CountedIsBalanced DEF Kept, Balanced

LEMMA AfterBroken ==
  ASSUME OwnTypeOK', slip' # "none", NEW o \in Objects,
         refs'[o] # Held(ptr', o) + (IF o \in lent' THEN 1 ELSE 0)
  PROVE  Broken
BY CountedIsBalanced DEF Broken, Balanced

\* One variable gets another pointer.
LEMMA Assigned ==
  ASSUME Inv, slip = "none", NEW v \in Vars, NEW p \in Pointers,
         ptr' = [ptr EXCEPT ![v] = p]
  PROVE  \A o \in Objects : Held(ptr', o) = Held(ptr, o) + Is(p, o) - Is(ptr[v], o)
<1>1. ASSUME NEW o \in Objects
      PROVE  Held([ptr EXCEPT ![v] = p], o) = Held(ptr, o) + Is(p, o) - Is(ptr[v], o)
  <2>1. ptr \in Holdings
    BY Before
  <2> QED
    BY <2>1, Reassigned
<1> QED
  BY <1>1

\* One variable takes the pointer of another.
LEMMA Took ==
  ASSUME Inv, slip = "none", NEW v \in Vars, NEW w \in Vars,
         ptr' = [[ptr EXCEPT ![v] = ptr[w]] EXCEPT ![w] = Null]
  PROVE  \A o \in Objects : Held(ptr', o) = Held(ptr, o) - Is(ptr[v], o)
<1>1. ptr \in Holdings
  BY Before
<1>2. ASSUME NEW o \in Objects
      PROVE  Held([[ptr EXCEPT ![v] = ptr[w]] EXCEPT ![w] = Null], o)
               = Held(ptr, o) - Is(ptr[v], o)
  BY <1>1, TakenOver
<1> QED
  BY <1>2

LEMMA ObtainKeeps ==
  ASSUME Inv, slip = "none", NEW v \in Vars, Obtain(v) PROVE Kept
<1>1. CASE ptr' = [ptr EXCEPT ![v] = Null] /\ UNCHANGED refs
  <2>1. OwnTypeOK'
    BY <1>1, Before DEF OwnTypeOK, Obtain
  <2>2. \A o \in Objects : Held(ptr', o) = Held(ptr, o) + Is(Null, o) - Is(ptr[v], o)
    BY <1>1, Assigned, Null \in Pointers DEF Pointers
  <2>3. \A o \in Objects : Held(ptr', o) = Held(ptr, o)
    BY <2>2, Before DEF Obtain
  <2>4. \A o \in Objects : refs'[o] = Held(ptr', o) + (IF o \in lent' THEN 1 ELSE 0)
    BY <1>1, <2>3, Before DEF Obtain
  <2> QED
    BY <2>1, <2>4, AfterKept DEF Obtain
<1>2. ASSUME NEW q \in Objects, refs[q] = 0, refs' = [refs EXCEPT ![q] = 1],
             ptr' = [ptr EXCEPT ![v] = q]
      PROVE  Kept
  <2>1. OwnTypeOK'
    BY <1>2, Before DEF OwnTypeOK, Obtain
  <2>2. \A o \in Objects : Held(ptr', o) = Held(ptr, o) + Is(q, o) - Is(ptr[v], o)
    <3>1. q \in Pointers
      BY DEF Pointers
    <3> QED
      BY <1>2, <3>1, Assigned
  <2>3. \A o \in Objects : Held(ptr', o) = Held(ptr, o) + Is(q, o)
    <3>1. \A o \in Objects : Is(ptr[v], o) = 0 /\ Is(q, o) \in {0, 1}
      BY Before DEF Obtain, Is
    <3> QED
      BY <2>2, <3>1, Before
  <2>4. \A o \in Objects : refs'[o] = refs[o] + Is(q, o)
    BY <1>2, Before DEF Is
  <2>5. \A o \in Objects : refs'[o] = Held(ptr', o) + (IF o \in lent' THEN 1 ELSE 0)
    BY <2>3, <2>4, Before DEF Obtain, Is
  <2> QED
    BY <2>1, <2>5, AfterKept DEF Obtain
<1> QED
  BY <1>1, <1>2 DEF Obtain

LEMMA GetConnectKeeps ==
  ASSUME Inv, slip = "none", NEW v \in Vars, GetConnect(v) PROVE Kept
<1>1. PICK p \in lent \cup {Null} : /\ refs' = Taken(refs, p)
                                    /\ ptr' = [ptr EXCEPT ![v] = p]
  BY DEF GetConnect
<1>2. p \in Pointers /\ lent \subseteq Objects
  BY Before DEF OwnTypeOK, Pointers
<1>3. refs' \in [Objects -> Nat] /\ \A o \in Objects : refs'[o] = refs[o] + Is(p, o)
  BY <1>1, <1>2, Before, TakenRefs
<1>4. OwnTypeOK'
  BY <1>1, <1>2, <1>3, Before DEF OwnTypeOK, GetConnect, Pointers
<1>5. \A o \in Objects : Held(ptr', o) = Held(ptr, o) + Is(p, o) - Is(ptr[v], o)
  BY <1>1, <1>2, Assigned
<1>6. \A o \in Objects : Is(ptr[v], o) = 0 /\ Is(p, o) \in {0, 1}
  BY <1>2, Before DEF GetConnect
<1>7. ASSUME NEW o \in Objects
      PROVE  refs'[o] = Held(ptr', o) + (IF o \in lent' THEN 1 ELSE 0)
  <2>1. /\ Held(ptr, o) \in Nat /\ refs[o] \in Nat
        /\ refs[o] = Held(ptr, o) + (IF o \in lent THEN 1 ELSE 0)
    BY Sums
  <2>2. lent' = lent
    BY DEF GetConnect
  <2> QED
    BY <1>3, <1>5, <1>6, <2>1, <2>2
<1> QED
  BY <1>4, <1>7, AfterKept DEF GetConnect

LEMMA DestroyKeeps ==
  ASSUME Inv, slip = "none", NEW v \in Vars, Destroy(v) PROVE Kept
<1>1. Unborn \in Pointers /\ ptr[v] \in Pointers
  BY Before DEF Pointers
<1>2. refs' \in [Objects -> Nat] /\ \A o \in Objects : refs'[o] = refs[o] - Is(ptr[v], o)
  BY <1>1, Before, ReleasedRefs DEF Destroy
<1>3. OwnTypeOK'
  BY <1>2, Before DEF OwnTypeOK, Destroy
<1>4. \A o \in Objects : Held(ptr', o) = Held(ptr, o) + Is(Unborn, o) - Is(ptr[v], o)
  BY <1>1, Assigned DEF Destroy
<1>5. \A o \in Objects : Is(Unborn, o) = 0 /\ Is(ptr[v], o) \in {0, 1}
  BY <1>1, Before
<1>6. ASSUME NEW o \in Objects
      PROVE  refs'[o] = Held(ptr', o) + (IF o \in lent' THEN 1 ELSE 0)
  <2>1. /\ Held(ptr, o) \in Nat /\ refs[o] \in Nat
        /\ refs[o] = Held(ptr, o) + (IF o \in lent THEN 1 ELSE 0)
    BY Sums
  <2>2. lent' = lent
    BY DEF Destroy
  <2> QED
    BY <1>2, <1>4, <1>5, <2>1, <2>2
<1> QED
  BY <1>3, <1>6, AfterKept DEF Destroy

\* A pointer that is copied without a reference, over one of no object: the
\* moves of TypedParams and the copies of Connection.
LEMMA Duplicated ==
  ASSUME Inv, slip = "none", NEW v \in Vars, NEW w \in Vars, ptr[v] \notin Objects,
         \A o \in Objects : Held(ptr', o) = Held(ptr, o) + Is(ptr[w], o) - Is(ptr[v], o),
         UNCHANGED <<refs, lent>>,
         ptr[w] \in Objects => slip' # "none", ptr[w] \notin Objects => slip' = "none",
         OwnTypeOK'
  PROVE  Kept \/ Broken
<1>1. ptr[w] \in Pointers
  BY Before
<1>2. \A o \in Objects : Is(ptr[v], o) = 0 /\ Is(ptr[w], o) \in {0, 1}
  BY <1>1, Before DEF Is
<1>3. ASSUME NEW o \in Objects
      PROVE  /\ Held(ptr', o) = Held(ptr, o) + Is(ptr[w], o)
             /\ Held(ptr, o) \in Nat
             /\ refs'[o] = Held(ptr, o) + (IF o \in lent' THEN 1 ELSE 0)
  <2>1. /\ Held(ptr, o) \in Nat
        /\ refs[o] = Held(ptr, o) + (IF o \in lent THEN 1 ELSE 0)
    BY Sums
  <2>2. refs' = refs /\ lent' = lent
    OBVIOUS
  <2>3. Held(ptr', o) = Held(ptr, o) + Is(ptr[w], o)
    BY <1>2, <2>1
  <2> QED
    BY <2>1, <2>2, <2>3
<1>4. CASE ptr[w] \in Objects
  <2>1. refs'[ptr[w]] # Held(ptr', ptr[w]) + (IF ptr[w] \in lent' THEN 1 ELSE 0)
    <3>1. Is(ptr[w], ptr[w]) = 1
      BY DEF Is
    <3>2. /\ Held(ptr', ptr[w]) = Held(ptr, ptr[w]) + 1
          /\ Held(ptr, ptr[w]) \in Nat
          /\ refs'[ptr[w]] = Held(ptr, ptr[w]) + (IF ptr[w] \in lent' THEN 1 ELSE 0)
      BY <1>3, <1>4, <3>1
    <3> QED
      BY <3>2
  <2> QED
    BY <1>4, <2>1, AfterBroken
<1>5. CASE ptr[w] \notin Objects
  <2>1. ASSUME NEW o \in Objects
        PROVE  refs'[o] = Held(ptr', o) + (IF o \in lent' THEN 1 ELSE 0)
    <3>1. Is(ptr[w], o) = 0
      BY <1>5 DEF Is
    <3>2. Held(ptr', o) = Held(ptr, o)
      BY <1>3, <3>1
    <3> QED
      BY <1>3, <3>2
  <2> QED
    BY <1>5, <2>1, AfterKept
<1> QED
  BY <1>4, <1>5

LEMMA MoveConstructCounts ==
  ASSUME Inv, slip = "none", NEW v \in Vars, NEW w \in Vars, MoveConstruct(v, w)
  PROVE  Kept \/ Broken
<1>1. ptr[v] \notin Objects /\ ptr[w] \in Pointers /\ Alive(w) /\ v # w
  BY Before DEF MoveConstruct, Alive
<1>2. CASE cls = "TypedParams"
  <2>1. OwnTypeOK'
    BY <1>1, <1>2, Before DEF OwnTypeOK, MoveConstruct, SlipOn, Pointers
  <2>2. \A o \in Objects : Held(ptr', o) = Held(ptr, o) + Is(ptr[w], o) - Is(ptr[v], o)
    BY <1>1, <1>2, Assigned DEF MoveConstruct
  <2> QED
    BY <1>1, <1>2, <2>1, <2>2, Duplicated DEF MoveConstruct, SlipOn
<1>3. CASE cls # "TypedParams"
  <2>1. ptr' = [[ptr EXCEPT ![v] = ptr[w]] EXCEPT ![w] = Null]
    BY <1>3, Before DEF MoveConstruct, Holdings
  <2>2. \A o \in Objects : Held(ptr', o) = Held(ptr, o) - Is(ptr[v], o)
    BY <2>1, Took
  <2>3. \A o \in Objects : Is(ptr[v], o) = 0
    BY <1>1 DEF Is
  <2>4. ASSUME NEW o \in Objects
        PROVE  refs'[o] = Held(ptr', o) + (IF o \in lent' THEN 1 ELSE 0)
    <3>1. /\ Held(ptr, o) \in Nat /\ refs[o] \in Nat
          /\ refs[o] = Held(ptr, o) + (IF o \in lent THEN 1 ELSE 0)
      BY Sums
    <3>2. lent' = lent /\ refs' = refs
      BY DEF MoveConstruct
    <3> QED
      BY <2>2, <2>3, <3>1, <3>2
  <2>5. OwnTypeOK'
    BY <1>1, <1>3, <2>1, Before DEF OwnTypeOK, MoveConstruct, Pointers
  <2> QED
    BY <1>3, <2>4, <2>5, AfterKept DEF MoveConstruct
<1> QED
  BY <1>2, <1>3

LEMMA CopyConstructCounts ==
  ASSUME Inv, slip = "none", NEW v \in Vars, NEW w \in Vars, CopyConstruct(v, w)
  PROVE  Kept \/ Broken
<1>1. /\ ptr[v] \notin Objects /\ ptr[w] \in Pointers
      /\ ptr' = [ptr EXCEPT ![v] = ptr[w]]
  BY Before DEF CopyConstruct
<1>2. CASE refs' = Taken(refs, ptr[w]) /\ UNCHANGED slip
  <2>1. refs' \in [Objects -> Nat] /\ \A o \in Objects : refs'[o] = refs[o] + Is(ptr[w], o)
    BY <1>1, <1>2, Before, TakenRefs
  <2>2. OwnTypeOK'
    BY <1>1, <1>2, <2>1, Before DEF OwnTypeOK, CopyConstruct, Pointers
  <2>3. \A o \in Objects : Held(ptr', o) = Held(ptr, o) + Is(ptr[w], o) - Is(ptr[v], o)
    BY <1>1, Assigned
  <2>4. \A o \in Objects : Is(ptr[v], o) = 0 /\ Is(ptr[w], o) \in {0, 1}
    BY <1>1, Before DEF Is
  <2>5. ASSUME NEW o \in Objects
        PROVE  refs'[o] = Held(ptr', o) + (IF o \in lent' THEN 1 ELSE 0)
    <3>1. /\ Held(ptr, o) \in Nat /\ refs[o] \in Nat
          /\ refs[o] = Held(ptr, o) + (IF o \in lent THEN 1 ELSE 0)
      BY Sums
    <3>2. lent' = lent
      BY DEF CopyConstruct
    <3> QED
      BY <2>1, <2>3, <2>4, <3>1, <3>2
  <2> QED
    BY <1>2, <2>2, <2>5, AfterKept
<1>3. CASE SlipOn(ptr[w], "connection copied") /\ UNCHANGED refs
  <2>1. OwnTypeOK'
    BY <1>1, <1>3, Before DEF OwnTypeOK, CopyConstruct, SlipOn, Pointers
  <2>2. \A o \in Objects : Held(ptr', o) = Held(ptr, o) + Is(ptr[w], o) - Is(ptr[v], o)
    BY <1>1, Assigned
  <2> QED
    BY <1>1, <1>3, <2>1, <2>2, Duplicated DEF CopyConstruct, SlipOn
<1> QED
  BY <1>2, <1>3 DEF CopyConstruct

-----------------------------------------------------------------------------
(* Assignments *)

LEMMA MoveOntoKeeps ==
  ASSUME Inv, slip = "none", NEW v \in Vars, NEW w \in Vars, MoveOnto(v, w)
  PROVE  Kept
<1>1. /\ ptr[v] \in Pointers /\ ptr[w] \in Pointers
      /\ ptr' = [[ptr EXCEPT ![v] = ptr[w]] EXCEPT ![w] = Null]
  BY Before DEF MoveOnto, Take
<1>2. refs' \in [Objects -> Nat] /\ \A o \in Objects : refs'[o] = refs[o] - Is(ptr[v], o)
  BY <1>1, Before, ReleasedRefs DEF MoveOnto
<1>3. OwnTypeOK'
  BY <1>1, <1>2, Before DEF OwnTypeOK, MoveOnto, Pointers
<1>4. \A o \in Objects : Held(ptr', o) = Held(ptr, o) - Is(ptr[v], o)
  BY <1>1, Took
<1>5. \A o \in Objects : Is(ptr[v], o) \in {0, 1}
  BY <1>1, Before
<1>6. \A o \in Objects : refs'[o] = Held(ptr', o) + (IF o \in lent' THEN 1 ELSE 0)
  BY <1>2, <1>4, <1>5, Before DEF MoveOnto
<1> QED
  BY <1>3, <1>6, AfterKept DEF MoveOnto

LEMMA SwapWithKeeps ==
  ASSUME Inv, slip = "none", NEW v \in Vars, NEW w \in Vars, SwapWith(v, w)
  PROVE  Kept
<1>1. /\ ptr[v] \in Pointers /\ ptr[w] \in Pointers
      /\ ptr' = [ptr EXCEPT ![v] = ptr[w], ![w] = ptr[v]]
  BY Before DEF SwapWith
<1>2. OwnTypeOK'
  BY <1>1, Before DEF OwnTypeOK, SwapWith, Pointers
<1>3. ASSUME NEW o \in Objects PROVE Held(ptr', o) = Held(ptr, o)
  <2>1. ptr \in Holdings
    BY Before
  <2>2. Held([ptr EXCEPT ![v] = ptr[w], ![w] = ptr[v]], o) = Held(ptr, o)
    BY <2>1, Swapped
  <2> QED
    BY <1>1, <2>2
<1>4. \A o \in Objects : refs'[o] = Held(ptr', o) + (IF o \in lent' THEN 1 ELSE 0)
  BY <1>3, Sums DEF SwapWith
<1> QED
  BY <1>2, <1>4, AfterKept DEF SwapWith

LEMMA MoveOntoStreamCounts ==
  ASSUME Inv, slip = "none", NEW v \in Vars, NEW w \in Vars, MoveOntoStream(v, w)
  PROVE  Kept \/ Broken
<1>1. /\ ptr[v] \in Pointers /\ ptr[w] \in Pointers
      /\ ptr' = [[ptr EXCEPT ![v] = ptr[w]] EXCEPT ![w] = Null]
  BY Before DEF MoveOntoStream, Take
<1>2. OwnTypeOK'
  BY <1>1, Before DEF OwnTypeOK, MoveOntoStream, SlipOn, Pointers
<1>3. \A o \in Objects : Held(ptr', o) = Held(ptr, o) - Is(ptr[v], o)
  BY <1>1, Took
<1>4. CASE ptr[v] \in Objects
  <2>1. refs'[ptr[v]] # Held(ptr', ptr[v]) + (IF ptr[v] \in lent' THEN 1 ELSE 0)
    <3>1. /\ Held(ptr, ptr[v]) \in Nat
          /\ refs[ptr[v]] = Held(ptr, ptr[v]) + (IF ptr[v] \in lent THEN 1 ELSE 0)
      BY <1>4, Sums
    <3>2. Is(ptr[v], ptr[v]) = 1 /\ lent' = lent /\ refs' = refs
      BY DEF Is, MoveOntoStream
    <3>3. Held(ptr', ptr[v]) = Held(ptr, ptr[v]) - 1
      BY <1>3, <1>4, <3>2
    <3> QED
      BY <3>1, <3>2, <3>3
  <2> QED
    BY <1>2, <1>4, <2>1, AfterBroken DEF MoveOntoStream, SlipOn
<1>5. CASE ptr[v] \notin Objects
  <2>1. ASSUME NEW o \in Objects
        PROVE  refs'[o] = Held(ptr', o) + (IF o \in lent' THEN 1 ELSE 0)
    <3>1. /\ Held(ptr, o) \in Nat /\ refs[o] \in Nat
          /\ refs[o] = Held(ptr, o) + (IF o \in lent THEN 1 ELSE 0)
      BY Sums
    <3>2. lent' = lent /\ refs' = refs /\ Is(ptr[v], o) = 0
      BY <1>5 DEF MoveOntoStream, Is
    <3> QED
      BY <1>3, <1>5, <3>1, <3>2
  <2> QED
    BY <1>2, <1>5, <2>1, AfterKept DEF MoveOntoStream, SlipOn
<1> QED
  BY <1>4, <1>5

LEMMA CopyOntoStreamCounts ==
  ASSUME Inv, slip = "none", NEW v \in Vars, NEW w \in Vars, CopyOntoStream(v, w)
  PROVE  Kept \/ Broken
<1> DEFINE left == Released(refs, ptr[v])
<1>1. /\ ptr[v] \in Pointers /\ ptr[w] \in Pointers
      /\ ptr' = [ptr EXCEPT ![v] = ptr[w]]
  BY Before DEF CopyOntoStream
<1>2. left \in [Objects -> Nat] /\ \A o \in Objects : left[o] = refs[o] - Is(ptr[v], o)
  BY <1>1, Before, ReleasedRefs
<1>3. /\ \A o \in Objects : Held(ptr', o) = Held(ptr, o) + Is(ptr[w], o) - Is(ptr[v], o)
      /\ \A o \in Objects : Is(ptr[v], o) \in {0, 1} /\ Is(ptr[w], o) \in {0, 1}
  BY <1>1, Before, Assigned
<1>4. CASE ptr[w] \in Objects /\ left[ptr[w]] = 0
  <2>1. refs' = left /\ slip' = "stream copied onto itself" /\ UNCHANGED <<cls, lent>>
    BY <1>4 DEF CopyOntoStream
  <2>2. OwnTypeOK'
    BY <1>1, <1>2, <2>1, Before DEF OwnTypeOK, Pointers
  <2>3. Held(ptr, ptr[w]) > 0
    BY Before, HeldType
  <2>4. Is(ptr[w], ptr[w]) = 1
    BY DEF Is
  <2>5. Held(ptr', ptr[w]) > 0
    BY <1>3, <1>4, <2>3, <2>4, Before
  <2>6. refs'[ptr[w]] # Held(ptr', ptr[w]) + (IF ptr[w] \in lent' THEN 1 ELSE 0)
    <3>1. Held(ptr', ptr[w]) \in Int
      BY <1>3, <1>4, Before
    <3>2. refs'[ptr[w]] = 0
      BY <1>4, <2>1
    <3> QED
      BY <2>5, <3>1, <3>2
  <2> QED
    BY <1>4, <2>1, <2>2, <2>6, AfterBroken
<1>5. CASE ~(ptr[w] \in Objects /\ left[ptr[w]] = 0)
  <2>1. refs' = Taken(left, ptr[w]) /\ UNCHANGED <<cls, lent, slip>>
    BY <1>5 DEF CopyOntoStream
  <2>2. refs' \in [Objects -> Nat] /\ \A o \in Objects : refs'[o] = left[o] + Is(ptr[w], o)
    BY <1>1, <1>2, <2>1, TakenRefs
  <2>3. OwnTypeOK'
    BY <1>1, <2>1, <2>2, Before DEF OwnTypeOK, Pointers
  <2> HIDE DEF left
  <2>4. \A o \in Objects : refs'[o] = refs[o] - Is(ptr[v], o) + Is(ptr[w], o)
    BY <1>2, <2>2
  <2>5. \A o \in Objects : refs'[o] = Held(ptr', o) + (IF o \in lent' THEN 1 ELSE 0)
    BY <1>3, <2>1, <2>4, Before
  <2> QED
    BY <2>1, <2>3, <2>5, AfterKept
<1> QED
  BY <1>4, <1>5

-----------------------------------------------------------------------------
(* References that libvirt takes, or that nobody gives back *)

LEMMA RefBreaks ==
  ASSUME Inv, slip = "none", NEW v \in Vars, Ref(v) PROVE Broken
<1>1. ptr[v] \in Objects /\ ptr[v] \in Pointers /\ UNCHANGED <<cls, lent, ptr>>
  BY Before DEF Ref
<1>2. /\ refs' \in [Objects -> Nat]
      /\ \A o \in Objects : refs'[o] = refs[o] + Is(ptr[v], o)
  <2>1. refs' = Taken(refs, ptr[v]) /\ refs \in [Objects -> Nat]
    BY Before DEF Ref
  <2> QED
    BY <1>1, <2>1, TakenRefs
<1>3. OwnTypeOK' /\ slip' # "none"
  BY <1>1, <1>2, Before DEF OwnTypeOK, Ref, SlipOn
<1>4. refs'[ptr[v]] # Held(ptr', ptr[v]) + (IF ptr[v] \in lent' THEN 1 ELSE 0)
  <2>1. /\ Held(ptr, ptr[v]) \in Nat
        /\ refs[ptr[v]] = Held(ptr, ptr[v]) + (IF ptr[v] \in lent THEN 1 ELSE 0)
    BY <1>1, Sums
  <2>2. Is(ptr[v], ptr[v]) = 1
    BY DEF Is
  <2> QED
    BY <1>1, <1>2, <2>1, <2>2
<1> QED
  BY <1>1, <1>3, <1>4, AfterBroken

LEMMA LendKeeps ==
  ASSUME Inv, slip = "none", NEW q \in Objects, Lend(q) \/ GiveBack(q) PROVE Kept
<1>1. q \in Pointers
  BY DEF Pointers
<1>2. CASE Lend(q)
  <2>1. /\ refs' \in [Objects -> Nat]
        /\ \A o \in Objects : refs'[o] = refs[o] + Is(q, o)
    BY <1>1, <1>2, Before, TakenRefs DEF Lend
  <2>2. OwnTypeOK'
    BY <1>2, <2>1, Before DEF OwnTypeOK, Lend
  <2>3. \A o \in Objects : refs'[o] = Held(ptr', o) + (IF o \in lent' THEN 1 ELSE 0)
    BY <1>2, <2>1, Before DEF Lend, Is
  <2> QED
    BY <1>2, <2>2, <2>3, AfterKept DEF Lend
<1>3. CASE GiveBack(q)
  <2>1. refs[q] > 0
    BY <1>3, Before DEF GiveBack
  <2>2. /\ refs' \in [Objects -> Nat]
        /\ \A o \in Objects : refs'[o] = refs[o] - Is(q, o)
    BY <1>1, <1>3, <2>1, Before, ReleasedRefs DEF GiveBack
  <2>3. OwnTypeOK'
    BY <1>3, <2>2, Before DEF OwnTypeOK, GiveBack
  <2>4. \A o \in Objects : refs'[o] = Held(ptr', o) + (IF o \in lent' THEN 1 ELSE 0)
    BY <1>3, <2>2, Before DEF GiveBack, Is
  <2> QED
    BY <1>3, <2>3, <2>4, AfterKept DEF GiveBack
<1> QED
  BY <1>2, <1>3

-----------------------------------------------------------------------------
(* The invariant *)

LEMMA InitCounts == OwnInit => Inv
<1> SUFFICES ASSUME OwnInit PROVE Inv
  OBVIOUS
<1>1. OwnTypeOK
  BY DEF OwnInit, OwnTypeOK
<1>2. \A o \in Objects : Owners(o) = {}
  BY DEF OwnInit, Owners
<1>3. Counted
  BY <1>2, FS_EmptySet DEF OwnInit, Counted, Lent
<1> QED
  BY <1>1, <1>3 DEF OwnInit, Inv, OwnersCounted

LEMMA StepCounts == Inv /\ OwnNext => Kept \/ Broken
<1> SUFFICES ASSUME Inv, OwnNext PROVE Kept \/ Broken
  OBVIOUS
<1>1. slip = "none"
  BY DEF OwnNext
<1>2. ASSUME NEW v \in Vars, Operation(v) PROVE Kept \/ Broken
  BY <1>1, <1>2, ObtainKeeps, GetConnectKeeps, DestroyKeeps, RefBreaks DEF Operation
<1>3. ASSUME NEW v \in Vars, NEW w \in Vars, Transfer(v, w) PROVE Kept \/ Broken
  BY <1>1, <1>3, MoveConstructCounts, CopyConstructCounts, MoveOntoKeeps, SwapWithKeeps,
     MoveOntoStreamCounts, CopyOntoStreamCounts DEF Transfer
<1>4. ASSUME NEW o \in Objects, Lend(o) \/ GiveBack(o) PROVE Kept \/ Broken
  BY <1>1, <1>4, LendKeeps
<1> QED
  BY <1>2, <1>3, <1>4 DEF OwnNext

LEMMA InvHolds == OwnSpec => []Inv
<1>1. OwnInit => Inv
  BY InitCounts
<1>2. Inv /\ [OwnNext]_ownVars => Inv'
  <2>1. ASSUME Inv, OwnNext PROVE Inv'
    BY <2>1, StepCounts DEF Inv, OwnersCounted, Kept, Broken
  <2>2. ASSUME Inv, UNCHANGED ownVars PROVE Inv'
    BY <2>2 DEF Inv, OwnTypeOK, OwnersCounted, Counted, Owners, Lent, ownVars
  <2> QED
    BY <2>1, <2>2
<1> QED
  BY <1>1, <1>2, PTL DEF OwnSpec

\* The variables of a program hold objects, null or nothing, and libvirt's
\* counts are natural numbers, whatever the classes' operations are called on.
THEOREM TypeCorrect == OwnSpec => []OwnTypeOK
<1>1. Inv => OwnTypeOK
  BY DEF Inv
<1> QED
  BY <1>1, InvHolds, PTL

\* The count of references is right after any sequence of constructions,
\* moves, copies, assignments and destructions, unless the sequence ends in
\* one of the five operations of virt_wrap that break it, and then it is wrong.
THEOREM CountsOwners == OwnSpec => []OwnersCounted
<1>1. Inv => OwnersCounted
  BY DEF Inv
<1> QED
  BY <1>1, InvHolds, PTL

-----------------------------------------------------------------------------
(* One owner *)

\* Nothing is shared in a class that cannot be copied: no operation takes a
\* second reference.
Unshared ==
  cls \in Movable => slip = "none" /\ lent = {} /\ \A o \in Objects : refs[o] \in {0, 1}

LEMMA StepUnshared == OwnTypeOK /\ Unshared /\ [OwnNext]_ownVars => Unshared'
<1> SUFFICES ASSUME OwnTypeOK, Unshared, [OwnNext]_ownVars, cls' \in Movable
             PROVE  slip' = "none" /\ lent' = {} /\ \A o \in Objects : refs'[o] \in {0, 1}
  BY DEF Unshared
<1>1. cls' = cls
  BY DEF OwnNext, ownVars, Operation, Transfer, Obtain, GetConnect, Destroy, Ref, MoveConstruct,
     CopyConstruct, MoveOnto, SwapWith, MoveOntoStream, CopyOntoStream, Lend, GiveBack
<1>2. /\ cls \in Movable /\ slip = "none" /\ lent = {} /\ refs \in [Objects -> Nat]
      /\ \A o \in Objects : refs[o] \in {0, 1}
  BY <1>1 DEF Unshared, OwnTypeOK
<1>3. /\ cls # "Connection" /\ cls # "Stream" /\ cls # "TypedParams"
  BY <1>2 DEF Movable, Resetting, Swapping
<1>4. \A p : \A o \in Objects : Released(refs, p)[o] \in {0, 1}
  BY <1>2 DEF Released
<1>5. ASSUME NEW v \in Vars, Operation(v)
      PROVE  slip' = "none" /\ lent' = {} /\ \A o \in Objects : refs'[o] \in {0, 1}
  <2>1. CASE Obtain(v)
    BY <1>2, <2>1 DEF Obtain
  <2>2. CASE Destroy(v)
    BY <1>2, <1>4, <2>2 DEF Destroy
  <2> QED
    BY <1>3, <1>5, <2>1, <2>2 DEF Operation, GetConnect, Ref
<1>6. ASSUME NEW v \in Vars, NEW w \in Vars, Transfer(v, w)
      PROVE  slip' = "none" /\ lent' = {} /\ \A o \in Objects : refs'[o] \in {0, 1}
  <2>1. CASE MoveConstruct(v, w)
    BY <1>2, <1>3, <2>1 DEF MoveConstruct
  <2>2. CASE MoveOnto(v, w)
    BY <1>2, <1>4, <2>2 DEF MoveOnto
  <2>3. CASE SwapWith(v, w)
    BY <1>2, <2>3 DEF SwapWith
  <2> QED
    BY <1>3, <1>6, <2>1, <2>2, <2>3 DEF Transfer, CopyConstruct, MoveOntoStream, CopyOntoStream
<1>7. ASSUME NEW o \in Objects, Lend(o) \/ GiveBack(o) PROVE FALSE
  BY <1>2, <1>3, <1>7 DEF Lend, GiveBack
<1>8. ASSUME UNCHANGED ownVars
      PROVE  slip' = "none" /\ lent' = {} /\ \A o \in Objects : refs'[o] \in {0, 1}
  BY <1>2, <1>8 DEF ownVars
<1> QED
  BY <1>5, <1>6, <1>7, <1>8 DEF OwnNext

\* An object of a class that cannot be copied never has two owners, however
\* its variables are moved, swapped and assigned.
THEOREM NoTwoOwners == OwnSpec => []OneOwner
<1>1. Inv /\ Unshared => OneOwner
  <2> SUFFICES ASSUME Inv, Unshared, cls \in Movable, NEW v \in Vars, NEW w \in Vars,
                      ptr[v] = ptr[w], ptr[v] \in Objects, v # w
               PROVE  FALSE
    BY DEF OneOwner
  <2> DEFINE o == ptr[v]
             S == {u \in Vars : ptr[u] = o}
  <2>1. slip = "none" /\ lent = {} /\ refs[o] \in {0, 1}
    BY DEF Unshared
  <2>2. Held(ptr, o) \in Nat /\ refs[o] = Held(ptr, o)
    BY <2>1, Sums
  <2>3. IsFiniteSet(S)
    BY Before, <2>1, HeldType
  <2>4. IsFiniteSet({v, w}) /\ Cardinality({v, w}) = 2
    <3>1. IsFiniteSet({w}) /\ Cardinality({w}) = 1
      BY FS_Singleton
    <3>2. {v, w} = {w} \cup {v} /\ v \notin {w}
      OBVIOUS
    <3>3. IsFiniteSet({w} \cup {v}) /\ Cardinality({w} \cup {v}) = Cardinality({w}) + 1
      BY <3>1, <3>2, FS_AddElement
    <3> QED
      BY <3>1, <3>2, <3>3
  <2>5. {v, w} \subseteq S
    OBVIOUS
  <2>6. Cardinality({v, w}) <= Cardinality(S)
    BY <2>3, <2>5, FS_Subset
  <2>7. Cardinality(S) = Held(ptr, o)
    BY DEF Held
  <2> HIDE DEF S, o
  <2> QED
    BY <2>1, <2>2, <2>4, <2>6, <2>7
<1>2. OwnInit => Unshared
  BY DEF OwnInit, Unshared
<1>3. OwnTypeOK /\ Unshared /\ [OwnNext]_ownVars => Unshared'
  BY StepUnshared
<1> QED
  BY <1>1, <1>2, <1>3, TypeCorrect, InvHolds, PTL DEF OwnSpec

-----------------------------------------------------------------------------
USE BindingsAssumption

(* What holds of a call in each of its phases *)

Given    == {"inPlace", "strided", "nullTerminated", "plainSet", "leases"}
Copying  == {"copiedFreed", "copiedKept", "copiedLeases"}
Counting == Filled \cup {"fillParams", "countParams"}

\* A call that has allocated and been told nothing.
Fresh ==
  /\ told = 0 /\ asked = 0
  /\ slots = <<>> /\ blocks = {} /\ array = FALSE /\ fault = "none"

\* The program holds no handle, so that a list may give it any.
Bare == slip = "none" /\ (\A v \in Vars : ptr[v] = Unborn) /\ (\A o \in Objects : refs[o] = 0)

Filling ==
  /\ Shape \in Filled \cup {"fillParams"}
  /\ asked \in 0 .. N /\ (Shape \in Light => asked > 0) /\ told = 0
  /\ slots = <<>> /\ blocks = {} /\ array = (Shape = "fillParams") /\ fault = "none"

\* The blocks behind the k items that libvirt gave.
Allocated(k) == IF told = -1 THEN {} ELSE 1 .. k
Written == IF told = -1 \/ Shape \in Plain THEN {} ELSE 1 .. told

BufferWritten ==
  /\ Shape \in Filled
  /\ asked \in 0 .. N /\ told \in -1 .. asked /\ (Shape \in Light /\ asked = 0 => told = 0)
  /\ Shape = "plainStatic" => told <= 0
  /\ blocks = Written /\ array = FALSE

ArrayWritten ==
  /\ Shape \in Sets
  /\ told \in {-1, have} /\ blocks = Allocated(have)
  /\ array = (told # -1 /\ (have > 0 \/ Shape # "leases"))

ParamsWritten ==
  /\ told \in {-1, 0}
  /\ \/ Shape = "fillParams" /\ asked \in 0 .. N /\ blocks = Allocated(asked) /\ array = TRUE
     \/ Shape = "setParams" /\ blocks = Allocated(have) /\ array = (told # -1 /\ have > 0)

\* What was written past the buffer by then.
Overwritten ==
  /\ Shape = "cpuMaps" => (fault # "none" <=> MapsTooLong(told, asked))
  /\ Shape # "cpuMaps" /\ (Shape # "fillParams" \/ told = -1) => fault = "none"

StringHeld ==
  /\ Shape \in Strings
  /\ told = 1 /\ array = FALSE
  /\ answer = Answer("list", <<1>>, Shape \notin {"string", "kept"})
  /\ blocks = IF Shape \in {"string", "copied", "kept"} THEN {1} ELSE {}
  /\ slots = IF Shape = "string" THEN <<1>> ELSE <<>>

BufferHeld ==
  /\ BufferWritten /\ Shape \notin Converting
  /\ told # -1 /\ (Shape \in Losing => told = 0)
  /\ Shape = "plainStatic" => asked = 0
  /\ answer = Answer("list", Buffer, Shape \in Plain)
  /\ slots = IF Shape \in Owning THEN Buffer ELSE <<>>

ArrayHeld ==
  /\ Shape \in Given
  /\ told = have /\ blocks = 1 .. have
  /\ array = (have > 0 \/ Shape # "leases")
  /\ slots = IF Shape = "strided" THEN [i \in 1 .. told |-> Garbage] ELSE Items(told)
  /\ answer = Answer("list", slots, FALSE)

CopyHeld ==
  /\ Shape \in Copying
  /\ told = have /\ array = FALSE /\ slots = <<>>
  /\ blocks = IF Shape = "copiedKept" THEN 1 .. have ELSE {}
  /\ answer = Answer("list", Items(told), Shape # "copiedLeases")

ParamsHeld ==
  /\ told = 0 /\ slots = <<>>
  /\ \/ Shape = "fillParams"
     \/ /\ Shape = "setParams"
        /\ blocks = 1 .. have /\ array = (have > 0)
        /\ answer = Answer("list", Items(have), FALSE)

Correct == MemoryForAReason /\ NothingLeft /\ ListsDelivered /\ AnswersTrue

CallInv ==
  /\ have \in 0 .. N /\ others \in 0 .. N
  /\ phase \in {"idle", "count", "fill", "call", "return", "hold", "done"}
  /\ phase \in {"count", "fill", "call", "return", "hold"} => Bare
  /\ phase \in {"idle", "count", "call"} => Fresh
  /\ phase = "count" => Shape \in Counting
  /\ phase = "call" => Shape \notin Counting
  /\ phase = "fill" => Filling
  /\ phase = "return" =>
       slots = <<>> /\ Overwritten /\ (BufferWritten \/ ArrayWritten \/ ParamsWritten)
  /\ phase = "hold" =>
       /\ Shape # "fillParams" => fault = "none"
       /\ (StringHeld \/ BufferHeld \/ ArrayHeld \/ CopyHeld \/ ParamsHeld)
  /\ Correct

IInv == Inv /\ CallInv

-----------------------------------------------------------------------------
(* Steps that end no call *)

LEMMA Unowned ==
  ASSUME Inv, UNCHANGED ownVars
  PROVE  Inv' /\ (Bare => Bare')
<1>1. OwnTypeOK /\ OwnersCounted
  BY DEF Inv
<1>2. cls' = cls /\ refs' = refs /\ lent' = lent /\ ptr' = ptr /\ slip' = slip
  BY DEF ownVars
<1>3. OwnTypeOK'
  BY <1>1, <1>2 DEF OwnTypeOK
<1>4. Counted' <=> Counted
  BY <1>2, CountedIsBalanced
<1>5. OwnersCounted'
  BY <1>1, <1>2, <1>4 DEF OwnersCounted
<1>6. Bare => Bare'
  BY <1>2 DEF Bare
<1> QED
  BY <1>3, <1>5, <1>6 DEF Inv

\* The properties are about finished calls.
LEMMA Unfinished ==
  ASSUME phase' # "done" PROVE Correct'
BY DEF Correct, Finished, MemoryForAReason, NothingLeft, ListsDelivered, Lost, AnswersTrue

LEMMA BeginKeeps ==
  ASSUME IInv, NEW m \in Methods, Begin(m) PROVE IInv'
<1>1. Inv' /\ Bare'
  BY Unowned DEF Begin, Bare, IInv
<1>2. Fresh'
  BY DEF IInv, CallInv, Begin, Fresh
<1>3. /\ have' \in 0 .. N /\ others' \in 0 .. N /\ call' = m
      /\ phase' = IF m.shape \in Counting THEN "count" ELSE "call"
  BY DEF Begin, Counting
<1>4. Correct'
  BY <1>3, Unfinished
<1> QED
  BY <1>1, <1>2, <1>3, <1>4 DEF IInv, CallInv, Shape

LEMMA OthersActKeeps ==
  ASSUME IInv, OthersAct PROVE IInv'
<1>1. Inv' /\ Bare' /\ Correct'
  BY Unowned, Unfinished DEF OthersAct, IInv, CallInv
<1>2. Filling'
  BY DEF IInv, CallInv, OthersAct, Filling, Shape
<1> QED
  BY <1>1, <1>2 DEF IInv, CallInv, OthersAct

LEMMA OperateKeeps ==
  ASSUME IInv, Operate PROVE IInv'
<1>1. Inv'
  BY StepCounts DEF IInv, Inv, OwnersCounted, Kept, Broken, Operate
<1>2. Correct'
  BY Unfinished DEF Operate, callVars
<1>3. Fresh'
  BY DEF IInv, CallInv, Operate, callVars, Fresh
<1> QED
  BY <1>1, <1>2, <1>3 DEF IInv, CallInv, Operate, callVars

LEMMA RestKeeps ==
  ASSUME IInv, Rest PROVE IInv'
<1>1. Inv' /\ Correct'
  BY Unowned, Unfinished DEF Rest, IInv
<1>2. Fresh'
  BY DEF Rest, Fresh
<1> QED
  BY <1>1, <1>2 DEF IInv, CallInv, Rest

\* What a step of the call, that leaves the handles alone, has to show.
LEMMA NewPhase ==
  ASSUME IInv, UNCHANGED <<ownVars, have, others>>,
         phase \in {"count", "fill", "call", "return", "hold"},
         \/ phase' = "fill" /\ Filling'
         \/ /\ phase' = "return" /\ slots' = <<>> /\ Overwritten'
            /\ (BufferWritten \/ ArrayWritten \/ ParamsWritten)'
         \/ /\ phase' = "hold" /\ (Shape' # "fillParams" => fault' = "none")
            /\ (StringHeld \/ BufferHeld \/ ArrayHeld \/ CopyHeld \/ ParamsHeld)'
         \/ phase' = "done" /\ Correct'
  PROVE  IInv'
<1>1. Inv' /\ Bare'
  BY Unowned DEF IInv, CallInv
<1>2. Correct'
  BY Unfinished
<1> QED
  BY <1>1, <1>2 DEF IInv, CallInv

-----------------------------------------------------------------------------
(* Answers of one value *)

LEMMA AskKeeps ==
  ASSUME IInv, Ask PROVE IInv'
<1>1. /\ Shape' = Shape /\ phase' = "done" /\ Shape \in Statuses
      /\ told' \in Outcomes(Shape) /\ answer' = Nothing(Reading(Shape, told'))
      /\ blocks' = {} /\ array' = FALSE /\ fault' = "none"
      /\ UNCHANGED <<ownVars, have, others>>
  BY DEF IInv, CallInv, Fresh, Ask, Shape
<1>2. MemoryForAReason' /\ NothingLeft'
  BY <1>1 DEF MemoryForAReason, Misuses, NothingLeft, Leaves, Statuses
<1>3. ListsDelivered'
  BY <1>1 DEF ListsDelivered, Lost, Statuses, Filled, Sets, Strings
<1>4. AnswersTrue'
  <2> SUFFICES ASSUME Shape \in Statuses \ {"raw", "blind"}
               PROVE  LET granted == told' = IF -1 \in Outcomes(Shape) /\ 1 \in Outcomes(Shape)
                                               THEN 1 ELSE 0
                          yes == answer'.tag = "yes"
                      IN  IF Shape = "nonzero" THEN yes <=> ~granted
                          ELSE IF Shape = "question" THEN yes <=> granted \/ told' = -1
                          ELSE yes <=> granted
    BY <1>1 DEF AnswersTrue
  <2>1. answer'.tag = Reading(Shape, told')
    BY <1>1 DEF Nothing, Answer
  <2>2. CASE Shape \in {"positive", "question", "tfe"}
    BY <1>1, <2>1, <2>2 DEF Outcomes, Reading, Says
  <2>3. CASE Shape \in {"zero", "nonneg", "nonzero", "throwing"}
    BY <1>1, <2>1, <2>3 DEF Outcomes, Reading, Says
  <2> QED
    BY <2>2, <2>3 DEF Statuses
<1> QED
  BY <1>1, <1>2, <1>3, <1>4, NewPhase DEF Correct, Ask

\* What ends a call without an answer, and leaves nothing allocated.
LEMMA EndsEmpty ==
  ASSUME phase' = "done", told' = -1, answer'.tag # "list", Shape' \notin Statuses,
         Shape' \notin {"freeable", "heavyFreeable"} \/ asked' = 0,
         blocks' = {}, array' = FALSE, fault' = "none"
  PROVE  Correct'
<1>1. MemoryForAReason' /\ NothingLeft'
  BY DEF MemoryForAReason, Misuses, MapsTooLong, NothingLeft, Leaves
<1>2. ListsDelivered'
  BY DEF ListsDelivered, Lost
<1> QED
  BY <1>1, <1>2 DEF Correct, AnswersTrue

LEMMA ReadStringKeeps ==
  ASSUME IInv, ReadString PROVE IInv'
<1>1. /\ Shape' = Shape /\ Shape \in Strings /\ told' \in {-1, 1}
      /\ array' = FALSE /\ fault' = "none"
      /\ blocks = {} /\ slots = <<>>
      /\ UNCHANGED <<ownVars, have, others>>
  BY DEF IInv, CallInv, Fresh, ReadString, Shape
<1>2. CASE told' = 1
  BY <1>1, <1>2, NewPhase DEF ReadString, StringHeld
<1>3. CASE told' = -1
  <2>1. phase' = "done" /\ blocks' = {} /\ answer'.tag # "list"
    BY <1>1, <1>3 DEF ReadString, Nothing, Answer
  <2>2. Shape \notin Statuses \cup {"freeable", "heavyFreeable"}
    BY <1>1 DEF Strings, Statuses
  <2>3. Correct'
    BY <1>1, <1>3, <2>1, <2>2, EndsEmpty
  <2> QED
    BY <1>1, <2>1, <2>3, NewPhase DEF ReadString
<1> QED
  BY <1>1, <1>2, <1>3

-----------------------------------------------------------------------------
(* Buffers, counted and filled *)

LEMMA MinOfTwo ==
  ASSUME NEW a \in Nat, NEW b \in Nat
  PROVE  Min({a, b}) \in 0 .. b
<1>1. \E x \in {a, b} : \A y \in {a, b} : x =< y
  BY DEF Min
<1>2. Min({a, b}) \in {a, b} /\ \A y \in {a, b} : Min({a, b}) =< y
  BY <1>1 DEF Min
<1> QED
  BY <1>2

\* Nothing was written past a buffer that holds nothing.
LEMMA NotOverwritten ==
  ASSUME fault' = "none", Shape' = "cpuMaps" => told' <= 0, told' \in Int
  PROVE  Overwritten'
BY DEF Overwritten, MapsTooLong

LEMMA CountKeeps ==
  ASSUME IInv, Count PROVE IInv'
<1>1. /\ Shape' = Shape /\ Shape \in Counting /\ Fresh
      /\ slots' = <<>> /\ blocks' = {} /\ fault' = "none"
      /\ UNCHANGED <<ownVars, have, others>>
  BY DEF IInv, CallInv, Fresh, Count, Shape
<1>2. PICK c \in Sizes : Uncounted(c) \/ Sized(c)
  BY DEF Count
<1>3. c \in 0 .. N \cup {-1}
  BY DEF IInv, CallInv, Sizes
<1>4. CASE Uncounted(c)
  <2>1. /\ phase' = "done" /\ told' = -1 /\ asked' = 0 /\ array' = FALSE
        /\ answer'.tag # "list"
    BY <1>1, <1>4 DEF Uncounted, Fresh, Nothing, Answer
  <2>2. Shape \notin Statuses
    BY <1>1 DEF Counting, Filled, Statuses
  <2>3. Correct'
    BY <1>1, <2>1, <2>2, EndsEmpty
  <2> QED
    BY <1>1, <2>1, <2>3, NewPhase DEF Count
<1>5. CASE Sized(c)
  <2>1. /\ asked' = c /\ c \in 0 .. N /\ array' = (Shape = "fillParams")
        /\ Shape \in Filled \cup {"fillParams"}
    BY <1>1, <1>3, <1>5 DEF Sized, Counting
  <2>2. CASE c = 0 /\ Shape \in Light
    <3>1. phase' = "return" /\ told' = 0
      BY <1>5, <2>2 DEF Sized
    <3>2. Shape \in Filled /\ array' = FALSE
      BY <2>1, <2>2 DEF Light
    <3>3. Written' = {}
      BY <1>1, <3>1 DEF Written
    <3>4. BufferWritten'
      BY <1>1, <2>1, <2>2, <3>1, <3>2, <3>3 DEF BufferWritten
    <3>5. Overwritten'
      BY <1>1, <3>1, NotOverwritten
    <3> QED
      BY <1>1, <3>1, <3>4, <3>5, NewPhase DEF Count
  <2>3. CASE ~(c = 0 /\ Shape \in Light)
    <3>1. phase' = "fill" /\ told' = 0
      BY <1>1, <1>5, <2>3 DEF Sized, Fresh
    <3>2. Filling'
      BY <1>1, <2>1, <2>3, <3>1 DEF Filling
    <3> QED
      BY <1>1, <3>1, <3>2, NewPhase DEF Count
  <2> QED
    BY <2>2, <2>3
<1> QED
  BY <1>2, <1>4, <1>5

LEMMA FillKeeps ==
  ASSUME IInv, Fill PROVE IInv'
<1>1. /\ Shape' = Shape /\ Filling /\ phase' = "return" /\ slots' = <<>>
      /\ call' = call /\ asked' = asked /\ array' = array /\ have \in Nat /\ fault = "none"
      /\ UNCHANGED <<ownVars, have, others>>
  <2>1. phase = "fill" /\ Filling /\ have \in Nat
    <3>1. phase = "fill"
      BY DEF Fill
    <3> QED
      BY <3>1 DEF IInv, CallInv
  <2>2. slots = <<>> /\ fault = "none"
    BY <2>1 DEF Filling
  <2> QED
    BY <2>1, <2>2 DEF Fill, Shape
<1>2. /\ told' \in {-1, IF Shape \in {"plainStatic", "fillParams"} THEN 0 ELSE Min({have, asked})}
      /\ blocks' = IF told' = -1 \/ Shape \in Plain THEN {}
                   ELSE 1 .. IF Shape = "fillParams" THEN asked ELSE told'
  BY DEF Fill
<1>3. /\ asked \in 0 .. N /\ Shape \in Filled \cup {"fillParams"}
      /\ array = (Shape = "fillParams") /\ (Shape \in Light => asked > 0)
  BY <1>1 DEF Filling
<1>4. Min({have, asked}) \in 0 .. asked
  BY <1>1, <1>3, MinOfTwo
<1>5. fault' \in Overflow(told', asked)
  BY DEF Fill
<1>6. CASE Shape = "fillParams"
  <2>1. told' \in {-1, 0} /\ blocks' = Allocated(asked)'
    BY <1>1, <1>2, <1>6 DEF Plain, Allocated
  <2>2. ParamsWritten'
    BY <1>1, <1>3, <1>6, <2>1 DEF ParamsWritten
  <2>3. told' = -1 => Overflow(told', asked) = {"none"}
    BY <1>6 DEF Overflow
  <2>4. Overwritten'
    BY <1>1, <1>5, <1>6, <2>3 DEF Overwritten
  <2> QED
    BY <1>1, <2>2, <2>4, NewPhase DEF Fill
<1>7. CASE Shape # "fillParams"
  <2>1. /\ told' \in -1 .. asked /\ blocks' = Written'
        /\ Shape = "plainStatic" => told' <= 0
    BY <1>1, <1>2, <1>3, <1>4, <1>7 DEF Written
  <2>2. array' = FALSE /\ Shape \in Filled
    BY <1>1, <1>3, <1>7
  <2>3. BufferWritten'
    BY <1>1, <1>3, <2>1, <2>2 DEF BufferWritten
  <2>4. CASE Shape = "cpuMaps"
    <3>1. Overflow(told', asked) =
            IF MapsTooLong(told', asked) THEN {"wrote past the buffer"} ELSE {"none"}
      BY <1>7, <2>4 DEF Overflow
    <3>2. fault' # "none" <=> MapsTooLong(told', asked)
      BY <1>5, <3>1
    <3>3. Overwritten'
      BY <1>1, <2>4, <3>2 DEF Overwritten
    <3> QED
      BY <1>1, <2>3, <3>3, NewPhase DEF Fill
  <2>5. CASE Shape # "cpuMaps"
    <3>1. Overflow(told', asked) = {"none"}
      BY <1>7, <2>5 DEF Overflow
    <3>2. Overwritten'
      BY <1>1, <1>5, <2>5, <3>1 DEF Overwritten
    <3> QED
      BY <1>1, <2>3, <3>2, NewPhase DEF Fill
  <2> QED
    BY <2>4, <2>5
<1> QED
  BY <1>6, <1>7

-----------------------------------------------------------------------------
(* Arrays that libvirt allocates *)

LEMMA FetchArrayKeeps ==
  ASSUME IInv, FetchArray PROVE IInv'
<1>1. /\ Shape' = Shape /\ phase' = "return" /\ slots' = <<>> /\ fault' = "none"
      /\ Shape \in Sets \cup {"setParams"}
      /\ told' \in {-1, IF Shape = "setParams" THEN 0 ELSE have} /\ have \in Nat
      /\ blocks' = Allocated(have)'
      /\ array' = (told' # -1 /\ (have > 0 \/ Shape \notin {"leases", "setParams"}))
      /\ UNCHANGED <<ownVars, have, others>>
  BY DEF IInv, CallInv, Fresh, FetchArray, Shape, Allocated
<1>2. Overwritten'
  BY <1>1 DEF Overwritten, Sets
<1>3. CASE Shape = "setParams"
  <2>1. ParamsWritten'
    BY <1>1, <1>3 DEF ParamsWritten
  <2> QED
    BY <1>1, <1>2, <2>1, NewPhase DEF FetchArray
<1>4. CASE Shape \in Sets
  <2>1. Shape # "setParams"
    BY <1>4 DEF Sets
  <2>2. ArrayWritten'
    BY <1>1, <1>4, <2>1 DEF ArrayWritten
  <2> QED
    BY <1>1, <1>2, <2>2, NewPhase DEF FetchArray
<1> QED
  BY <1>1, <1>3, <1>4

\* What is returned by a method that libvirt's array went through.
LEMMA ArrayReturned ==
  ASSUME IInv, phase = "return", Shape \in Sets
  PROVE  ArrayWritten /\ have \in 0 .. N /\ slots = <<>> /\ fault = "none" /\ Bare
BY DEF IInv, CallInv, Overwritten, BufferWritten, ParamsWritten, Sets, Filled

\* A list of the items that libvirt gave is what it delivered.
LEMMA ListOf ==
  ASSUME NEW k \in Nat
  PROVE  /\ Items(k) = [i \in 1 .. k |-> i]
         /\ DOMAIN Items(k) = 1 .. k
         /\ Range(Items(k)) = 1 .. k
BY DEF Items, Range

LEMMA SomeItems ==
  ASSUME NEW k \in Nat
  PROVE  1 .. k # {} <=> k > 0
<1>1. CASE k > 0
  <2>1. 1 \in 1 .. k
    BY <1>1
  <2> QED
    BY <1>1, <2>1
<1>2. CASE ~(k > 0)
  BY <1>2
<1> QED
  BY <1>1, <1>2

LEMMA NoArrayKeeps ==
  ASSUME IInv, ReturnArray, NoArray PROVE IInv'
<1>1. Shape \in Sets /\ ArrayWritten /\ told = -1 /\ slots = <<>> /\ fault = "none"
  BY ArrayReturned DEF ReturnArray, NoArray
<1>2. /\ phase' = "done" /\ told' = -1 /\ answer'.tag # "list" /\ Shape' = Shape
      /\ blocks' = {} /\ array' = FALSE /\ fault' = "none"
      /\ UNCHANGED <<ownVars, have, others>>
  BY <1>1 DEF ReturnArray, NoArray, ArrayWritten, Allocated, Nothing, Answer, Shape
<1>3. Shape \notin Statuses \cup {"freeable", "heavyFreeable"}
  BY <1>1 DEF Sets, Statuses
<1>4. Correct'
  BY <1>2, <1>3, EndsEmpty
<1> QED
  BY <1>2, <1>4, NewPhase DEF ReturnArray

LEMMA GiveArrayKeeps ==
  ASSUME IInv, ReturnArray, GiveArray PROVE IInv'
<1>1. /\ Shape \in Given /\ ArrayWritten /\ told = have /\ have \in Nat /\ fault = "none"
  BY ArrayReturned DEF ReturnArray, GiveArray, Given, ArrayWritten
<1>2. /\ phase' = "hold" /\ Shape' = Shape
      /\ UNCHANGED <<ownVars, have, others, told, blocks, array, fault>>
  BY DEF ReturnArray, GiveArray, Shape
<1>3. ArrayHeld'
  BY <1>1, <1>2 DEF ArrayHeld, ArrayWritten, Allocated, GiveArray
<1> QED
  BY <1>1, <1>2, <1>3, NewPhase DEF ReturnArray

LEMMA CopyArrayKeeps ==
  ASSUME IInv, ReturnArray, CopyArray PROVE IInv'
<1>1. /\ Shape \in Copying /\ ArrayWritten /\ told = have /\ have \in Nat
      /\ slots = <<>> /\ fault = "none"
  BY ArrayReturned DEF ReturnArray, CopyArray, Copying, ArrayWritten
<1>2. /\ phase' = "hold" /\ Shape' = Shape /\ array' = FALSE
      /\ UNCHANGED <<ownVars, have, others, told, slots, fault>>
  BY DEF ReturnArray, CopyArray, Shape
<1>3. CopyHeld'
  BY <1>1, <1>2 DEF CopyHeld, ArrayWritten, Allocated, CopyArray
<1> QED
  BY <1>1, <1>2, <1>3, NewPhase DEF ReturnArray

\* What ends a call with the whole list, and nothing allocated.
LEMMA EndsWhole ==
  ASSUME phase' = "done", told' \in Nat, Shape' \in {"heavySet", "stats"},
         answer' = Answer("list", Items(told'), TRUE),
         blocks' = {}, array' = FALSE,
         fault' # "none" <=> (Shape' = "stats" /\ told' > 1)
  PROVE  Correct'
<1>1. MemoryForAReason' /\ NothingLeft'
  BY DEF MemoryForAReason, Misuses, NothingLeft, Leaves
<1>2. ListsDelivered'
  BY DEF ListsDelivered, Lost, Losing, Answer, Items
<1>3. AnswersTrue'
  BY DEF AnswersTrue, Statuses
<1> QED
  BY <1>1, <1>2, <1>3 DEF Correct

\* Nothing is lent while the program holds nothing.
LEMMA BareLendsNothing ==
  ASSUME Inv, Bare
  PROVE  /\ OwnTypeOK /\ Counted /\ lent = {}
         /\ \A o \in Objects : Owners(o) = {}
<1>1. OwnTypeOK /\ Counted
  BY DEF Inv, OwnersCounted, Bare
<1>2. \A o \in Objects : Owners(o) = {}
  BY DEF Owners, Bare
<1>3. ASSUME NEW o \in Objects PROVE o \notin lent
  <2>1. refs[o] = Cardinality(Owners(o)) + Lent(o) /\ refs[o] = 0
    BY <1>1 DEF Counted, Bare
  <2>2. Cardinality(Owners(o)) = 0
    BY <1>2, FS_EmptySet
  <2>3. Lent(o) = 0
    BY <2>1, <2>2 DEF Lent
  <2> QED
    BY <2>3 DEF Lent
<1> QED
  BY <1>1, <1>2, <1>3 DEF OwnTypeOK

LEMMA AdoptArrayCounts ==
  ASSUME Inv, Bare, told \in 0 .. N, ReturnArray, AdoptArray
  PROVE  Inv'
<1>1. OwnTypeOK /\ lent = {} /\ slip = "none"
  BY BareLendsNothing DEF Bare
<1>2. /\ refs' = [o \in Objects |-> IF o \in 1 .. told THEN 1 ELSE 0]
      /\ ptr' = [v \in Vars |-> IF v \in 1 .. told THEN v ELSE Unborn]
      /\ cls' = cls /\ lent' = {} /\ slip' = "none"
      /\ 1 .. told \subseteq Objects /\ 1 .. told \subseteq Vars
  <2>1. 1 .. told \subseteq 1 .. N
    OBVIOUS
  <2>2. 1 .. told \subseteq Objects /\ 1 .. told \subseteq Vars
    BY <2>1
  <2> QED
    BY <1>1, <2>2 DEF AdoptArray
<1>3. OwnTypeOK'
  <2>1. ptr' \in [Vars -> Objects \cup {Null, Unborn}] /\ refs' \in [Objects -> Nat]
    BY <1>2
  <2> QED
    BY <1>1, <1>2, <2>1 DEF OwnTypeOK
<1>4. ASSUME NEW o \in Objects PROVE refs'[o] = Cardinality(Owners(o))' + Lent(o)'
  <2>1. Lent(o)' = 0
    BY <1>2 DEF Lent
  <2>2. CASE o \in 1 .. told
    <3>1. Owners(o)' = {o}
      <4>1. \A v \in Vars : ptr'[v] = o <=> v = o
        BY <1>2, <2>2
      <4> QED
        BY <1>2, <2>2, <4>1 DEF Owners
    <3>2. Cardinality({o}) = 1
      BY FS_Singleton
    <3> QED
      BY <1>2, <2>1, <2>2, <3>1, <3>2
  <2>3. CASE o \notin 1 .. told
    <3>1. Owners(o)' = {}
      <4>1. \A v \in Vars : ptr'[v] # o
        BY <1>2, <2>3
      <4> QED
        BY <4>1 DEF Owners
    <3> QED
      BY <1>2, <2>1, <2>3, <3>1, FS_EmptySet
  <2> QED
    BY <2>2, <2>3
<1> QED
  BY <1>2, <1>3, <1>4 DEF Inv, OwnersCounted, Counted

LEMMA AdoptStatsCounts ==
  ASSUME Inv, Bare, told \in 0 .. N, ReturnArray, AdoptStats
  PROVE  Inv'
<1>1. OwnTypeOK /\ lent = {} /\ slip = "none" /\ cls' = cls /\ refs' = refs /\ lent' = lent
  BY BareLendsNothing DEF Bare, AdoptStats
<1>2. CASE told = 1
  <2>1. /\ 1 \in Objects /\ 1 \in Vars
        /\ ptr' = [ptr EXCEPT ![1] = 1] /\ slip' = "domain of a freed record"
    <3>1. 1 \in 1 .. N
      BY <1>2
    <3> QED
      BY <1>2, <3>1 DEF AdoptStats
  <2>2. OwnTypeOK'
    BY <1>1, <2>1 DEF OwnTypeOK
  <2>3. Owners(1)' = {1}
    <3>1. ASSUME NEW v \in Vars PROVE ptr'[v] = 1 <=> v = 1
      <4>1. ptr[v] = Unborn /\ Unborn # 1
        BY <2>1 DEF Bare
      <4>2. ptr'[v] = IF v = 1 THEN 1 ELSE ptr[v]
        BY <1>1, <2>1 DEF OwnTypeOK
      <4> QED
        BY <4>1, <4>2
    <3> QED
      BY <2>1, <3>1 DEF Owners
  <2>4. Cardinality({1}) = 1
    BY FS_Singleton
  <2>5. refs'[1] = 0 /\ Lent(1)' = 0
    BY <1>1, <2>1 DEF Bare, Lent
  <2>6. ~Counted'
    <3>1. Counted' => refs'[1] = Cardinality(Owners(1))' + Lent(1)'
      BY <2>1 DEF Counted
    <3>2. Cardinality(Owners(1))' = 1
      BY <2>3, <2>4
    <3> QED
      BY <2>5, <3>1, <3>2
  <2> QED
    BY <2>1, <2>2, <2>6 DEF Inv, OwnersCounted
<1>3. CASE told # 1
  <2>1. UNCHANGED ownVars
    BY <1>1, <1>3 DEF AdoptStats, ownVars
  <2> QED
    BY <2>1, Unowned
<1> QED
  BY <1>2, <1>3

LEMMA AdoptKeeps ==
  ASSUME IInv, ReturnArray, AdoptArray \/ AdoptStats PROVE IInv'
<1>1. /\ Shape \in {"heavySet", "stats"} /\ Bare /\ fault = "none"
      /\ told = have /\ have \in 0 .. N /\ others \in 0 .. N
  <2>1. /\ Shape \in {"heavySet", "stats"} /\ told >= 0
        /\ phase = "return" /\ Shape \in Sets
    BY DEF ReturnArray, AdoptArray, AdoptStats
  <2>2. ArrayWritten /\ have \in 0 .. N /\ fault = "none" /\ Bare
    BY <2>1, ArrayReturned
  <2>3. told = have
    BY <2>1, <2>2 DEF ArrayWritten
  <2> QED
    BY <2>1, <2>2, <2>3 DEF IInv, CallInv
<1>2. Inv'
  BY <1>1, AdoptArrayCounts, AdoptStatsCounts DEF IInv
<1>3. /\ phase' = "done" /\ told' = told /\ Shape' = Shape
      /\ answer' = Answer("list", Items(told'), TRUE)
      /\ blocks' = {} /\ array' = FALSE
      /\ UNCHANGED <<have, others>>
  BY DEF ReturnArray, AdoptArray, AdoptStats, Shape
<1>4. fault' # "none" <=> (Shape' = "stats" /\ told' > 1)
  <2>1. CASE AdoptArray
    BY <1>1, <1>3, <2>1 DEF AdoptArray
  <2>2. CASE AdoptStats
    BY <1>1, <1>3, <2>2 DEF AdoptStats
  <2> QED
    BY <2>1, <2>2
<1>5. told' \in Nat /\ Shape' \in {"heavySet", "stats"}
  BY <1>1, <1>3
<1>6. Correct'
  BY <1>3, <1>4, <1>5, EndsWhole
<1> QED
  BY <1>1, <1>2, <1>3, <1>6 DEF IInv, CallInv

LEMMA ReturnArrayKeeps ==
  ASSUME IInv, ReturnArray PROVE IInv'
<1>1. NoArray \/ GiveArray \/ AdoptArray \/ CopyArray \/ AdoptStats
  BY DEF ReturnArray
<1> QED
  BY <1>1, NoArrayKeeps, GiveArrayKeeps, CopyArrayKeeps, AdoptKeeps

LEMMA ReturnParamsKeeps ==
  ASSUME IInv, ReturnParams PROVE IInv'
<1>1. /\ ParamsWritten /\ slots = <<>> /\ have \in Nat
      /\ told = -1 \/ Shape = "setParams" => fault = "none"
      /\ Shape' = Shape /\ array' = (array /\ Shape = "setParams")
      /\ UNCHANGED <<ownVars, have, others, asked, told, slots, blocks, fault>>
  <2>1. phase = "return" /\ Shape \in Params
    BY DEF ReturnParams
  <2>2. slots = <<>> /\ Overwritten /\ have \in Nat /\ ParamsWritten
    BY <2>1 DEF IInv, CallInv, BufferWritten, ArrayWritten, Params, Filled, Sets
  <2>3. told = -1 \/ Shape = "setParams" => fault = "none"
    BY <2>1, <2>2 DEF Overwritten, Params
  <2> QED
    BY <2>2, <2>3 DEF ReturnParams, Shape
<1>2. CASE told = 0
  <2>1. /\ phase' = "hold"
        /\ answer' = Answer("list", [i \in 1 .. Cardinality(blocks) |-> i], FALSE)
    BY <1>2 DEF ReturnParams
  <2>2. CASE Shape = "fillParams"
    BY <1>1, <1>2, <2>1, <2>2, NewPhase DEF ParamsHeld, ReturnParams
  <2>3. CASE Shape = "setParams"
    <3>1. blocks = 1 .. have /\ array = (have > 0)
      BY <1>1, <1>2, <2>3 DEF ParamsWritten, Allocated
    <3>2. Cardinality(1 .. have) = have
      BY <1>1, FS_Interval
    <3>3. answer' = Answer("list", Items(have), FALSE)
      BY <2>1, <3>1, <3>2 DEF Items
    <3>4. array' = (have > 0)
      <4>1. array \in BOOLEAN
        BY <3>1
      <4>2. array' = array
        <5>1. array' = (array /\ Shape = "setParams")
          BY <1>1
        <5> QED
          BY <2>3, <4>1, <5>1, Zenon
      <4> QED
        BY <3>1, <4>2
    <3>5. ParamsHeld'
      BY <1>1, <1>2, <2>3, <3>1, <3>3, <3>4 DEF ParamsHeld, Items
    <3>6. UNCHANGED <<ownVars, have, others>> /\ phase = "return" /\ fault' = "none"
      BY <1>1, <2>3 DEF ReturnParams
    <3> QED
      BY <2>1, <3>5, <3>6, NewPhase
  <2> QED
    BY <1>1, <2>2, <2>3 DEF ParamsWritten
<1>3. CASE told = -1
  <2>1. phase' = "done" /\ answer'.tag # "list"
    BY <1>3 DEF ReturnParams, Nothing, Answer
  <2>2. /\ Shape \in {"fillParams", "setParams"}
        /\ blocks' = {} /\ array' = FALSE
    BY <1>1, <1>3 DEF ParamsWritten, Allocated
  <2>3. Correct'
    BY <1>1, <1>3, <2>1, <2>2, EndsEmpty DEF Statuses
  <2> QED
    BY <1>1, <2>1, <2>3, NewPhase DEF ReturnParams
<1> QED
  BY <1>1, <1>2, <1>3 DEF ParamsWritten

-----------------------------------------------------------------------------
(* Buffers, returned *)

LEMMA HowAccepted ==
  /\ Shape \in {"static", "plainStatic"} => Accepts(Shape) = "positive"
  /\ Shape \in {"ints", "cells", "definedNames", "definedStrings"} => Accepts(Shape) = "nonneg"
  /\ Shape \in Losing => Accepts(Shape) = "zero"
<1>1. ASSUME Shape \in {"static", "plainStatic"} PROVE Accepts(Shape) = "positive"
  BY <1>1 DEF Accepts
<1>2. ASSUME Shape \in {"ints", "cells", "definedNames", "definedStrings"}
      PROVE  Accepts(Shape) = "nonneg"
  BY <1>2 DEF Accepts
<1>3. ASSUME Shape \in Losing PROVE Accepts(Shape) = "zero"
  <2>1. Shape \notin {"static", "plainStatic", "ints", "cells", "definedNames", "definedStrings"}
    BY <1>3 DEF Losing
  <2> QED
    BY <2>1 DEF Accepts
<1> QED
  BY <1>1, <1>2, <1>3

\* Which answers are taken for a list: any but an error, and only the empty
\* one by the wrappers that wait for a 0.
LEMMA AcceptedAnswers ==
  ASSUME BufferWritten
  PROVE  /\ Accepted => told # -1
         /\ Shape \in Losing => (Accepted <=> told = 0)
         /\ Shape \in {"static", "plainStatic"} /\ told > 0 => Accepted
         /\ Shape = "static" /\ asked = 0 => Accepted
         /\ Shape = "plainStatic" => (Accepted <=> asked = 0)
         /\ Shape \in {"ints", "cells", "definedNames", "definedStrings"} => (Accepted <=> told >= 0)
<1>1. /\ asked \in Nat /\ told \in Int /\ told >= -1 /\ Shape \in Filled
      /\ Shape \in Light /\ asked = 0 => told = 0
      /\ Shape = "plainStatic" => told <= 0
  BY DEF BufferWritten
<1>2. CASE Shape \in {"static", "plainStatic"}
  <2>1. Accepted <=> (Shape \in Light /\ asked = 0) \/ told > 0
    BY <1>1, <1>2, HowAccepted DEF Accepted, Says
  <2> QED
    BY <1>1, <1>2, <2>1 DEF Losing, Light
<1>3. CASE Shape \in {"ints", "cells", "definedNames", "definedStrings"}
  <2>1. Accepted <=> told >= 0
    BY <1>1, <1>3, HowAccepted DEF Accepted, Says, Light
  <2> QED
    BY <1>1, <1>3, <2>1 DEF Losing
<1>4. CASE Shape \in Losing
  <2>1. Accepted <=> (Shape \in Light /\ asked = 0) \/ told = 0
    BY <1>1, <1>4, HowAccepted DEF Accepted, Says
  <2> QED
    BY <1>1, <1>4, <2>1 DEF Losing
<1> QED
  BY <1>1, <1>2, <1>3, <1>4 DEF Filled, Losing

\* The buffer holds what libvirt wrote, then what it was made with.
LEMMA BufferItems ==
  ASSUME BufferWritten
  PROVE  /\ 1 .. told \subseteq Range(Buffer)
         /\ Range(Buffer) \subseteq (1 .. told) \cup {Blank(Shape)}
         /\ told = asked \/ asked = 0 => Buffer = Items(told) /\ Blank(Shape) \notin Range(Buffer)
         /\ asked > 0 /\ told < asked /\ Shape # "ints" => Blank(Shape) \in Range(Buffer)
         /\ Has(Buffer, Garbage) <=>
              Shape \in {"freeable", "heavyFreeable"} /\ asked > 0 /\ told < asked
<1> DEFINE size == IF Shape = "ints" /\ told >= 0 THEN told ELSE asked
<1>1. asked \in 0 .. N /\ told \in -1 .. asked
  BY DEF BufferWritten
<1>2. /\ size \in 0 .. asked /\ told <= size
      /\ Buffer = [i \in 1 .. size |-> IF i <= told THEN i ELSE Blank(Shape)]
  BY <1>1 DEF Buffer
<1>3. /\ Blank(Shape) = Garbage <=> Shape \in {"freeable", "heavyFreeable"}
      /\ Blank(Shape) \notin 1 .. asked /\ Garbage \notin 1 .. asked
  BY <1>1 DEF Blank
<1>4. /\ told = asked \/ asked = 0 => size = told \/ (size = 0 /\ told = -1)
      /\ Shape # "ints" => size = asked
  BY <1>1
<1> HIDE DEF size
<1>5. Range(Buffer) = {IF i <= told THEN i ELSE Blank(Shape) : i \in 1 .. size}
  BY <1>2 DEF Range
<1>6. 1 .. told \subseteq Range(Buffer)
  BY <1>1, <1>2, <1>5
<1>7. Range(Buffer) \subseteq (1 .. told) \cup {Blank(Shape)}
  BY <1>1, <1>2, <1>5
<1>8. ASSUME told = asked \/ asked = 0
      PROVE  Buffer = Items(told) /\ Blank(Shape) \notin Range(Buffer)
  <2>1. 1 .. size = 1 .. told
    <3>1. size = told \/ (size = 0 /\ told = -1)
      BY <1>4, <1>8
    <3>2. 1 .. 0 = {} /\ 1 .. (-1) = {}
      OBVIOUS
    <3> QED
      BY <3>1, <3>2
  <2>2. Buffer = [i \in 1 .. told |-> i]
    BY <1>1, <1>2, <2>1
  <2>3. Range(Buffer) \subseteq 1 .. asked
    <3>1. \A i \in 1 .. size : i <= told /\ i \in 1 .. asked
      BY <1>1, <1>2, <2>1
    <3> QED
      BY <1>5, <3>1
  <2> QED
    BY <1>3, <2>2, <2>3 DEF Items
<1>9. ASSUME asked > 0, told < asked, Shape # "ints" PROVE Blank(Shape) \in Range(Buffer)
  <2>1. asked \in 1 .. size /\ ~(asked <= told)
    BY <1>1, <1>4, <1>9
  <2> QED
    BY <1>5, <2>1
<1>10. Has(Buffer, Garbage) <=>
         Shape \in {"freeable", "heavyFreeable"} /\ asked > 0 /\ told < asked
  <2>1. ASSUME Has(Buffer, Garbage)
        PROVE  Shape \in {"freeable", "heavyFreeable"} /\ asked > 0 /\ told < asked
    <3>1. Garbage \in Range(Buffer) /\ Garbage \notin 1 .. told
      BY <1>1, <1>3, <2>1 DEF Has
    <3>2. Garbage = Blank(Shape)
      BY <1>7, <3>1
    <3>3. ~(told = asked \/ asked = 0)
      BY <1>8, <3>1, <3>2
    <3> QED
      BY <1>1, <1>3, <3>2, <3>3
  <2>2. ASSUME Shape \in {"freeable", "heavyFreeable"}, asked > 0, told < asked
        PROVE  Has(Buffer, Garbage)
    BY <1>3, <1>9, <2>2 DEF Has
  <2> QED
    BY <2>1, <2>2
<1> QED
  BY <1>6, <1>7, <1>8, <1>9, <1>10

LEMMA RefuseKeeps ==
  ASSUME IInv, phase = "return", BufferWritten, ReturnBuffer, RefuseBuffer
  PROVE  Correct'
<1>1. /\ phase' = "done" /\ Shape' = Shape /\ told' = told /\ asked' = asked /\ array' = FALSE
      /\ Overwritten /\ Shape \in Filled /\ answer'.tag # "list"
  BY DEF IInv, CallInv, ReturnBuffer, RefuseBuffer, BufferWritten, Nothing, Answer, Shape
<1>2. /\ fault' # "none" <=>
           \/ fault # "none"
           \/ Shape \in {"freeable", "heavyFreeable"} /\ asked > 0 /\ told < asked
      /\ blocks' = IF Shape \in Owning THEN {} ELSE Written
  BY <1>1, BufferItems DEF RefuseBuffer, FreeBuffer, Owning, BufferWritten
<1>3. MemoryForAReason'
  <2>1. fault # "none" <=> Shape = "cpuMaps" /\ MapsTooLong(told, asked)
    BY <1>1 DEF Overwritten, Filled
  <2>2. Shape' \notin {"strided", "nullTerminated", "leases", "stats", "copiedLeases", "fillParams"}
    BY <1>1 DEF Filled
  <2> QED
    BY <1>1, <1>2, <2>1, <2>2 DEF MemoryForAReason, Misuses
<1>4. told \in Int /\ told >= -1 /\ ~Accepted
  BY DEF BufferWritten, RefuseBuffer
<1>5. NothingLeft'
  <2>1. CASE Shape \in Owning \cup Plain
    BY <1>1, <1>2, <2>1 DEF NothingLeft, Leaves, Owning, Plain, Written
  <2>2. CASE Shape \in {"static", "heavyStatic"}
    <3>1. /\ Shape \notin Owning \cup Plain
          /\ Shape = "static" => ~(told > 0)
      BY <1>4, <2>2, AcceptedAnswers DEF Owning, Plain
    <3>2. blocks' # {} <=> told > 0
      BY <1>2, <1>4, <3>1 DEF Written
    <3> QED
      BY <1>1, <2>2, <3>1, <3>2 DEF NothingLeft, Leaves
  <2> QED
    BY <1>1, <2>1, <2>2 DEF Filled, Owning, Plain
<1>6. ListsDelivered'
  <2>1. ASSUME told >= 0, told = asked, ~(Shape = "plainStatic" /\ asked > 0),
               Shape \notin Losing \cup {"definedNames", "strided"}
        PROVE  FALSE
    <3>1. Shape # "plainStatic"
      BY <1>4, <2>1, AcceptedAnswers
    <3> QED
      BY <1>1, <1>4, <2>1, <3>1, AcceptedAnswers DEF Filled, Losing
  <2> QED
    BY <1>1, <1>4, <2>1 DEF ListsDelivered, Lost, Unraced
<1>7. AnswersTrue'
  BY <1>1 DEF AnswersTrue, Filled, Statuses
<1> QED
  BY <1>3, <1>5, <1>6, <1>7 DEF Correct

LEMMA ConvertKeeps ==
  ASSUME IInv, phase = "return", BufferWritten, ReturnBuffer, ConvertBuffer
  PROVE  Correct'
<1>1. /\ phase' = "done" /\ Shape' = Shape /\ told' = told /\ asked' = asked /\ array' = FALSE
      /\ fault = "none" /\ Shape \in Converting /\ asked \in Nat /\ told \in Int
      /\ answer' = IF Has(Buffer, Null) THEN Nothing("thrown") ELSE Answer("list", Buffer, TRUE)
  BY DEF IInv, CallInv, ReturnBuffer, ConvertBuffer, BufferWritten, Overwritten, Converting, Shape
<1>2. told # -1 /\ (Shape \in {"heavyStatic", "heavyFreeable"} => told = 0)
  BY AcceptedAnswers DEF ConvertBuffer, Losing
<1>3. fault' # "none" <=>
        Shape \in {"freeable", "heavyFreeable"} /\ asked > 0 /\ told < asked
  BY <1>1, BufferItems DEF ConvertBuffer, FreeBuffer, Owning
<1>4. blocks' = {}
  <2>1. blocks' = IF Shape \in Owning THEN {} ELSE Written
    BY DEF ConvertBuffer, FreeBuffer, BufferWritten
  <2>2. CASE Shape = "heavyStatic"
    <3>1. Written = 1 .. 0
      BY <1>2, <2>2 DEF Written, Plain
    <3> QED
      BY <2>1, <3>1
  <2>3. CASE Shape # "heavyStatic"
    BY <1>1, <2>1, <2>3 DEF Owning, Converting
  <2> QED
    BY <2>2, <2>3
<1>5. MemoryForAReason'
  BY <1>1, <1>3 DEF MemoryForAReason, Misuses, Converting
<1>6. NothingLeft'
  BY <1>1, <1>2, <1>4 DEF NothingLeft, Leaves, Converting
<1>7. ListsDelivered'
  <2>1. ASSUME Shape \notin Losing, told = asked
        PROVE  answer' = Answer("list", Items(told), TRUE)
    <3>1. Shape = "definedStrings"
      BY <1>1, <2>1 DEF Converting, Losing
    <3>2. Buffer = Items(told) /\ Blank(Shape) = Null /\ ~Has(Buffer, Null)
      BY <2>1, <3>1, BufferItems DEF Blank, Has
    <3> QED
      BY <1>1, <3>2
  <2>2. ~(told = -1 \/ (Shape \in Losing /\ told > 0))
    BY <1>1, <1>2 DEF Converting, Losing
  <2> QED
    BY <1>1, <2>1, <2>2 DEF ListsDelivered, Lost, Unraced, Answer, Converting, Filled
<1>8. AnswersTrue'
  BY <1>1 DEF AnswersTrue, Converting, Statuses
<1> QED
  BY <1>5, <1>6, <1>7, <1>8 DEF Correct

LEMMA ReturnBufferKeeps ==
  ASSUME IInv, ReturnBuffer PROVE IInv'
<1>1. phase = "return" /\ BufferWritten /\ slots = <<>> /\ Overwritten
  BY DEF IInv, CallInv, ReturnBuffer, ArrayWritten, ParamsWritten, Sets, Filled
<1>2. CASE RefuseBuffer
  <2>1. Correct'
    BY <1>1, <1>2, RefuseKeeps
  <2> QED
    BY <1>1, <1>2, <2>1, NewPhase DEF ReturnBuffer, RefuseBuffer
<1>3. CASE ConvertBuffer
  <2>1. Correct'
    BY <1>1, <1>3, ConvertKeeps
  <2> QED
    BY <1>1, <1>3, <2>1, NewPhase DEF ReturnBuffer, ConvertBuffer
<1>4. CASE GiveBuffer
  <2>1. /\ Shape' = Shape /\ UNCHANGED <<told, asked, array, blocks, fault>>
        /\ Shape \notin Converting /\ phase' = "hold"
        /\ answer' = Answer("list", Buffer, Shape \in Plain)
        /\ slots' = IF Shape \in Owning THEN Buffer ELSE <<>>
    BY <1>4 DEF ReturnBuffer, GiveBuffer, Shape
  <2>2. Buffer' = Buffer /\ BufferWritten'
    BY <1>1, <2>1 DEF Buffer, BufferWritten, Written
  <2>3. /\ told # -1 /\ (Shape \in Losing => told = 0)
        /\ Shape = "plainStatic" => asked = 0
    BY <1>1, <1>4, AcceptedAnswers DEF GiveBuffer
  <2>4. fault = "none"
    <3>1. Shape = "cpuMaps" => ~MapsTooLong(told, asked)
      BY <2>3 DEF Losing, MapsTooLong
    <3> QED
      BY <1>1, <3>1 DEF Overwritten, BufferWritten, Filled
  <2>5. BufferHeld'
    BY <2>1, <2>2, <2>3 DEF BufferHeld
  <2> QED
    BY <1>1, <2>1, <2>5, <2>4, NewPhase DEF ReturnBuffer
<1> QED
  BY <1>2, <1>3, <1>4 DEF ReturnBuffer

-----------------------------------------------------------------------------
(* The caller drops the answer *)

\* What reading the answer and dropping it comes to.
LEMMA Dropped ==
  ASSUME IInv, UseAndDrop
  PROVE  /\ phase' = "done" /\ Shape' = Shape
         /\ UNCHANGED <<ownVars, have, others, asked, told, answer, slots>>
         /\ blocks' = blocks \ Range(slots)
         /\ Shape # "setParams" => array' = FALSE
         /\ fault' # "none" <=>
              \/ Shape = "fillParams"
              \/ /\ ~answer.copied
                 /\ \/ Has(answer.items, Garbage)
                    \/ ~(Range(answer.items) \ {Null} \subseteq blocks)
              \/ Overrun
<1>1. /\ phase' = "done" /\ Shape' = Shape
      /\ UNCHANGED <<ownVars, have, others, asked, told, answer, slots>>
      /\ blocks' = blocks \ Range(slots)
      /\ array' = (array /\ Shape = "setParams")
  BY DEF UseAndDrop, Shape
<1>2. fault' # "none" <=>
        \/ Shape = "fillParams"
        \/ /\ ~answer.copied
           /\ \/ Has(answer.items, Garbage)
              \/ ~(Range(answer.items) \ {Null} \subseteq blocks)
        \/ Overrun
  <2>1. Shape = "fillParams" \/ fault = "none"
    BY DEF UseAndDrop, IInv, CallInv
  <2> QED
    BY <2>1 DEF UseAndDrop
<1>3. Shape # "setParams" => array' = FALSE
  BY <1>1
<1> QED
  BY <1>1, <1>2, <1>3

LEMMA StringDropped ==
  ASSUME IInv, UseAndDrop, StringHeld PROVE Correct'
<1>1. /\ phase' = "done" /\ Shape' = Shape /\ told' = 1 /\ answer' = answer
      /\ Shape \in Strings /\ array' = FALSE
  BY Dropped DEF StringHeld, Strings
<1>2. /\ answer.items = <<1>> /\ answer.tag = "list"
      /\ answer.copied = (Shape \notin {"string", "kept"})
  BY DEF StringHeld, Answer
<1>3. <<1>> = Items(1) /\ Range(<<1>>) = {1} /\ Range(<<>>) = {}
  BY DEF Items, Range
<1>4. 1 # Garbage
  BY 1 \in 1 .. N
<1>5. fault' = "none"
  <2>1. ~Overrun
    BY <1>1 DEF Overrun, Strings
  <2>2. Shape \in {"string", "kept"} => blocks = {1}
    BY DEF StringHeld
  <2>3. ~Has(answer.items, Garbage)
    BY <1>2, <1>3, <1>4 DEF Has
  <2> QED
    BY <1>1, <1>2, <1>3, <2>1, <2>2, <2>3, Dropped DEF Strings
<1>6. blocks' = IF Shape \in {"copied", "kept"} THEN {1} ELSE {}
  BY <1>3, Dropped DEF StringHeld
<1>7. MemoryForAReason' /\ NothingLeft'
  BY <1>1, <1>5, <1>6 DEF MemoryForAReason, Misuses, NothingLeft, Leaves, Strings
<1>8. ListsDelivered'
  BY <1>1, <1>2, <1>3 DEF ListsDelivered, Lost, Losing, Strings
<1>9. AnswersTrue'
  BY <1>1 DEF AnswersTrue, Strings, Statuses
<1> QED
  BY <1>7, <1>8, <1>9 DEF Correct

LEMMA BufferDropped ==
  ASSUME IInv, UseAndDrop, BufferHeld PROVE Correct'
<1>1. /\ phase' = "done" /\ Shape' = Shape /\ told' = told /\ asked' = asked
      /\ answer' = answer /\ array' = FALSE
      /\ Shape \in Filled /\ Shape \notin Converting
      /\ asked \in 0 .. N /\ told \in 0 .. asked
  <2>1. /\ Shape \in Filled /\ Shape \notin Converting
        /\ asked \in 0 .. N /\ told \in -1 .. asked /\ told # -1
    BY DEF BufferHeld, BufferWritten
  <2>2. Shape # "setParams"
    BY <2>1 DEF Filled
  <2> QED
    BY <2>1, <2>2, Dropped
<1>2. /\ answer.items = Buffer /\ answer.tag = "list"
      /\ answer.copied = (Shape \in Plain)
  BY DEF BufferHeld, Answer
<1>3. /\ BufferWritten /\ (Shape \in Losing => told = 0)
      /\ Shape = "plainStatic" => asked = 0
  BY DEF BufferHeld
<1>4. Garbage \notin 1 .. told /\ Null \notin 1 .. told
  BY <1>1
<1>5. blocks = IF Shape \in Plain THEN {} ELSE 1 .. told
  BY <1>1, <1>3 DEF BufferWritten, Written
<1>6. fault' # "none" <=> Shape = "freeable" /\ asked > 0 /\ told < asked
  <2>1. ~Overrun /\ Shape # "fillParams"
    BY <1>1 DEF Overrun, Filled
  <2>2. CASE Shape \in Plain
    BY <1>2, <2>1, <2>2, Dropped DEF Plain
  <2>3. CASE Shape \notin Plain
    <3>1. fault' # "none" <=>
            Has(Buffer, Garbage) \/ ~(Range(Buffer) \ {Null} \subseteq blocks)
      BY <1>2, <2>1, <2>3, Dropped
    <3>2. Has(Buffer, Garbage) <=> Shape = "freeable" /\ asked > 0 /\ told < asked
      BY <1>1, <1>3, BufferItems DEF Converting
    <3>3. ASSUME ~Has(Buffer, Garbage) PROVE Range(Buffer) \ {Null} \subseteq blocks
      <4>1. Range(Buffer) \subseteq (1 .. told) \cup {Blank(Shape)}
        BY <1>3, BufferItems
      <4>2. Blank(Shape) = Null \/ Blank(Shape) = Garbage
        BY DEF Blank
      <4> QED
        BY <1>5, <2>3, <3>3, <4>1, <4>2 DEF Has
    <3> QED
      BY <3>1, <3>2, <3>3
  <2> QED
    BY <2>2, <2>3
<1>7. MemoryForAReason'
  <2>1. Shape = "cpuMaps" => ~MapsTooLong(told, asked)
    BY <1>3 DEF Losing, MapsTooLong
  <2>2. Shape' \notin {"heavyFreeable", "strided", "nullTerminated", "leases", "stats",
                      "copiedLeases", "fillParams"}
    BY <1>1 DEF Filled, Converting
  <2> QED
    BY <1>1, <1>6, <2>1, <2>2 DEF MemoryForAReason, Misuses
<1>8. NothingLeft'
  <2>1. CASE Shape \in Plain \cup Owning
    <3>1. blocks' = {}
      <4>1. 1 .. told \subseteq Range(Buffer)
        BY <1>3, BufferItems
      <4>2. Shape \in Owning => slots = Buffer
        BY DEF BufferHeld
      <4> QED
        BY <1>5, <2>1, <4>1, <4>2, Dropped
    <3> QED
      BY <1>1, <2>1, <3>1 DEF NothingLeft, Leaves, Plain, Owning
  <2>2. CASE Shape = "static"
    <3>1. slots = <<>> /\ blocks = 1 .. told
      BY <1>5, <2>2 DEF BufferHeld, Owning, Plain
    <3>2. Range(<<>>) = {}
      BY DEF Range
    <3>3. blocks' = 1 .. told
      BY <3>1, <3>2, Dropped
    <3>4. 1 .. told # {} <=> told > 0
      BY <1>1, SomeItems
    <3> QED
      BY <1>1, <2>2, <3>3, <3>4 DEF NothingLeft, Leaves
  <2> QED
    BY <1>1, <2>1, <2>2 DEF Filled, Plain, Owning, Converting
<1>9. ListsDelivered'
  <2>1. told = asked => Buffer = Items(told)
    BY <1>3, BufferItems
  <2> QED
    BY <1>1, <1>2, <1>3, <2>1 DEF ListsDelivered, Lost, Unraced
<1>10. AnswersTrue'
  BY <1>1 DEF AnswersTrue, Filled, Statuses
<1> QED
  BY <1>7, <1>8, <1>9, <1>10 DEF Correct

LEMMA ArrayDropped ==
  ASSUME IInv, UseAndDrop, ArrayHeld PROVE Correct'
<1>1. /\ phase' = "done" /\ Shape' = Shape /\ told' = told /\ have' = have
      /\ answer' = answer /\ array' = FALSE
      /\ Shape \in Given /\ told = have /\ have \in 0 .. N
  BY Dropped DEF ArrayHeld, Given, IInv, CallInv
<1>2. answer.items = slots /\ answer.tag = "list" /\ answer.copied = FALSE
  BY DEF ArrayHeld, Answer
<1>3. blocks = 1 .. told
  BY <1>1 DEF ArrayHeld
<1>4. CASE Shape = "strided"
  <2>1. slots = [i \in 1 .. told |-> Garbage]
    BY <1>4 DEF ArrayHeld
  <2>2. Range(slots) = IF told > 0 THEN {Garbage} ELSE {}
    BY <1>1, <2>1 DEF Range
  <2>3. fault' # "none" <=> told > 0
    BY <1>1, <1>2, <1>4, <2>2, Dropped DEF Has, Overrun
  <2>4. told = 0 => blocks' = {}
    BY <1>3, <2>2, Dropped
  <2>5. MemoryForAReason' /\ NothingLeft'
    BY <1>1, <1>4, <2>3, <2>4 DEF MemoryForAReason, Misuses, NothingLeft, Leaves
  <2> QED
    BY <1>1, <1>2, <1>4, <2>5 DEF Correct, ListsDelivered, Lost, Losing, AnswersTrue, Statuses
<1>5. CASE Shape # "strided"
  <2>1. slots = Items(told) /\ Range(slots) = 1 .. told
    BY <1>1, <1>5, ListOf DEF ArrayHeld
  <2>2. Garbage \notin 1 .. told
    BY <1>1
  <2>3. fault' # "none" <=> Overrun
    BY <1>1, <1>2, <1>3, <2>1, <2>2, Dropped DEF Has, Given
  <2>4. Overrun <=> Shape = "nullTerminated" \/ (Shape = "leases" /\ told > 0)
    BY <1>1 DEF Overrun, ArrayHeld
  <2>5. blocks' = {}
    BY <1>3, <2>1, Dropped
  <2>6. MemoryForAReason'
    BY <1>1, <1>5, <2>3, <2>4 DEF MemoryForAReason, Misuses, Given
  <2>7. NothingLeft'
    BY <1>1, <2>5 DEF NothingLeft, Leaves, Given
  <2>8. ListsDelivered' /\ AnswersTrue'
    BY <1>1, <1>2, <2>1 DEF ListsDelivered, Lost, Losing, Given, AnswersTrue, Statuses
  <2> QED
    BY <2>6, <2>7, <2>8 DEF Correct
<1> QED
  BY <1>4, <1>5

LEMMA CopyDropped ==
  ASSUME IInv, UseAndDrop, CopyHeld PROVE Correct'
<1>1. /\ phase' = "done" /\ Shape' = Shape /\ told' = told /\ have' = have
      /\ answer' = answer /\ array' = FALSE
      /\ Shape \in Copying /\ told = have /\ have \in 0 .. N
  BY Dropped DEF CopyHeld, Copying, IInv, CallInv
<1>2. /\ answer.items = Items(told) /\ answer.tag = "list"
      /\ answer.copied = (Shape # "copiedLeases")
  BY DEF CopyHeld, Answer
<1>3. blocks' = IF Shape = "copiedKept" THEN 1 .. told ELSE {}
  <2>1. Range(<<>>) = {}
    BY DEF Range
  <2> QED
    BY <1>1, <2>1, Dropped DEF CopyHeld
<1>4. 1 .. told # {} <=> told > 0
  BY <1>1, SomeItems
<1>5. fault' # "none" <=> Shape = "copiedLeases" /\ told > 0
  <2>1. ~Overrun /\ Shape # "fillParams"
    BY <1>1 DEF Overrun, Copying
  <2>2. Range(Items(told)) = 1 .. told /\ Garbage \notin 1 .. told /\ Null \notin 1 .. told
    BY <1>1, ListOf
  <2>3. CASE Shape = "copiedLeases"
    <3>1. blocks = {} /\ ~answer.copied
      BY <1>2, <2>3 DEF CopyHeld
    <3> QED
      BY <1>2, <1>4, <2>1, <2>2, <2>3, <3>1, Dropped DEF Has
  <2>4. CASE Shape # "copiedLeases"
    BY <1>2, <2>1, <2>4, Dropped
  <2> QED
    BY <2>3, <2>4
<1>6. MemoryForAReason' /\ NothingLeft'
  BY <1>1, <1>3, <1>4, <1>5 DEF MemoryForAReason, Misuses, NothingLeft, Leaves, Copying
<1>7. ListsDelivered' /\ AnswersTrue'
  BY <1>1, <1>2 DEF ListsDelivered, Lost, Losing, Copying, AnswersTrue, Statuses
<1> QED
  BY <1>6, <1>7 DEF Correct

LEMMA ParamsDropped ==
  ASSUME IInv, UseAndDrop, ParamsHeld PROVE Correct'
<1>1. /\ phase' = "done" /\ Shape' = Shape /\ told' = 0 /\ have' = have
      /\ answer' = answer /\ have \in 0 .. N
      /\ Shape \in {"fillParams", "setParams"}
  BY Dropped DEF ParamsHeld, IInv, CallInv
<1>2. ListsDelivered' /\ AnswersTrue'
  BY <1>1 DEF ListsDelivered, Lost, Filled, Sets, Strings, AnswersTrue, Statuses
<1>3. CASE Shape = "fillParams"
  <2>1. fault' # "none"
    BY <1>3, Dropped
  <2> QED
    BY <1>1, <1>2, <1>3, <2>1 DEF Correct, MemoryForAReason, Misuses, NothingLeft
<1>4. CASE Shape = "setParams"
  <2>1. /\ blocks = 1 .. have /\ array = (have > 0) /\ slots = <<>>
        /\ answer.items = Items(have) /\ answer.copied = FALSE
    <3>1. /\ blocks = 1 .. have /\ array = (have > 0) /\ slots = <<>>
          /\ answer = Answer("list", Items(have), FALSE)
      BY <1>4 DEF ParamsHeld
    <3> QED
      BY <3>1 DEF Answer
  <2>2. Range(Items(have)) = 1 .. have /\ Garbage \notin 1 .. have /\ Range(<<>>) = {}
    BY <1>1, ListOf DEF Range
  <2>3. fault' = "none"
    BY <1>4, <2>1, <2>2, Dropped DEF Has, Overrun
  <2>4. blocks' = 1 .. have
    BY <2>1, <2>2, Dropped
  <2>5. array' <=> have > 0
    BY <1>4, <2>1 DEF UseAndDrop
  <2>6. 1 .. have # {} <=> have > 0
    BY <1>1, SomeItems
  <2>7. MemoryForAReason' /\ NothingLeft'
    BY <1>1, <1>4, <2>3, <2>4, <2>5, <2>6 DEF MemoryForAReason, Misuses, NothingLeft, Leaves
  <2> QED
    BY <1>2, <2>7 DEF Correct
<1> QED
  BY <1>1, <1>3, <1>4

LEMMA UseAndDropKeeps ==
  ASSUME IInv, UseAndDrop PROVE IInv'
<1>1. phase = "hold" /\ (StringHeld \/ BufferHeld \/ ArrayHeld \/ CopyHeld \/ ParamsHeld)
  BY DEF UseAndDrop, IInv, CallInv
<1>2. Correct'
  BY <1>1, StringDropped, BufferDropped, ArrayDropped, CopyDropped, ParamsDropped
<1> QED
  BY <1>1, <1>2, NewPhase DEF UseAndDrop

-----------------------------------------------------------------------------
(* The invariant *)

LEMMA BindingsInit == Init => IInv
<1> SUFFICES ASSUME Init PROVE IInv
  OBVIOUS
<1>1. Inv
  BY InitCounts DEF Init
<1>2. Correct
  BY DEF Init, Correct, Finished, MemoryForAReason, NothingLeft, ListsDelivered, Lost, AnswersTrue
<1> QED
  BY <1>1, <1>2 DEF Init, IInv, CallInv, Fresh

LEMMA BindingsStep == IInv /\ [Next]_vars => IInv'
<1>1. ASSUME IInv, Next PROVE IInv'
  <2>1. ASSUME NEW m \in Methods, Begin(m) PROVE IInv'
    BY <1>1, <2>1, BeginKeeps
  <2>2. CASE OthersAct
    BY <1>1, <2>2, OthersActKeeps
  <2>3. CASE Ask \/ ReadString
    BY <1>1, <2>3, AskKeeps, ReadStringKeeps
  <2>4. CASE Count \/ Fill \/ ReturnBuffer
    BY <1>1, <2>4, CountKeeps, FillKeeps, ReturnBufferKeeps
  <2>5. CASE FetchArray \/ ReturnArray \/ ReturnParams
    BY <1>1, <2>5, FetchArrayKeeps, ReturnArrayKeeps, ReturnParamsKeeps
  <2>6. CASE UseAndDrop \/ Rest
    BY <1>1, <2>6, UseAndDropKeeps, RestKeeps
  <2>7. CASE Operate
    BY <1>1, <2>7, OperateKeeps
  <2> QED
    BY <1>1, <2>1, <2>2, <2>3, <2>4, <2>5, <2>6, <2>7 DEF Next
<1>2. ASSUME IInv, UNCHANGED vars PROVE IInv'
  <2>1. UNCHANGED ownVars /\ UNCHANGED callVars
    BY <1>2 DEF vars
  <2>2. Inv' /\ (Bare => Bare')
    BY <1>2, <2>1, Unowned DEF IInv
  <2>3. CallInv /\ UNCHANGED callVars
    BY <1>2, <2>1 DEF IInv
  <2>4. Correct'
    BY <2>3 DEF CallInv, callVars, Correct, Finished, Shape, MemoryForAReason, Misuses,
       NothingLeft, Leaves, ListsDelivered, Lost, Unraced, AnswersTrue
  <2>5. Overwritten => Overwritten'
    BY <2>3 DEF callVars, Overwritten, Shape
  <2>6. /\ Filling => Filling'
        /\ BufferWritten => BufferWritten'
        /\ ArrayWritten => ArrayWritten'
        /\ ParamsWritten => ParamsWritten'
    BY <2>3 DEF callVars, Filling, BufferWritten, ArrayWritten, ParamsWritten, Written, Allocated,
       Shape
  <2>7. /\ Shape' = Shape /\ Buffer' = Buffer
        /\ UNCHANGED <<phase, have, others, asked, told, answer, slots, blocks, array, fault>>
    BY <2>3 DEF callVars, Shape, Buffer
  <2>8. (StringHeld => StringHeld') /\ (ArrayHeld => ArrayHeld')
    BY <2>7 DEF StringHeld, ArrayHeld
  <2>9. (BufferHeld => BufferHeld') /\ (CopyHeld => CopyHeld') /\ (ParamsHeld => ParamsHeld')
    BY <2>6, <2>7 DEF BufferHeld, CopyHeld, ParamsHeld
  <2>10. Fresh => Fresh'
    BY <2>7 DEF Fresh
  <2>11. CallInv'
    BY <2>2, <2>3, <2>4, <2>6, <2>7, <2>8, <2>9, <2>10, <2>5 DEF CallInv
  <2> QED
    BY <2>2, <2>11 DEF IInv
<1> QED
  BY <1>1, <1>2

LEMMA IInvHolds == Spec => []IInv
BY BindingsInit, BindingsStep, PTL DEF Spec

\* Memory is freed twice, read after it was freed, or read or written past its
\* end by the eight kinds of call that Misuses names, and by no other: whatever
\* number of items libvirt has, whatever it answers, and whatever other clients
\* do between the count and the fill.
THEOREM MisusedForAReason == Spec => []MemoryForAReason
<1>1. IInv => MemoryForAReason
  BY DEF IInv, CallInv, Correct
<1> QED
  BY <1>1, IInvHolds, PTL

\* What libvirt allocated for an answer outlives the answer after the calls
\* that Leaves names, and after no other, the ones that fail included.
THEOREM LeftForAReason == Spec => []NothingLeft
<1>1. IInv => NothingLeft
  BY DEF IInv, CallInv, Correct
<1> QED
  BY <1>1, IInvHolds, PTL

\* A list of any length reaches the caller item by item, and an error is never
\* taken for a list, but by the wrappers that take a count for an error, and
\* those whose count is another list's.
THEOREM ListsReachTheCaller == Spec => []ListsDelivered
<1>1. IInv => ListsDelivered
  BY DEF IInv, CallInv, Correct
<1> QED
  BY <1>1, IInvHolds, PTL

\* A method that answers yes or no says what libvirt said, but for isActive()
\* and those that return the status itself.
THEOREM AnswersSayWhatWasSaid == Spec => []AnswersTrue
<1>1. IInv => AnswersTrue
  BY DEF IInv, CallInv, Correct
<1> QED
  BY <1>1, IInvHolds, PTL

\* The owners that the lists of handles make are counted like any other: the
\* references are right after any calls, unless getAllDomainStats() or one of
\* the operations that break the count came last.
THEOREM CallsCountOwners == Spec => []OwnersCounted
<1>1. IInv => OwnersCounted
  BY DEF IInv, Inv
<1> QED
  BY <1>1, IInvHolds, PTL
=============================================================================
