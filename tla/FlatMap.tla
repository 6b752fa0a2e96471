------------------------------ MODULE FlatMap -------------------------------
(***************************************************************************)
(* The four associative containers of include/flatmap.hpp, side by side:   *)
(* each operation is applied to all of them, so that they can be compared. *)
(*                                                                         *)
(*   flat      flatmap: a sorted vector of pairs                           *)
(*   split     split_flatmap: sorted keys, and a vector of values          *)
(*   bag       unordered_flatmap: a vector of pairs in any order           *)
(*   splitbag  unordered_split_flatmap                                     *)
(*                                                                         *)
(* An iterator is only followed from the search to the end of the same     *)
(* operation; a position stands for it, and the one past the last for      *)
(* end().  Whether one that the caller keeps stays valid is not modelled:  *)
(* those of the containers over pairs are the vector's, which push_back()  *)
(* and insert() invalidate when they reallocate.  No allocation fails.     *)
(* unordered_split_flatmap::insert(const value_type&) makes an iterator    *)
(* out of two and does not compile where it is used; the other insert() is *)
(* meant.                                                                  *)
(***************************************************************************)
EXTENDS Integers, Sequences, SequencesExt

CONSTANTS Keys,     \* ordered by std::less
          Values,
          Default,  \* what Value() gives
          Nothing   \* stands for no entry in a result

ASSUME KeysAssumption   == Keys \subseteq Int
ASSUME ValuesAssumption == Default \in Values

VARIABLES flat, split, bag, splitbag,
          flatRet, splitRet, bagRet, splitbagRet  \* what the last operation returned

vars == <<flat, split, bag, splitbag, flatRet, splitRet, bagRet, splitbagRet>>

Entry(k, v) == [key |-> k, value |-> v]
Entries     == [key : Keys, value : Values]
\* The entry that the iterator points at when it is returned, and whether
\* something was inserted, erased or found.
Result(entry, done) == [entry |-> entry, done |-> done]
NoResult            == Result(Nothing, FALSE)
Results             == [entry : Entries \cup {Nothing}, done : BOOLEAN]

KeysOf(pairs) == [n \in DOMAIN pairs |-> pairs[n].key]
\* What an iterator over split storage yields.
Deref(s, p)   == Entry(s.keys[p], s.values[p])
Zipped(s)        == [p \in DOMAIN s.keys |-> Deref(s, p)]

\* std::lower_bound() over sorted keys: the first that is not less.
LowerBound(keys, k) ==
  CHOOSE p \in 1 .. Len(keys) + 1 :
    /\ \A n \in 1 .. p - 1 : keys[n] < k
    /\ p <= Len(keys) => ~(keys[p] < k)

\* find_key(): a position, and whether it has the key.
FindKey(keys, k) ==
  LET p == LowerBound(keys, k)
  IN  [at |-> p, exact |-> p <= Len(keys) /\ ~(k < keys[p])]

\* std::find_if() for an equal key: its position, or end().
FindEqual(keys, k) ==
  CHOOSE p \in 1 .. Len(keys) + 1 :
    /\ \A n \in 1 .. p - 1 : keys[n] # k
    /\ p <= Len(keys) => keys[p] = k

-----------------------------------------------------------------------------
(* flatmap *)

\* insert(), emplace() and try_emplace()
FlatInsert(k, v) ==
  LET f == FindKey(KeysOf(flat), k)
  IN  /\ flat' = IF f.exact THEN flat ELSE InsertAt(flat, f.at, Entry(k, v))
      /\ flatRet' = Result(flat'[f.at], ~f.exact)

\* Slip: true in either case.
FlatInsertOrAssign_True(k, v) ==
  LET f == FindKey(KeysOf(flat), k)
  IN  /\ flat' = IF f.exact THEN [flat EXCEPT ![f.at].value = v]
                            ELSE InsertAt(flat, f.at, Entry(k, v))
      /\ flatRet' = Result(flat'[f.at], TRUE)

FlatInsertOrAssign(k, v) ==
  LET f == FindKey(KeysOf(flat), k)
  IN  /\ flat' = IF f.exact THEN [flat EXCEPT ![f.at].value = v]
                            ELSE InsertAt(flat, f.at, Entry(k, v))
      /\ flatRet' = Result(flat'[f.at], ~f.exact)

\* The caller assigns through the reference that operator[] returns.
FlatStore(k, v) ==
  LET f == FindKey(KeysOf(flat), k)
      s == IF f.exact THEN flat ELSE InsertAt(flat, f.at, Entry(k, Default))
  IN  /\ flat' = [s EXCEPT ![f.at].value = v]
      /\ flatRet' = Result(flat'[f.at], FALSE)

FlatErase(k) ==
  LET f == FindKey(KeysOf(flat), k)
  IN  /\ flat' = IF f.exact THEN RemoveAt(flat, f.at) ELSE flat
      /\ flatRet' = Result(Nothing, f.exact)

\* find(), and count() in `done'
FlatFind(k) ==
  LET f == FindKey(KeysOf(flat), k)
  IN  /\ flat' = flat
      /\ flatRet' = IF f.exact THEN Result(flat[f.at], TRUE) ELSE NoResult

-----------------------------------------------------------------------------
(* split_flatmap *)

\* Slip: the value goes to the end.
SplitInsertAt_PushBack(p, k, v) ==
  [keys |-> InsertAt(split.keys, p, k), values |-> Append(split.values, v)]

SplitInsertAt(p, k, v) ==
  [keys |-> InsertAt(split.keys, p, k), values |-> InsertAt(split.values, p, v)]

SplitInsert(k, v) ==
  LET f == FindKey(split.keys, k)
  IN  /\ split' = IF f.exact THEN split ELSE SplitInsertAt(f.at, k, v)
      /\ splitRet' = Result(Deref(split', f.at), ~f.exact)

SplitInsertOrAssign(k, v) ==
  LET f == FindKey(split.keys, k)
  IN  /\ split' = IF f.exact THEN [split EXCEPT !.values[f.at] = v]
                             ELSE SplitInsertAt(f.at, k, v)
      /\ splitRet' = Result(Deref(split', f.at), ~f.exact)

SplitStore(k, v) ==
  LET f == FindKey(split.keys, k)
      s == IF f.exact THEN split ELSE SplitInsertAt(f.at, k, Default)
  IN  /\ split' = [s EXCEPT !.values[f.at] = v]
      /\ splitRet' = Result(Deref(split', f.at), FALSE)

\* Slip: the value stays.
SplitErase_KeyOnly(k) ==
  LET f == FindKey(split.keys, k)
  IN  /\ split' = IF f.exact THEN [split EXCEPT !.keys = RemoveAt(@, f.at)] ELSE split
      /\ splitRet' = Result(Nothing, f.exact)

SplitErase(k) ==
  LET f == FindKey(split.keys, k)
  IN  /\ split' = IF f.exact
                  THEN [keys |-> RemoveAt(split.keys, f.at), values |-> RemoveAt(split.values, f.at)]
                  ELSE split
      /\ splitRet' = Result(Nothing, f.exact)

SplitFind(k) ==
  LET f == FindKey(split.keys, k)
  IN  /\ split' = split
      /\ splitRet' = IF f.exact THEN Result(Deref(split, f.at), TRUE) ELSE NoResult

-----------------------------------------------------------------------------
(* unordered_flatmap *)

\* Slip: those behind it move up.
MoveLastInto_Shift(s, p) == RemoveAt(s, p)

\* erase(iterator): the last element takes the place of the erased one.
MoveLastInto(s, p) == Front([s EXCEPT ![p] = Last(s)])

BagInsert(k, v) ==
  LET p == FindEqual(KeysOf(bag), k)
  IN  /\ bag' = IF p <= Len(bag) THEN bag ELSE Append(bag, Entry(k, v))
      /\ bagRet' = Result(bag'[p], p > Len(bag))

\* Slip: no look for the key.
BagInsertOrAssign_Append(k, v) ==
  /\ bag' = Append(bag, Entry(k, v))
  /\ bagRet' = Result(Last(bag'), TRUE)

BagInsertOrAssign(k, v) ==
  LET p == FindEqual(KeysOf(bag), k)
  IN  /\ bag' = IF p <= Len(bag) THEN [bag EXCEPT ![p].value = v] ELSE Append(bag, Entry(k, v))
      /\ bagRet' = Result(bag'[p], p > Len(bag))

BagStore(k, v) ==
  LET p == FindEqual(KeysOf(bag), k)
      s == IF p <= Len(bag) THEN bag ELSE Append(bag, Entry(k, Default))
  IN  /\ bag' = [s EXCEPT ![p].value = v]
      /\ bagRet' = Result(bag'[p], FALSE)

BagErase(k) ==
  LET p == FindEqual(KeysOf(bag), k)
  IN  /\ bag' = IF p <= Len(bag) THEN MoveLastInto(bag, p) ELSE bag
      /\ bagRet' = Result(Nothing, p <= Len(bag))

BagFind(k) ==
  LET p == FindEqual(KeysOf(bag), k)
  IN  /\ bag' = bag
      /\ bagRet' = IF p <= Len(bag) THEN Result(bag[p], TRUE) ELSE NoResult

-----------------------------------------------------------------------------
(* unordered_split_flatmap *)

SplitBagAppend(k, v) ==
  [keys |-> Append(splitbag.keys, k), values |-> Append(splitbag.values, v)]

SplitBagInsert(k, v) ==
  LET p == FindEqual(splitbag.keys, k)
      found == p <= Len(splitbag.keys)
  IN  /\ splitbag' = IF found THEN splitbag ELSE SplitBagAppend(k, v)
      /\ splitbagRet' = Result(Deref(splitbag', p), ~found)

SplitBagInsertOrAssign(k, v) ==
  LET p == FindEqual(splitbag.keys, k)
      found == p <= Len(splitbag.keys)
  IN  /\ splitbag' = IF found THEN [splitbag EXCEPT !.values[p] = v] ELSE SplitBagAppend(k, v)
      /\ splitbagRet' = Result(Deref(splitbag', p), ~found)

SplitBagStore(k, v) ==
  LET p == FindEqual(splitbag.keys, k)
      s == IF p <= Len(splitbag.keys) THEN splitbag ELSE SplitBagAppend(k, Default)
  IN  /\ splitbag' = [s EXCEPT !.values[p] = v]
      /\ splitbagRet' = Result(Deref(splitbag', p), FALSE)

SplitBagErase(k) ==
  LET p == FindEqual(splitbag.keys, k)
      found == p <= Len(splitbag.keys)
  IN  /\ splitbag' = IF found THEN [keys   |-> MoveLastInto(splitbag.keys, p),
                                    values |-> MoveLastInto(splitbag.values, p)]
                              ELSE splitbag
      /\ splitbagRet' = Result(Nothing, found)

SplitBagFind(k) ==
  LET p == FindEqual(splitbag.keys, k)
  IN  /\ splitbag' = splitbag
      /\ splitbagRet' = IF p <= Len(splitbag.keys) THEN Result(Deref(splitbag, p), TRUE)
                                                   ELSE NoResult

-----------------------------------------------------------------------------
EmptySplit == [keys |-> <<>>, values |-> <<>>]

Init ==
  /\ flat = <<>> /\ bag = <<>> /\ split = EmptySplit /\ splitbag = EmptySplit
  /\ flatRet = NoResult /\ splitRet = NoResult
  /\ bagRet = NoResult /\ splitbagRet = NoResult

\* The constructors insert one entry after the other.
Insert(k, v) ==
  FlatInsert(k, v) /\ SplitInsert(k, v) /\ BagInsert(k, v) /\ SplitBagInsert(k, v)

InsertOrAssign(k, v) ==
  /\ FlatInsertOrAssign(k, v) /\ SplitInsertOrAssign(k, v)
  /\ BagInsertOrAssign(k, v) /\ SplitBagInsertOrAssign(k, v)

Store(k, v) == FlatStore(k, v) /\ SplitStore(k, v) /\ BagStore(k, v) /\ SplitBagStore(k, v)
Erase(k)    == FlatErase(k) /\ SplitErase(k) /\ BagErase(k) /\ SplitBagErase(k)
Find(k)     == FlatFind(k) /\ SplitFind(k) /\ BagFind(k) /\ SplitBagFind(k)

Clear ==
  /\ flat' = <<>> /\ bag' = <<>> /\ split' = EmptySplit /\ splitbag' = EmptySplit
  /\ flatRet' = NoResult /\ splitRet' = NoResult
  /\ bagRet' = NoResult /\ splitbagRet' = NoResult

Next ==
  \/ \E k \in Keys, v \in Values : Insert(k, v) \/ InsertOrAssign(k, v) \/ Store(k, v)
  \/ \E k \in Keys : Erase(k) \/ Find(k)
  \/ Clear

Spec == Init /\ [][Next]_vars

-----------------------------------------------------------------------------
(* Properties *)

\* Entries have a key and a value of the right kind, and split storage has as
\* many values as keys (include/flatmap.hpp: m_keys, m_values).
TypeOK ==
  /\ flat \in Seq(Entries) /\ bag \in Seq(Entries)
  /\ \A s \in {split, splitbag} :
       s \in [keys : Seq(Keys), values : Seq(Values)] /\ Len(s.keys) = Len(s.values)
  /\ {flatRet, splitRet, bagRet, splitbagRet} \subseteq Results

\* The keys of the sorted containers ascend strictly, as find_key() needs them
\* to: its binary search finds nothing in a vector in disorder.
Ascending(keys) == \A m, n \in DOMAIN keys : m < n => keys[m] < keys[n]
SortedKeys == Ascending(KeysOf(flat)) /\ Ascending(split.keys)

\* No container ever holds a key twice, whatever was erased and moved: where keys
\* do not ascend, find_if() would hide the second entry until the first is erased.
OneEntryPerKey ==
  /\ SortedKeys
  /\ \A keys \in {KeysOf(bag), splitbag.keys} :
       \A m, n \in DOMAIN keys : keys[m] = keys[n] => m = n

\* A container over pairs and the one over two vectors keep the same entries in
\* the same order and return the same, so that one may stand in for the other,
\* in a loop over its entries too.
LayoutsAgree ==
  /\ flat = Zipped(split) /\ flatRet = splitRet
  /\ bag = Zipped(splitbag) /\ bagRet = splitbagRet

\* The entries of the unordered containers keep their positions: insertion moves
\* none, and erase() only the last, into the place of the one erased.  That is all
\* that an iterator of unordered_split_flatmap needs, which is an index, to name
\* the same entry after an insertion; those of unordered_flatmap are iterators of
\* its vector, and do not outlive a push_back() that reallocates.
Stays(before, after) ==
  \A m \in DOMAIN before :
    \/ \A n \in DOMAIN after : after[n] # before[m]
    \/ m \in DOMAIN after /\ after[m] = before[m]
    \/ m = Len(before) /\ Len(after) = Len(before) - 1
EntriesStay == [][Stays(KeysOf(bag), KeysOf(bag)') /\ Stays(splitbag.keys, splitbag.keys')]_vars

AsFlat     == INSTANCE AssociativeMap WITH map <- Range(flat), ret <- flatRet
AsSplit    == INSTANCE AssociativeMap WITH map <- Range(Zipped(split)), ret <- splitRet
AsBag      == INSTANCE AssociativeMap WITH map <- Range(bag), ret <- bagRet
AsSplitBag == INSTANCE AssociativeMap WITH map <- Range(Zipped(splitbag)), ret <- splitbagRet

\* Each container is a map: every operation changes the entries, and returns
\* what it should, wherever the container keeps them.
ImplementMap == AsFlat!Spec /\ AsSplit!Spec /\ AsBag!Spec /\ AsSplitBag!Spec
=============================================================================
