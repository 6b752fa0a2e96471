--------------------------- MODULE AssociativeMap ---------------------------
(***************************************************************************)
(* What an associative container promises its callers: a set of entries,   *)
(* at most one per key, and the result of the last operation.  It says     *)
(* nothing of where an entry is kept.  The containers of                   *)
(* include/flatmap.hpp implement it (FlatMap).                             *)
(***************************************************************************)
CONSTANTS Keys, Values, Nothing

VARIABLES map,  \* the entries
          ret   \* what the last operation returned

Entry(k, v)        == [key |-> k, value |-> v]
Entries            == [key : Keys, value : Values]
\* An iterator, here the entry it points at, and whether something was
\* inserted, erased or found.
Result(entry, done) == [entry |-> entry, done |-> done]
NoResult            == Result(Nothing, FALSE)

Of(k)  == {e \in map : e.key = k}
Has(k) == Of(k) # {}

Init == map = {} /\ ret = NoResult

\* insert(), emplace() and try_emplace() leave an entry that is there alone.
Insert(k, v) ==
  \/ /\ ~Has(k)
     /\ map' = map \cup {Entry(k, v)}
     /\ ret' = Result(Entry(k, v), TRUE)
  \/ \E e \in Of(k) : map' = map /\ ret' = Result(e, FALSE)

InsertOrAssign(k, v) ==
  /\ map' = (map \ Of(k)) \cup {Entry(k, v)}
  /\ ret' = Result(Entry(k, v), ~Has(k))

\* map[k] = v
Store(k, v) ==
  /\ map' = (map \ Of(k)) \cup {Entry(k, v)}
  /\ ret' = Result(Entry(k, v), FALSE)

Erase(k) ==
  /\ map' = map \ Of(k)
  /\ ret' = Result(Nothing, Has(k))

Find(k) ==
  /\ map' = map
  /\ \/ ~Has(k) /\ ret' = NoResult
     \/ \E e \in Of(k) : ret' = Result(e, TRUE)

Clear == map' = {} /\ ret' = NoResult

Next ==
  \/ \E k \in Keys, v \in Values : Insert(k, v) \/ InsertOrAssign(k, v) \/ Store(k, v)
  \/ \E k \in Keys : Erase(k) \/ Find(k)
  \/ Clear

Spec == Init /\ [][Next]_<<map, ret>>
=============================================================================
