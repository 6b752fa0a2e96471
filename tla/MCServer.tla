------------------------------ MODULE MCServer ------------------------------
(* Small instances of Server for TLC. *)
EXTENDS Server, TLC

CONSTANTS c1, c2, t1, t2, k1, k2

TwoConns   == {c1, c2}
OneThread  == {t1}
TwoThreads == {t1, t2}
TwoTasks   == {k1, k2}
OneTask    == {k1}

Plain(kind, arg) == [kind |-> kind, arg |-> arg, close |-> FALSE, id |-> FALSE]
Full(kind, arg)  == [kind |-> kind, arg |-> arg, close |-> TRUE, id |-> TRUE]

\* Keys as they are told: 0 as 0, and 16, which the store gives out after 15, as
\* 0 too.
TwoKeys == {0, 16}

\* Every kind, with and without the headers, for one task and one key.
AllRequests ==
  {Full(kind, None) : kind \in {"head", "bad", "json"}} \cup {Plain("json", None)}
    \cup {Plain("garbled", None), Full("launch", k1), Full("retrieve", 0)}

\* Asynchronous requests: two tasks, two keys.
AsyncRequests ==
  {Plain("launch", k1), Plain("launch", k2), Plain("retrieve", 0), Plain("retrieve", 1)}

\* One of each way to go on: a plain answer, a closing one, a failing read.
FewRequests ==
  {Plain("json", None), Full("json", None), Plain("garbled", None)}

Symmetry == Permutations(Conns) \cup Permutations(IoThreads)
=============================================================================
