---------------------------- MODULE MCHandleJson ----------------------------
(* Small instances of HandleJson for TLC. *)
EXTENDS HandleJson

CONSTANTS n1, n2

TwoNames == {n1, n2}
OneName  == {n1}

Req(path, search, sub, verb, option, body, items) ==
  [key |-> TRUE, path |-> path, search |-> search, sub |-> sub, verb |-> verb,
   option |-> option, body |-> body, items |-> items]

Kinds == {"domains", "networks"}
Refused ==
  {[Req(path, "all", "none", "get", TRUE, "null", <<>>) EXCEPT !.key = key] :
     path \in {"empty", "other", "short", "parameter", "domains"}, key \in BOOLEAN}
Reads ==
  {Req(path, search, "none", verb, option, "null", <<>>) :
     path \in Kinds, search \in {"all", "flag", "malformed", n1},
     verb \in {"get", "delete"}, option \in BOOLEAN}
Subqueries ==
  {Req(path, n1, sub, "get", TRUE, "null", <<>>) :
     path \in Kinds, sub \in {"value", "list", "option", "unknown"}}
Arrays == UNION {[1 .. n -> Item] : n \in 0 .. 2}
Bodies ==
  {Req(path, "all", "none", verb, TRUE, body, <<>>) :
     path \in Kinds, verb \in {"post", "patch"}, body \in Item}
  \cup {Req(path, "all", "none", verb, TRUE, "array", items) :
          path \in Kinds, verb \in {"post", "patch"}, items \in Arrays}

AllRequests == Refused \cup Reads \cup Subqueries \cup Bodies
=============================================================================
