----------------------------- MODULE MCPowerMgt -----------------------------
EXTENDS PowerMgt

Do(r) == [request |-> r, type |-> "absent"]

\* One client sends any action, some with flags, or one after another; the second
\* destroys the domain meanwhile.
MCAsked ==
  [w \in Workers |->
     IF w = "a" THEN {<<Do(r)>> : r \in Kind}
                       \cup {<<x>> : x \in [request : {"shutdown", "reset"}, type : {"right", "wrong"}]}
                       \cup {<<Do("start"), Do("suspend")>>, <<Do("suspend"), Do("resume")>>,
                             <<Do("destroy"), Do("start")>>}
     ELSE {<<Do("destroy")>>}]
=============================================================================
