--------------------------- MODULE MCPatchActions ---------------------------
(* Requests of up to three actions for TLC. *)
EXTENDS PatchActions

CONSTANT MaxActions

\* Dependencies on an earlier, the same and a later action, on several, on a
\* negative index and on something that is no integer.
DepChoices ==
  {<<>>, <<0>>, <<1>>, <<2>>, <<-1>>, <<0, 1>>, <<1, NotInt>>, <<NotInt, 0>>, NotInt}

ChainRequests ==
  UNION {[1 .. n -> [deps : DepChoices, kind : {"call"}]] : n \in 0 .. MaxActions}

MixedRequests ==
  UNION {[1 .. n -> [deps : {<<>>, <<0>>}, kind : Kinds]] : n \in 0 .. MaxActions}

AllRequests == ChainRequests \cup MixedRequests
=============================================================================
