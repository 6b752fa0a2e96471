----------------------------- MODULE MCFlatMap ------------------------------
(* FlatMap with a few keys for TLC. *)
EXTENDS FlatMap

FewKeys == 1 .. 4
=============================================================================
