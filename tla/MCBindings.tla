----------------------------- MODULE MCBindings -----------------------------
(* A small instance of Bindings, and of Ownership in it, for TLC. *)
EXTENDS Bindings

\* Three items, three variables, three addresses.
Three == 1 .. 3
=============================================================================
