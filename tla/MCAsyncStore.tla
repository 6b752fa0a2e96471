---------------------------- MODULE MCAsyncStore ----------------------------
(* Small instances of AsyncStore for TLC. *)
EXTENDS AsyncStore

CONSTANTS t1, t2, k1, k2, k3, k4

OneThread  == {t1}
TwoThreads == {t1, t2}
TwoTasks   == {k1, k2}
FourTasks  == {k1, k2, k3, k4}
=============================================================================
