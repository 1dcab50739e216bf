----------------------------- MODULE MCSharded ------------------------------
(* Sharded over Memory on a small instance: two integer keys, one of them  *)
(* negative, in two backends.                                              *)
EXTENDS Sharded

MCKeys == {-1, 2}
MCHash == [k \in MCKeys |-> ModuloShard(k, 3)]
MCShort == {1}
MCFarTimes == {6}   \* beyond the maximum, and where time.Time.Sub saturates
=============================================================================
