------------------------------ MODULE MCMemory ------------------------------
(* Memory on a small instance.                                              *)
EXTENDS Memory

MCDurations == {-3, 0, 1, 3}
MCTimes == {0, 2, 6}
=============================================================================
