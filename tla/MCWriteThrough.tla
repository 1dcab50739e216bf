--------------------------- MODULE MCWriteThrough ---------------------------
(* WriteThrough on a small instance.                                       *)
EXTENDS WriteThrough
=============================================================================
