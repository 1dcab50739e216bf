--------------------------- MODULE MCReadThrough ----------------------------
(* ReadThrough on small instances.                                         *)
EXTENDS ReadThrough
=============================================================================
