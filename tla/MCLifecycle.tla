---------------------------- MODULE MCLifecycle ----------------------------
(* Lifecycle on small instances; the cfgs give the four sets as sets of    *)
(* model values, and their sizes are the bounds.                           *)
EXTENDS Lifecycle
=============================================================================
