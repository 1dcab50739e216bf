----------------------------- MODULE MCThrottle -----------------------------
(* Throttle and TokenBucket on a small instance.                           *)
EXTENDS TokenBucket

(* rate.Limiter, one that refuses, and plain limiters with and without a   *)
(* Cancel.                                                                 *)
MCLimiters ==
    {[wait |-> w, asks |-> w, cancel |-> TRUE, burst |-> b] : w \in BOOLEAN, b \in 0..1}
      \cup {[wait |-> FALSE, asks |-> FALSE, cancel |-> FALSE, burst |-> 1]}
=============================================================================
