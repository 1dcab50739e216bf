------------------------------- MODULE MCRetry ------------------------------
(* Retry on a small instance.                                              *)
EXTENDS Retry

(* Three attempts, a fatal error, or two attempts that took two ticks.     *)
MCStop(p) ==
    Any({MaxAttempts(3, p), OnError({"fatal"}, p),
         All({MaxAttempts(2, p), MaxElapsed(2, p)})})
=============================================================================
