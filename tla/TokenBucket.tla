----------------------------- MODULE TokenBucket ----------------------------
(***************************************************************************)
(* schedule.TokenBucket: a rate limiter as a schedule, and as the Waiter   *)
(* that decides the turns of a Throttle.                                   *)
(*                                                                         *)
(* The limiter is external.  It hands out claims Interval apart, the next  *)
(* one after the latest it still holds, and takes back a claim that is     *)
(* cancelled before it is due.  A limiter with burst 0 refuses everything. *)
(* Wait is called in the state "wait" of Throttle's Do, and every return   *)
(* of it is the step Granted or Denied of that module.                     *)
(***************************************************************************)
EXTENDS Throttle, Sequences, FiniteSetsExt

CONSTANTS Limiters,  \* the limiters a bucket may be made of
          Interval,  \* the time between two claims
          Timed,     \* the callers whose contexts have a deadline
          MaxNext    \* bound: the calls of Next, while the clock is below MaxClock

(* wait, asks, cancel: the limiter has the methods Wait and Burst, its     *)
(* reservations Cancel.                                                    *)
LimiterKinds == [wait : BOOLEAN, asks : BOOLEAN, cancel : BOOLEAN, burst : Nat]

ASSUME TokenBucketAssumption ==
    /\ Limiters \subseteq LimiterKinds
    /\ Interval \in Nat \ {0} /\ Timed \subseteq Callers /\ MaxNext \in Nat

NoClaim == -1
MaxInt64 == -1   \* the end of a delay that is longer than any other

VARIABLES
    limiter,  \* TokenBucket.limiter
    claims,   \* the limiter: the times of the claims it holds
    wpc,      \* control state of each caller in Wait
    claim,    \* the time of the claim each caller's last Wait was given
    result,   \* what each caller's last Wait returned
    told      \* when what each call of Next was told to wait for is due

limitVars == <<wpc, claim, result>>
bucketVars == <<vars, limiter, claims, limitVars, told>>

BucketType ==
    /\ TypeOK
    /\ limiter \in Limiters /\ claims \subseteq Nat
    /\ wpc \in [Callers -> {"check", "limiter", "timer"}]
    /\ claim \in [Callers -> Nat \cup {NoClaim}]
    /\ result \in [Callers -> {"none", "nil", "ctx", "deadline", "refused"}]
    /\ told \in Seq(Nat \cup {MaxInt64})

(* NewTokenBucket; a schedule that is no Waiter leaves the limiter unused. *)
BucketInit ==
    /\ Init
    /\ limiter \in Limiters /\ claims = {}
    /\ waiter \/ limiter = CHOOSE l \in Limiters : TRUE
    /\ wpc = [c \in Callers |-> "check"]
    /\ claim = [c \in Callers |-> NoClaim]
    /\ result = [c \in Callers |-> "none"]
    /\ told = << >>

----------------------------------------------------------------------------
(* The limiter: when the next claim is due, which is never sooner than an  *)
(* Interval after another: its burst is spent, or is 1, ...                *)
Soonest == IF claims = {} THEN now ELSE Max({now} \cup {t + Interval : t \in claims})

(* Mutant: what the limiter answers is not looked at.                      *)
OKAlways == TRUE

(* ... whether a reservation is OK ...                                     *)
OK == limiter.burst > 0

(* ... and Cancel, which has no effect on a claim that is due.             *)
Cancelled(at) == IF at > now THEN claims \ {at} ELSE claims

WaitReturns(c, e) ==
    /\ wpc' = [wpc EXCEPT ![c] = "check"]
    /\ result' = [result EXCEPT ![c] = e]
    /\ IF e = "nil" THEN Granted(c) ELSE Denied(c)

(* Mutant: the burst is not asked for.                                     *)
waitErrUnasked(c) == IF c \in Timed THEN "deadline" ELSE "refused"

(* waitErr of an error of the limiter's own Wait that is not the context's.*)
waitErr(c) ==
    IF limiter.asks /\ limiter.burst = 0 THEN "refused"
    ELSE IF c \in Timed THEN "deadline" ELSE "refused"

(* Wait: the check of the context.                                         *)
Check(c) ==
    /\ pc[c] = "wait" /\ wpc[c] = "check"
    /\ \/ /\ c \in ctxDone
          /\ WaitReturns(c, "ctx")
       \/ /\ c \notin ctxDone
          /\ wpc' = [wpc EXCEPT ![c] = "limiter"]
          /\ UNCHANGED <<vars, result>>
    /\ UNCHANGED <<limiter, claims, claim, told>>

(* The limiter refuses: for good, or because its own Wait sees the context *)
(* ended or a claim that is not due before the deadline.                   *)
Refused(c) ==
    /\ pc[c] = "wait" /\ wpc[c] = "limiter"
    /\ \/ ~OK /\ WaitReturns(c, IF limiter.wait THEN waitErr(c) ELSE "refused")
       \/ limiter.wait /\ c \in ctxDone /\ WaitReturns(c, "ctx")
       \/ limiter.wait /\ OK /\ c \in Timed /\ Soonest > now /\ WaitReturns(c, waitErr(c))
    /\ UNCHANGED <<limiter, claims, claim, told>>

(* Reserve, in Wait or in the limiter's own: a claim that is due already   *)
(* ends it, another one is waited for.                                     *)
Reserve(c) ==
    /\ pc[c] = "wait" /\ wpc[c] = "limiter" /\ OK
    /\ limiter.wait => c \notin ctxDone
    /\ claims' = claims \cup {Soonest}
    /\ claim' = [claim EXCEPT ![c] = Soonest]
    /\ \/ Soonest <= now /\ WaitReturns(c, "nil")
       \/ /\ Soonest > now
          /\ wpc' = [wpc EXCEPT ![c] = "timer"]
          /\ UNCHANGED <<vars, result>>
    /\ UNCHANGED <<limiter, told>>

(* The select of Wait, or of the limiter's own: the timer fires, ...       *)
Fire(c) ==
    /\ pc[c] = "wait" /\ wpc[c] = "timer" /\ now >= claim[c]
    /\ WaitReturns(c, "nil")
    /\ UNCHANGED <<limiter, claims, claim, told>>

(* Mutant: the claim is not cancelled.                                     *)
GivenUpKept(c) == claims

(* ... or the context ends, and the claim is given back if it can be.      *)
GivenUp(c) == IF limiter.wait \/ limiter.cancel THEN Cancelled(claim[c]) ELSE claims

Abandon(c) ==
    /\ pc[c] = "wait" /\ wpc[c] = "timer" /\ c \in ctxDone
    /\ claims' = GivenUp(c)
    /\ WaitReturns(c, "ctx")
    /\ UNCHANGED <<limiter, claim, told>>

(* Next, called by another user of the bucket: the claim is taken, whether *)
(* the caller waits for it or not.                                         *)
TakeNext ==
    /\ waiter /\ Len(told) < MaxNext /\ now < MaxClock
    /\ claims' = IF OK THEN claims \cup {Soonest} ELSE claims
    /\ told' = Append(told, IF OK THEN Soonest ELSE MaxInt64)
    /\ UNCHANGED <<vars, limiter, limitVars>>

WaitStep(c) == Check(c) \/ Refused(c) \/ Reserve(c) \/ Fire(c) \/ Abandon(c)

(* The clock moves while somebody sleeps in Wait.                          *)
TimerRuns == Tick /\ now >= MaxClock /\ \E c \in Callers : wpc[c] = "timer" /\ claim[c] > now

BucketNext ==
    \/ TakeNext
    \/ \E c \in Callers : WaitStep(c)
    \/ /\ Advance \/ TimerRuns \/ \E c \in Callers : CallerNext(c)
       /\ UNCHANGED <<limiter, claims, limitVars, told>>

(* Time passes and every goroutine runs; fn need not return.               *)
BucketSpec ==
    /\ BucketInit /\ [][BucketNext]_bucketVars
    /\ WF_bucketVars((Advance \/ TimerRuns) /\ UNCHANGED <<limiter, claims, limitVars, told>>)
    /\ \A c \in Callers : WF_bucketVars(WaitStep(c))
    /\ \A c \in Callers : WF_bucketVars(DoStep(c) /\ UNCHANGED <<limiter, claims, limitVars, told>>)

----------------------------------------------------------------------------
(* Properties *)

(* A cancelled caller hands its token back: a claim that is not due yet    *)
(* belongs to a caller that waits for it or to a call of Next, unless the  *)
(* limiter has no way to cancel one.                                       *)
ClaimsAreSettled ==
    limiter.wait \/ limiter.cancel =>
        \A t \in claims : t > now =>
            \/ \E c \in Callers : wpc[c] = "timer" /\ claim[c] = t
            \/ \E i \in DOMAIN told : told[i] = t

(* "Wait fails closed": a call that a bucket lets run holds a claim that   *)
(* the limiter granted, that is due and that nobody else runs on, and none *)
(* runs on a limiter that refuses.                                         *)
FailsClosed ==
    waiter => \A c \in Callers : pc[c] = "run" =>
        /\ limiter.burst > 0 /\ claim[c] \in claims /\ claim[c] <= now
        /\ \A d \in Callers \ {c} : pc[d] = "run" => claim[d] # claim[c]

(* An error says what happened: the context's only if that of the call     *)
(* which returned it has ended, that of a deadline only to a caller that   *)
(* has one, and ErrRefused for a limiter whose burst is known only if that *)
(* will never grant anything.                                              *)
ErrorsAreTrue ==
    \A c \in Callers :
        /\ result[c] = "ctx" /\ pc[c] = "idle" => c \in ctxDone
        /\ result[c] = "deadline" => c \in Timed /\ (limiter.asks => limiter.burst > 0)
        /\ result[c] = "refused" /\ limiter.asks => limiter.burst = 0
=============================================================================
