-------------------------------- MODULE Retry -------------------------------
(***************************************************************************)
(* retry.Retry: Do calls fn until it succeeds, the StopFunc halts or the   *)
(* context ends in the wait between two attempts.  Calls of Do on one      *)
(* Retry share the schedule, which each resets when it starts.             *)
(*                                                                         *)
(* A StopFunc is pure: a predicate of the point (attempt, elapsed, err) at *)
(* which it is consulted.  A goroutine in state "sleep" is on its way to   *)
(* the select or in it, so a case that became ready later may win.         *)
(***************************************************************************)
EXTENDS Schedules

CONSTANTS Callers,      \* goroutines that call Do
          Errors,       \* the errors of fn
          Stop(_),      \* the StopFunc
          MaxAttempt,   \* bound: the attempts of a Do
          MaxCalls,     \* bound: the calls each goroutine makes
          MaxClock      \* bound: when the clock stops if nobody waits for it

(* What a StopFunc is consulted with, and the StopFuncs of the package;    *)
(* Any and All are given what each of their StopFuncs answers.             *)
Points == [attempt : Nat \ {0}, elapsed : Nat, err : Errors]

MaxAttempts(n, p) == p.attempt >= n
MaxElapsed(d, p) == p.elapsed >= d
OnError(errs, p) == p.err \in errs
Any(halts) == TRUE \in halts
All(halts) == FALSE \notin halts

ASSUME RetryAssumption ==
    /\ "nil" \notin Errors /\ "ctx" \notin Errors
    /\ \A e \in Errors : Stop([attempt |-> 1, elapsed |-> 0, err |-> e]) \in BOOLEAN
    /\ MaxAttempt \in Nat \ {0} /\ MaxCalls \in Nat /\ MaxClock \in Nat

VARIABLES
    now,      \* the clock
    pc,       \* control state of each caller
    calls,    \* the calls each goroutine has made
    ctxDone,  \* the callers whose context has ended
    start,    \* when each caller's Do started
    attempt,  \* the attempt each caller is at
    err,      \* what each caller's last attempt returned
    elapsed,  \* and how long after the start of Do it did
    wait,     \* the delay each caller sleeps for
    ret,      \* what each caller's last Do returned
    tried,    \* history: the attempts of a caller's Do that returned
    alone     \* history: the callers no other Do has overlapped with

tryVars == <<attempt, err, elapsed, tried>>
vars == <<now, pc, calls, ctxDone, schedule, current, start, wait, ret, alone, tryVars>>

TypeOK ==
    /\ now \in Nat
    /\ pc \in [Callers -> {"idle", "fn", "next", "sleep"}]
    /\ calls \in [Callers -> 0..MaxCalls]
    /\ ctxDone \in SUBSET Callers /\ alone \in SUBSET Callers
    /\ schedule \in {"constant", "uniform", "exponential"} /\ current \in Nat \ {0}
    /\ start \in [Callers -> Nat] /\ elapsed \in [Callers -> Nat]
    /\ attempt \in [Callers -> 1..MaxAttempt]
    /\ err \in [Callers -> Errors \cup {"nil"}]
    /\ wait \in [Callers -> Nat]
    /\ ret \in [Callers -> Errors \cup {"nil", "ctx"}]
    /\ tried \in [Callers -> Nat]

(* New, with any schedule.                                                 *)
Init ==
    /\ ScheduleInit
    /\ now = 0
    /\ pc = [c \in Callers |-> "idle"]
    /\ calls = [c \in Callers |-> 0]
    /\ ctxDone = {} /\ alone = {}
    /\ start = [c \in Callers |-> 0] /\ elapsed = [c \in Callers |-> 0]
    /\ attempt = [c \in Callers |-> 1]
    /\ err = [c \in Callers |-> "nil"]
    /\ wait = [c \in Callers |-> 0]
    /\ ret = [c \in Callers |-> "nil"]
    /\ tried = [c \in Callers |-> 0]

Goto(c, label) == pc' = [pc EXCEPT ![c] = label]
Returns(c, e) == ret' = [ret EXCEPT ![c] = e] /\ Goto(c, "idle")

----------------------------------------------------------------------------
Due(c) == start[c] + elapsed[c] + wait[c]

(* Environment: time passes.                                               *)
Advance ==
    /\ now < MaxClock \/ \E c \in Callers : pc[c] = "sleep" /\ Due(c) > now
    /\ now' = now + 1
    /\ UNCHANGED <<pc, calls, schedule, ctxDone, current, start, wait, ret, alone, tryVars>>

Busy == {c \in Callers : pc[c] # "idle"}

(* Do is called, with a context that may already have ended: the schedule  *)
(* is reset and the first attempt starts.                                  *)
Do(c) ==
    /\ pc[c] = "idle" /\ calls[c] < MaxCalls
    /\ calls' = [calls EXCEPT ![c] = @ + 1]
    /\ ctxDone' \in {ctxDone \cup {c}, ctxDone \ {c}}
    /\ Reset
    /\ start' = [start EXCEPT ![c] = now]
    /\ attempt' = [attempt EXCEPT ![c] = 1]
    /\ err' = [err EXCEPT ![c] = "nil"]
    /\ tried' = [tried EXCEPT ![c] = 0]
    /\ alone' = IF Busy = {} THEN {c} ELSE {}
    /\ Goto(c, "fn")
    /\ elapsed' = [elapsed EXCEPT ![c] = 0]
    /\ UNCHANGED <<now, schedule, wait, ret>>

(* Environment: the context of a call ends.                                *)
CtxEnds(c) ==
    /\ pc[c] # "idle" /\ c \notin ctxDone
    /\ ctxDone' = ctxDone \cup {c}
    /\ UNCHANGED <<now, pc, calls, schedule, current, start, wait, ret, alone, tryVars>>

(* An attempt returns e at the elapsed time of its Do; the delay before it *)
(* is out of scope.                                                        *)
Attempted(c, e) ==
    /\ pc[c] = "fn"
    /\ err' = [err EXCEPT ![c] = e]
    /\ elapsed' = [elapsed EXCEPT ![c] = now - start[c]]
    /\ tried' = [tried EXCEPT ![c] = @ + 1]
    /\ wait' = [wait EXCEPT ![c] = 0]
    /\ UNCHANGED <<now, calls, schedule, ctxDone, current, start, alone, attempt>>

Point(c, e) == [attempt |-> attempt[c], elapsed |-> now - start[c], err |-> e]

(* fn returns nil, and so does Do.                                         *)
Succeed(c) ==
    /\ Attempted(c, "nil")
    /\ Returns(c, "nil")

(* Mutant: the StopFunc is asked about the attempt to come.                *)
HaltOneEarly(c) ==
    \E e \in Errors :
        /\ Attempted(c, e) /\ Stop([Point(c, e) EXCEPT !.attempt = @ + 1])
        /\ Returns(c, e)

(* fn fails and the StopFunc halts: Do returns the error.                  *)
Halt(c) ==
    \E e \in Errors :
        /\ Attempted(c, e) /\ Stop(Point(c, e))
        /\ Returns(c, e)

(* fn fails and the StopFunc does not halt.                                *)
Fail(c) ==
    \E e \in Errors :
        /\ Attempted(c, e) /\ ~Stop(Point(c, e))
        /\ Goto(c, "next")
        /\ UNCHANGED ret

(* The delay is taken from the schedule, which moves on under its own      *)
(* lock.                                                                   *)
Backoff(c) ==
    /\ pc[c] = "next"
    /\ \E d \in Delays : NextReturns(d) /\ wait' = [wait EXCEPT ![c] = d]
    /\ Goto(c, "sleep")
    /\ UNCHANGED <<now, calls, schedule, ctxDone, start, ret, alone, tryVars>>

Retried(c) ==
    /\ attempt[c] < MaxAttempt
    /\ attempt' = [attempt EXCEPT ![c] = @ + 1]
    /\ Goto(c, "fn")
    /\ UNCHANGED <<now, calls, schedule, ctxDone, current, start, wait, ret, alone, err, elapsed, tried>>

(* Mutant: a delay is counted from the start of Do.                        *)
WakeSoon(c) ==
    /\ pc[c] = "sleep"
    /\ \/ wait[c] <= 0 /\ c \notin ctxDone
       \/ wait[c] > 0 /\ now >= start[c] + wait[c]
    /\ Retried(c)

(* Mutant: a delay of zero arms no timer, and nothing else wakes the loop. *)
WakeNeedsTimer(c) ==
    /\ pc[c] = "sleep" /\ wait[c] > 0 /\ now >= Due(c)
    /\ Retried(c)

(* sleep returns nil, with nothing to wait for if the context is live,     *)
(* else when the timer has fired, on time or late: the next attempt.       *)
Wake(c) ==
    /\ pc[c] = "sleep"
    /\ \/ wait[c] <= 0 /\ c \notin ctxDone
       \/ wait[c] > 0 /\ now >= Due(c)
    /\ Retried(c)

(* sleep returns ctx.Err(), and so does Do.                                *)
Cut(c) ==
    /\ pc[c] = "sleep" /\ c \in ctxDone
    /\ Returns(c, "ctx")
    /\ wait' = [wait EXCEPT ![c] = 0]
    /\ UNCHANGED <<now, calls, schedule, ctxDone, current, start, alone, tryVars>>

Fn(c) == Succeed(c) \/ Halt(c) \/ Fail(c)
Step(c) == Fn(c) \/ Backoff(c) \/ Wake(c) \/ Cut(c)

Next ==
    \/ Advance
    \/ \E c \in Callers : Do(c) \/ CtxEnds(c) \/ Step(c)

Spec == Init /\ [][Next]_vars

(* Time passes, every goroutine runs and fn returns.                       *)
FairSpec == Spec /\ WF_vars(Advance) /\ \A c \in Callers : WF_vars(Step(c))

----------------------------------------------------------------------------
(* Properties *)

LastPoint(c) == [attempt |-> tried[c], elapsed |-> elapsed[c], err |-> err[c]]

(* Do returns nil only if the last attempt did, an error of fn only if it  *)
(* is the last attempt's and the StopFunc halted on it, and the context's  *)
(* error only if the context has ended.                                    *)
OutcomeIsJust ==
    \A c \in Callers : pc[c] = "idle" /\ tried[c] > 0 =>
        \/ ret[c] = "nil" /\ err[c] = "nil"
        \/ /\ ret[c] = err[c]
           /\ Stop(LastPoint(c))
        \/ ret[c] = "ctx" /\ c \in ctxDone /\ err[c] # "nil"

(* An attempt after the first starts only if the one before it failed, the *)
(* StopFunc let it pass, and the whole delay has gone by since it ended.   *)
RetryIsDue ==
    \A c \in Callers : pc[c] = "fn" /\ tried[c] > 0 =>
        /\ err[c] # "nil"
        /\ ~Stop(LastPoint(c))
        /\ now >= Due(c)

(* "A single *Retry is safe to reuse across many independent Do calls": a  *)
(* Do that no other overlaps waits through the schedule from its start,    *)
(* whatever state earlier calls, halted or cancelled, left it in.          *)
BackoffRestarts ==
    \A c \in alone : pc[c] = "sleep" /\ schedule = "exponential" =>
        wait[c] = Delay[attempt[c]]

(* Every Do returns if its StopFunc bounds the attempts: none waits for    *)
(* ever, whatever the other calls do to the schedule.                      *)
DoReturns == \A c \in Callers : pc[c] # "idle" ~> pc[c] = "idle"
=============================================================================
