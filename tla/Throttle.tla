------------------------------ MODULE Throttle ------------------------------
(***************************************************************************)
(* throttle.Throttle: Do takes a slot of the semaphore, then a turn in the *)
(* cadence, sleeps until the turn is due and runs fn.  RoundTripper runs   *)
(* its inner transport as fn and closes the bodies it does not forward.    *)
(*                                                                         *)
(* A caller is a goroutine in Do or RoundTrip.  The critical section of mu *)
(* is one action.  A goroutine in state "queue" or "sleep" is on its way   *)
(* to the select or in it, so a case that became ready later may win.      *)
(***************************************************************************)
EXTENDS Integers, FiniteSets

CONSTANTS Callers,   \* goroutines that call
          Cap,       \* the n of WithMaxInflight
          Delays,    \* what the schedule's Next may return
          Bodies,    \* the bodies a call may start with, "nil" or "open"
          MaxCalls,  \* bound: the calls each goroutine makes
          MaxClock   \* bound: when the clock stops if nobody waits for it

Unbounded == -1

ASSUME ThrottleAssumption ==
    /\ IsFiniteSet(Callers)
    /\ Cap = Unbounded \/ Cap \in Nat \ {0}
    /\ Delays \subseteq Nat
    /\ Bodies \subseteq {"nil", "open"}
    /\ MaxCalls \in Nat /\ MaxClock \in Nat

VARIABLES
    now,          \* the clock
    waiter,       \* the schedule implements Waiter
    pc,           \* control state of each caller
    calls,        \* the calls each goroutine has made
    ctxDone,      \* the callers whose context has ended
    body,         \* the request body of each caller's call
    sem,          \* the tokens in the channel sem
    nextAllowed,  \* Throttle.nextAllowed
    delay,        \* the delay each caller got from Next
    due,          \* when each caller's turn is due
    wait,         \* the d each caller sleeps for
    owed,         \* history: the sum of the delays of all turns so far
    before        \* history: the sum of the delays of the turns before a caller's

paceVars == <<nextAllowed, delay, due, wait, owed, before>>
vars == <<now, waiter, pc, calls, ctxDone, body, sem, paceVars>>

TypeOK ==
    /\ now \in Nat /\ waiter \in BOOLEAN
    /\ pc \in [Callers -> {"idle", "queue", "check", "wait", "slot", "sleep", "run"}]
    /\ calls \in [Callers -> 0..MaxCalls]
    /\ ctxDone \in SUBSET Callers
    /\ body \in [Callers -> {"nil", "open", "closed", "twice"}]
    /\ sem \in Nat
    /\ nextAllowed \in Int
    /\ delay \in [Callers -> Nat]
    /\ due \in [Callers -> Nat]
    /\ wait \in [Callers -> Nat]
    /\ owed \in Nat /\ before \in [Callers -> Nat]

(* New, with any schedule; the zero time.Time lies before every reading of *)
(* the clock.                                                              *)
Init ==
    /\ now = 0 /\ waiter \in BOOLEAN
    /\ pc = [c \in Callers |-> "idle"]
    /\ calls = [c \in Callers |-> 0]
    /\ ctxDone = {}
    /\ body = [c \in Callers |-> "nil"]
    /\ sem = 0
    /\ nextAllowed = -1
    /\ delay = [c \in Callers |-> 0]
    /\ due = [c \in Callers |-> 0]
    /\ wait = [c \in Callers |-> 0]
    /\ owed = 0 /\ before = [c \in Callers |-> 0]

Goto(c, label) == pc' = [pc EXCEPT ![c] = label]

(* Body.Close; "twice" stands for a body closed more than once.            *)
Close(b) == CASE b = "nil" -> "nil" [] b = "open" -> "closed" [] OTHER -> "twice"
CloseBody(c) == body' = [body EXCEPT ![c] = Close(@)]

(* The deferred receive from sem.                                          *)
Release == sem' = IF Cap = Unbounded THEN sem ELSE sem - 1

----------------------------------------------------------------------------
(* Environment: time passes.                                               *)
Tick ==
    /\ now' = now + 1
    /\ UNCHANGED <<waiter, pc, calls, ctxDone, body, sem, paceVars>>

Advance ==
    /\ now < MaxClock \/ \E c \in Callers : pc[c] = "sleep" /\ due[c] > now
    /\ Tick

(* Do, or RoundTrip with or without a body; the context may already have   *)
(* ended.  Without a cap there is no slot to wait for.                     *)
Call(c) ==
    /\ pc[c] = "idle" /\ calls[c] < MaxCalls
    /\ calls' = [calls EXCEPT ![c] = @ + 1]
    /\ \E b \in Bodies : body' = [body EXCEPT ![c] = b]
    /\ ctxDone' \in {ctxDone \cup {c}, ctxDone \ {c}}
    /\ Goto(c, IF Cap = Unbounded THEN "check" ELSE "queue")
    /\ UNCHANGED <<now, waiter, sem, paceVars>>

(* Environment: the context of a call ends.                                *)
CtxEnds(c) ==
    /\ pc[c] # "idle" /\ c \notin ctxDone
    /\ ctxDone' = ctxDone \cup {c}
    /\ UNCHANGED <<now, waiter, pc, calls, body, sem, paceVars>>

(* The first select of Do: a slot of the semaphore ...                     *)
Acquire(c) ==
    /\ pc[c] = "queue" /\ sem < Cap
    /\ sem' = sem + 1
    /\ Goto(c, "check")
    /\ UNCHANGED <<now, waiter, calls, ctxDone, body, paceVars>>

(* Mutant: RoundTrip returns the error and leaves the body open.           *)
GiveUpLeavesBody(c) ==
    /\ pc[c] = "queue" /\ c \in ctxDone
    /\ Goto(c, "idle")
    /\ UNCHANGED <<now, waiter, calls, ctxDone, body, sem, paceVars>>

(* Mutant: the slot is waited for by a plain send.                         *)
GiveUpNever(c) ==
    /\ pc[c] = "queue" /\ c \in ctxDone /\ sem < 0
    /\ UNCHANGED vars

(* ... or the end of the context; RoundTrip closes the body.               *)
GiveUp(c) ==
    /\ pc[c] = "queue" /\ c \in ctxDone
    /\ CloseBody(c)
    /\ Goto(c, "idle")
    /\ UNCHANGED <<now, waiter, calls, ctxDone, sem, paceVars>>

(* The check of the context once the slot is held.                         *)
Refuse(c) ==
    /\ pc[c] = "check" /\ c \in ctxDone
    /\ Release
    /\ CloseBody(c)
    /\ Goto(c, "idle")
    /\ UNCHANGED <<now, waiter, calls, ctxDone, paceVars>>

(* pace: the schedule decides itself if it is a Waiter; otherwise its Next *)
(* is called, before mu is locked.                                         *)
Pace(c) ==
    /\ pc[c] = "check" /\ c \notin ctxDone
    /\ \/ /\ waiter
          /\ Goto(c, "wait")
          /\ UNCHANGED delay
       \/ /\ ~waiter
          /\ \E d \in Delays : delay' = [delay EXCEPT ![c] = d]
          /\ Goto(c, "slot")
    /\ UNCHANGED <<now, waiter, calls, ctxDone, body, sem, nextAllowed, due, wait, owed, before>>

(* Mutant: an idle throttle keeps its credit.                              *)
nextSlotKeepsCredit(c) ==
    /\ pc[c] = "slot"
    /\ LET at == IF nextAllowed < 0 THEN 0 ELSE nextAllowed
       IN  /\ wait' = [wait EXCEPT ![c] = IF at < now THEN 0 ELSE at - now]
           /\ due' = [due EXCEPT ![c] = IF at < now THEN now ELSE at]
           /\ nextAllowed' = at + delay[c]
    /\ before' = [before EXCEPT ![c] = owed]
    /\ owed' = owed + delay[c]
    /\ Goto(c, "sleep")
    /\ UNCHANGED <<now, waiter, calls, ctxDone, body, sem, delay>>

(* nextSlot, under mu: the turn is due when the cadence allows it, or now  *)
(* if that time has passed, and the cadence moves on by the delay.         *)
nextSlot(c) ==
    /\ pc[c] = "slot"
    /\ LET at == IF nextAllowed < now THEN now ELSE nextAllowed
       IN  /\ wait' = [wait EXCEPT ![c] = at - now]
           /\ due' = [due EXCEPT ![c] = at]
           /\ nextAllowed' = at + delay[c]
    /\ before' = [before EXCEPT ![c] = owed]
    /\ owed' = owed + delay[c]
    /\ Goto(c, "sleep")
    /\ UNCHANGED <<now, waiter, calls, ctxDone, body, sem, delay>>

(* sleep returns nil and fn is called: with nothing to wait for if the     *)
(* context is live, else when the timer has fired, on time or late.        *)
Wake(c) ==
    /\ pc[c] = "sleep"
    /\ \/ wait[c] = 0 /\ c \notin ctxDone
       \/ wait[c] > 0 /\ now >= due[c]
    /\ Goto(c, "run")
    /\ UNCHANGED <<now, waiter, calls, ctxDone, body, sem, paceVars>>

(* Mutant: a cancelled sleeper keeps its slot.                             *)
CutKeepsSlot(c) ==
    /\ pc[c] = "sleep" /\ c \in ctxDone
    /\ CloseBody(c)
    /\ Goto(c, "idle")
    /\ UNCHANGED <<now, waiter, calls, ctxDone, sem, paceVars>>

(* sleep returns ctx.Err(); the turn stays taken.                          *)
Cut(c) ==
    /\ pc[c] = "sleep" /\ c \in ctxDone
    /\ Release
    /\ CloseBody(c)
    /\ Goto(c, "idle")
    /\ UNCHANGED <<now, waiter, calls, ctxDone, paceVars>>

(* The schedule's own Wait returns nil, and fn is called, ...              *)
Granted(c) ==
    /\ pc[c] = "wait"
    /\ Goto(c, "run")
    /\ UNCHANGED <<now, waiter, calls, ctxDone, body, sem, paceVars>>

(* ... or it returns an error, whether the context has ended or not.       *)
Denied(c) ==
    /\ pc[c] = "wait"
    /\ Release
    /\ CloseBody(c)
    /\ Goto(c, "idle")
    /\ UNCHANGED <<now, waiter, calls, ctxDone, paceVars>>

(* fn returns, panics or calls Goexit: the slot is given back by a defer.  *)
(* The inner transport has closed the body it was given.                   *)
Return(c) ==
    /\ pc[c] = "run"
    /\ Release
    /\ CloseBody(c)
    /\ Goto(c, "idle")
    /\ UNCHANGED <<now, waiter, calls, ctxDone, paceVars>>

(* The steps of Do itself; Granted and Denied are a Waiter's.              *)
DoStep(c) ==
    \/ Acquire(c) \/ GiveUp(c) \/ Refuse(c) \/ Pace(c) \/ nextSlot(c)
    \/ Wake(c) \/ Cut(c)

CallerNext(c) == Call(c) \/ CtxEnds(c) \/ DoStep(c) \/ Return(c)

Next ==
    \/ Advance
    \/ \E c \in Callers : CallerNext(c) \/ Granted(c) \/ Denied(c)

Spec == Init /\ [][Next]_vars

----------------------------------------------------------------------------
(* Properties *)

Holding == {"check", "wait", "slot", "sleep", "run"}
Turned == {"sleep", "run"}

(* The tokens in sem are the calls past the queue, at most Cap of them:    *)
(* cancelled, refused and panicking calls give their slot back once.       *)
SlotsAreHeld ==
    Cap # Unbounded =>
        /\ sem = Cardinality({c \in Callers : pc[c] \in Holding})
        /\ sem <= Cap

(* A call runs no sooner than the delays of all the turns before it allow, *)
(* those of cancelled callers included, and the due times of two calls     *)
(* under way are as far apart as the delays between their turns: no        *)
(* cancellation, queue or idle time earns a burst above the rate of the    *)
(* schedule, and no turn is shared by concurrent callers of nextSlot.      *)
RateIsKept ==
    /\ \A c \in Callers : pc[c] = "run" /\ ~waiter => now >= before[c]
    /\ \A c, d \in Callers :
         pc[c] \in Turned /\ pc[d] \in Turned /\ before[c] < before[d] =>
             due[d] - due[c] >= before[d] - before[c]

(* "On every path" a call leaves its request body closed, and closed once: *)
(* by RoundTrip or by the inner transport, never by both.                  *)
BodyClosedOnce == \A c \in Callers : pc[c] = "idle" => body[c] \in {"nil", "closed"}

(* A cancelled caller returns, or its fn was already chosen to run: it     *)
(* does not wait for a slot that never frees nor for its turn.  If every   *)
(* fn returns, every call does.                                            *)
CallsReturn ==
    /\ \A c \in Callers : (c \in ctxDone /\ pc[c] # "run") ~> pc[c] \in {"idle", "run"}
    /\ (\A c \in Callers : []<>(pc[c] # "run")) => \A c \in Callers : []<>(pc[c] = "idle")
=============================================================================
