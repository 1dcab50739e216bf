---------------------------- MODULE ReadThrough -----------------------------
(***************************************************************************)
(* cache.ReadThrough: a miss in the front cache calls the loader and puts  *)
(* what it returns in the front; with WithSingleFlight concurrent loads of *)
(* a key share one call (flightGroup).                                     *)
(*                                                                         *)
(* A caller is a goroutine in GetContext; it calls again and again.  A     *)
(* critical section of flightGroup.mu is one action, and so is a call of   *)
(* the loader or the front, which may fail, panic or call Goexit.          *)
(*                                                                         *)
(* A value is represented by the key it belongs to: the properties ask     *)
(* whether a hit is a value of its key, not which.                         *)
(***************************************************************************)
CONSTANTS Callers,       \* goroutines that read
          Keys,          \* the keys
          NaNs,          \* the keys k with k != k
          Zero,          \* the zero V
          CallIds,       \* call objects; one is reused once unreachable
          SingleFlight,  \* WithSingleFlight was given
          None           \* nil

ASSUME ReadThroughAssumption ==
    /\ SingleFlight \in BOOLEAN
    /\ NaNs \subseteq Keys /\ Zero \notin Keys
    /\ None \notin CallIds

(* "miss" is an error isMiss recognises, "ctx" the error of an ended       *)
(* context; "unwound" stands for a call that panicked or called Goexit.    *)
Errors == {"nil", "miss", "fail", "ctx", "unwound"}
Results == [val : Keys \cup {Zero}, err : Errors]

Ok(v) == [val |-> v, err |-> "nil"]
Err(e) == [val |-> Zero, err |-> e]

VARIABLES
    pc,        \* control state of each caller
    key,       \* the key of the call each caller is in
    ctxDone,   \* the callers whose context has ended
    ret,       \* the result each caller has, its answer when it is idle
    cl,        \* the call each caller leads or waits for
    flights,   \* flightGroup.m
    stray,     \* the calls in flightGroup.m under a NaN, which no key matches
    res,       \* call.val and call.err
    abandoned, \* the calls whose field abandoned is set
    done,      \* the calls whose channel done is closed
    source,    \* the keys the loader finds
    front      \* the keys with an entry in the front cache

flightVars == <<flights, stray, res, abandoned, done>>
dataVars == <<source, front>>
vars == <<pc, key, ctxDone, ret, cl, flightVars, dataVars>>

CallerType ==
    /\ pc \in [Callers -> {"idle", "get", "do", "wait", "load", "put", "lead", "drop", "close"}]
    /\ key \in [Callers -> Keys]
    /\ ctxDone \in SUBSET Callers
    /\ ret \in [Callers -> Results]
    /\ cl \in [Callers -> CallIds \cup {None}]

FlightType ==
    /\ flights \in [Keys -> CallIds \cup {None}]
    /\ stray \in SUBSET CallIds
    /\ res \in [CallIds -> Results]
    /\ abandoned \in SUBSET CallIds
    /\ done \in SUBSET CallIds

DataType ==
    /\ source \in SUBSET Keys
    /\ front \in SUBSET Keys

TypeOK == CallerType /\ FlightType /\ DataType

(* NewReadThrough over an empty front.                                     *)
Init ==
    /\ pc = [c \in Callers |-> "idle"]
    /\ key \in [Callers -> Keys]
    /\ ctxDone = {}
    /\ ret = [c \in Callers |-> Err("miss")]
    /\ cl = [c \in Callers |-> None]
    /\ flights = [k \in Keys |-> None]
    /\ res = [l \in CallIds |-> Err("nil")]
    /\ stray = {} /\ abandoned = {} /\ done = {}
    /\ source \in SUBSET Keys
    /\ front = {}

Goto(c, label) == pc' = [pc EXCEPT ![c] = label]
Result(c, r) == ret' = [ret EXCEPT ![c] = r]

----------------------------------------------------------------------------
(* GetContext is called; its context may already have ended.               *)
Call(c) ==
    /\ pc[c] = "idle"
    /\ \E k \in Keys : key' = [key EXCEPT ![c] = k]
    /\ ctxDone' \in {ctxDone \cup {c}, ctxDone \ {c}}
    /\ Result(c, Err("nil"))
    /\ Goto(c, "get")
    /\ UNCHANGED <<cl, flightVars, dataVars>>

(* Environment: the context of a call ends.                                *)
CtxEnds(c) ==
    /\ pc[c] # "idle" /\ c \notin ctxDone
    /\ ctxDone' = ctxDone \cup {c}
    /\ UNCHANGED <<pc, key, ret, cl, flightVars, dataVars>>

(* The errors a call that is handed c's context may return.                *)
Failures(c) == {"fail"} \cup (IF c \in ctxDone THEN {"ctx"} ELSE {})

(* front.GetContext: a hit or an error is the answer, a miss loads.        *)
Get(c) ==
    /\ pc[c] = "get"
    /\ \/ key[c] \in front /\ Result(c, Ok(key[c])) /\ Goto(c, "idle")
       \/ \E e \in Failures(c) : Result(c, Err(e)) /\ Goto(c, "idle")
       \/ /\ key[c] \notin front
          /\ Goto(c, IF SingleFlight THEN "do" ELSE "load")
          /\ UNCHANGED ret
    /\ UNCHANGED <<key, ctxDone, cl, flightVars, dataVars>>

Fresh(l) == l \notin stray /\ (\A k \in Keys : flights[k] # l) /\ (\A c \in Callers : cl[c] # l)

(* The top of the loop of flightGroup.Do, under mu: join the call in       *)
(* flight, or register a new one and lead it.  A NaN is never found.       *)
Do(c) ==
    /\ pc[c] = "do"
    /\ \/ /\ flights[key[c]] # None
          /\ cl' = [cl EXCEPT ![c] = flights[key[c]]]
          /\ Goto(c, "wait")
          /\ UNCHANGED flightVars
       \/ /\ flights[key[c]] = None
          /\ \E l \in CallIds :
               /\ Fresh(l)
               /\ cl' = [cl EXCEPT ![c] = l]
               /\ IF key[c] \in NaNs
                    THEN stray' = stray \cup {l} /\ UNCHANGED flights
                    ELSE flights' = [flights EXCEPT ![key[c]] = l] /\ UNCHANGED stray
               /\ res' = [res EXCEPT ![l] = Err("nil")]
               /\ abandoned' = abandoned \ {l}
               /\ done' = done \ {l}
          /\ Goto(c, "load")
    /\ UNCHANGED <<key, ctxDone, ret, dataVars>>

(* Mutant: a waiter takes the error of an abandoned load for its own.      *)
WakeInherits(c) ==
    /\ pc[c] = "wait" /\ cl[c] \in done
    /\ Result(c, res[cl[c]]) /\ Goto(c, "idle")
    /\ cl' = [cl EXCEPT ![c] = None]
    /\ UNCHANGED <<key, ctxDone, flightVars, dataVars>>

(* A waiter finds its call done: it takes the result, or starts again when *)
(* the leader was abandoned, unless its own context has ended too.         *)
Wake(c) ==
    /\ pc[c] = "wait" /\ cl[c] \in done
    /\ \/ cl[c] \notin abandoned /\ Result(c, res[cl[c]]) /\ Goto(c, "idle")
       \/ cl[c] \in abandoned /\ c \in ctxDone /\ Result(c, Err("ctx")) /\ Goto(c, "idle")
       \/ cl[c] \in abandoned /\ c \notin ctxDone /\ Goto(c, "do") /\ UNCHANGED ret
    /\ cl' = [cl EXCEPT ![c] = None]
    /\ UNCHANGED <<key, ctxDone, flightVars, dataVars>>

(* Mutant: a waiter that leaves takes the call out of the map.             *)
GiveUpForgets(c) ==
    /\ pc[c] = "wait" /\ c \in ctxDone
    /\ Result(c, Err("ctx")) /\ Goto(c, "idle")
    /\ cl' = [cl EXCEPT ![c] = None]
    /\ flights' = [flights EXCEPT ![key[c]] = None]
    /\ UNCHANGED <<key, ctxDone, stray, res, abandoned, done, dataVars>>

(* A waiter whose context ends leaves; the load goes on.                   *)
GiveUp(c) ==
    /\ pc[c] = "wait" /\ c \in ctxDone
    /\ Result(c, Err("ctx")) /\ Goto(c, "idle")
    /\ cl' = [cl EXCEPT ![c] = None]
    /\ UNCHANGED <<key, ctxDone, flightVars, dataVars>>

(* Where the function given to Do or lead returns to.                      *)
After == IF SingleFlight THEN "lead" ELSE "idle"

(* The loader: the value of the source, a miss, a failure, or no return.   *)
Load(c) ==
    /\ pc[c] = "load"
    /\ \/ /\ key[c] \in source
          /\ Result(c, Ok(key[c]))
          /\ Goto(c, "put")
       \/ /\ key[c] \notin source
          /\ Result(c, Err("miss"))
          /\ Goto(c, After)
       \/ /\ \E e \in Failures(c) \cup {"unwound"} : Result(c, Err(e))
          /\ Goto(c, After)
    /\ UNCHANGED <<key, ctxDone, cl, flightVars, dataVars>>

(* front.SetContext; its error is ignored.                                 *)
Put(c) ==
    /\ pc[c] = "put"
    /\ \/ /\ front' = front \cup {key[c]}
          /\ UNCHANGED ret
       \/ UNCHANGED <<front, ret>>
       \/ Result(c, Err("unwound")) /\ UNCHANGED front
    /\ Goto(c, After)
    /\ UNCHANGED <<key, ctxDone, cl, flightVars, source>>

(* Mutant: a load that did not return leaves the result as it was.         *)
LeadKeepsZero(c) ==
    /\ pc[c] = "lead"
    /\ res' = IF ret[c].err = "unwound" THEN res ELSE [res EXCEPT ![cl[c]] = ret[c]]
    /\ abandoned' = IF ret[c].err \in {"miss", "fail", "ctx"} /\ c \in ctxDone
                      THEN abandoned \cup {cl[c]} ELSE abandoned
    /\ Goto(c, "drop")
    /\ UNCHANGED <<key, ctxDone, ret, cl, flights, stray, done, dataVars>>

(* Mutant: the channel is closed before the result is stored.              *)
LeadClosesFirst(c) ==
    /\ pc[c] = "lead"
    /\ \/ /\ cl[c] \notin done
          /\ done' = done \cup {cl[c]}
          /\ UNCHANGED <<pc, res, abandoned>>
       \/ /\ cl[c] \in done
          /\ res' = [res EXCEPT ![cl[c]] = ret[c]]
          /\ Goto(c, "drop")
          /\ UNCHANGED <<abandoned, done>>
    /\ UNCHANGED <<key, ctxDone, ret, cl, flights, stray, dataVars>>

(* lead stores the result of fn, or, deferred, the error of a panic or a   *)
(* Goexit.  A load is abandoned if it returned an error and the leader's   *)
(* context has ended by now.                                               *)
Lead(c) ==
    /\ pc[c] = "lead"
    /\ res' = [res EXCEPT ![cl[c]] = ret[c]]
    /\ abandoned' = IF ret[c].err \in {"miss", "fail", "ctx"} /\ c \in ctxDone
                      THEN abandoned \cup {cl[c]} ELSE abandoned
    /\ Goto(c, "drop")
    /\ UNCHANGED <<key, ctxDone, ret, cl, flights, stray, done, dataVars>>

(* Mutant: the call of an abandoned load stays in the map.                 *)
DropKeepsAbandoned(c) ==
    /\ pc[c] = "drop"
    /\ flights' = IF cl[c] \in abandoned THEN flights ELSE [flights EXCEPT ![key[c]] = None]
    /\ Goto(c, "close")
    /\ UNCHANGED <<key, ctxDone, ret, cl, stray, res, abandoned, done, dataVars>>

(* Mutant: a leader whose loader panicked returns without the clean-up.    *)
DropNotAfterPanic(c) ==
    /\ pc[c] = "drop"
    /\ flights' = IF ret[c].err = "unwound" THEN flights ELSE [flights EXCEPT ![key[c]] = None]
    /\ Goto(c, IF ret[c].err = "unwound" THEN "idle" ELSE "close")
    /\ cl' = IF ret[c].err = "unwound" THEN [cl EXCEPT ![c] = None] ELSE cl
    /\ UNCHANGED <<key, ctxDone, ret, stray, res, abandoned, done, dataVars>>

(* The deferred clean-up: the call leaves the map, under mu (delete finds  *)
(* no entry for a NaN), ...                                                *)
Drop(c) ==
    /\ pc[c] = "drop"
    /\ flights' = [flights EXCEPT ![key[c]] = None]
    /\ Goto(c, "close")
    /\ UNCHANGED <<key, ctxDone, ret, cl, stray, res, abandoned, done, dataVars>>

(* ... and then its waiters are released; a panic is raised again.         *)
Close(c) ==
    /\ pc[c] = "close"
    /\ done' = done \cup {cl[c]}
    /\ cl' = [cl EXCEPT ![c] = None]
    /\ Goto(c, "idle")
    /\ UNCHANGED <<key, ctxDone, ret, flights, stray, res, abandoned, dataVars>>

(* SetContext and DeleteContext pass through to the front; an entry of the *)
(* front may also expire.                                                  *)
SetFront(k) ==
    /\ front' \in {front \cup {k}, front \ {k}}
    /\ UNCHANGED <<pc, key, ctxDone, ret, cl, flightVars, source>>

(* Environment: what the loader reads changes.                             *)
SetSource(k) ==
    /\ source' \in {source \cup {k}, source \ {k}}
    /\ UNCHANGED <<pc, key, ctxDone, ret, cl, flightVars, front>>

Step(c) ==
    \/ Get(c) \/ Do(c) \/ Wake(c) \/ GiveUp(c) \/ Load(c) \/ Put(c)
    \/ Lead(c) \/ Drop(c) \/ Close(c)

Next ==
    \/ \E c \in Callers : Call(c) \/ CtxEnds(c) \/ Step(c)
    \/ \E k \in Keys : SetFront(k) \/ SetSource(k)

Spec == Init /\ [][Next]_vars

(* Every goroutine runs, and the loader and the front return.              *)
FairSpec == Spec /\ \A c \in Callers : WF_vars(Step(c))

----------------------------------------------------------------------------
(* Properties *)

Leading(c) == cl[c] # None /\ pc[c] \in {"load", "put", "lead", "drop", "close"}
Loading(c) == SingleFlight /\ key[c] \notin NaNs /\ pc[c] \in {"load", "put"}

(* With single flight at most one load of a key runs, whatever contexts,   *)
(* retries of abandoned loads and panics do.                               *)
SingleLoad ==
    \A c, d \in Callers : Loading(c) /\ Loading(d) /\ key[c] = key[d] => c = d

(* A call in the map has its leader, and a waiter waits for a call that is *)
(* done or that a leader of the same key has still to finish.              *)
NoOrphanFlight ==
    /\ \A k \in Keys : flights[k] # None =>
         \E c \in Callers : Leading(c) /\ key[c] = k /\ cl[c] = flights[k]
    /\ \A c \in Callers : pc[c] = "wait" /\ cl[c] \notin done =>
         \E d \in Callers : Leading(d) /\ key[d] = key[c] /\ cl[d] = cl[c]

(* "The in-flight entry is removed": the map holds the calls that are led. *)
EntriesAreRemoved ==
    \A l \in stray : \E c \in Callers : Leading(c) /\ pc[c] # "close" /\ cl[c] = l

(* A hit is a value of the key that was asked for: never the zero value of *)
(* a load that panicked or called Goexit, nor the value of another key's   *)
(* load.                                                                   *)
HitIsReal ==
    \A c \in Callers : pc[c] = "idle" /\ ret[c].err = "nil" => ret[c].val = key[c]

(* A caller whose context is live never gets a context's error: it does    *)
(* not inherit the one that ended its leader's load.                       *)
OwnContextOnly ==
    \A c \in Callers : pc[c] = "idle" /\ ret[c].err = "ctx" => c \in ctxDone

(* What a finished call holds does not change while a waiter refers to it. *)
ResultIsFinal ==
    [][\A c \in Callers : pc[c] = "wait" /\ cl[c] \in done =>
          /\ cl[c] \in done'
          /\ res'[cl[c]] = res[cl[c]]
          /\ cl[c] \in abandoned <=> cl[c] \in abandoned']_vars

(* Every call whose context ends returns, and if contexts stop ending      *)
(* under running calls, every call returns.                                *)
CallsReturn ==
    /\ \A c \in Callers : (pc[c] # "idle" /\ c \in ctxDone) ~> (pc[c] = "idle")
    /\ <>[](\A c \in Callers : pc[c] # "idle" => c \notin ctxDone) =>
         \A c \in Callers : (pc[c] # "idle") ~> (pc[c] = "idle")
=============================================================================
