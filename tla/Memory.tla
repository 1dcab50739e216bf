------------------------------- MODULE Memory -------------------------------
(***************************************************************************)
(* cache.Memory: a map under a RWMutex, with expiry, a janitor that sweeps *)
(* expired entries and a goroutine that rebuilds the map.                  *)
(*                                                                         *)
(* Every operation reads the clock first and locks mu afterwards, so the   *)
(* clock may have moved and others may have changed the map by the time it *)
(* has the lock.  A critical section of mu is one action.  An entry is     *)
(* represented by its expiry: no operation looks at the value.             *)
(***************************************************************************)
EXTENDS Expiry

CONSTANTS Clients,    \* goroutines that call Get, Set, Delete and Items
          Keys,       \* the keys
          Durations,  \* the durations passed to After
          Times,      \* the times passed to At
          Loops,      \* the background goroutines that run
          MaxClock    \* the last instant (bound)

ASSUME MemoryAssumption ==
    /\ Durations \subseteq Int
    /\ Times \subseteq Nat
    /\ Loops \subseteq {"cleanup", "rebuild"}
    /\ MaxClock \in Nat \ {0}

Absent == -1   \* no entry

VARIABLES
    clock,    \* the time
    m,        \* Memory.m: the expiry of each entry
    closed,   \* done is closed
    pc,       \* control state of each client
    key,      \* the key each client works on
    exp,      \* the expiry passed to set
    now,      \* what time.Now() returned to each client
    got,      \* the entry lookup returned, or Absent
    todo,     \* the keys of its snapshot an iteration has yet to yield
    ctxDone,  \* the clients whose context has ended
    lpc,      \* control state of each background goroutine
    lnow      \* what time.Now() returned to it

clientVars == <<pc, key, exp, now, got, todo>>
loopVars == <<lpc, lnow>>
vars == <<clock, m, closed, ctxDone, clientVars, loopVars>>

MapType == clock \in Nat \ {0} /\ m \in [Keys -> Nat \cup {Absent}] /\ closed \in BOOLEAN

ClientType ==
    /\ pc \in [Clients -> {"idle", "read", "recheck", "store", "snap", "yield"}]
    /\ key \in [Clients -> Keys]
    /\ exp \in [Clients -> Expiries(Durations, Times)]
    /\ now \in [Clients -> Nat]
    /\ got \in [Clients -> Nat \cup {Absent}]
    /\ todo \in [Clients -> SUBSET Keys]
    /\ ctxDone \in SUBSET Clients

LoopType ==
    /\ lpc \in [Loops -> {"loop", "run", "stopped"}]
    /\ lnow \in [Loops -> Nat]

TypeOK == MapType /\ ClientType /\ LoopType

(* NewMemory.                                                              *)
Init ==
    /\ clock = 1
    /\ m = [k \in Keys |-> Absent]
    /\ closed = FALSE
    /\ ctxDone = {}
    /\ pc = [c \in Clients |-> "idle"]
    /\ key \in [Clients -> Keys]
    /\ exp = [c \in Clients |-> [kind |-> "default", dur |-> 0, at |-> 0]]
    /\ now = [c \in Clients |-> 1]
    /\ got = [c \in Clients |-> Absent]
    /\ todo = [c \in Clients |-> {}]
    /\ lpc = [l \in Loops |-> "loop"]
    /\ lnow = [l \in Loops |-> 1]

Goto(c, label) == pc' = [pc EXCEPT ![c] = label]
Held(k) == m[k] # Absent
Live(k, t) == Held(k) /\ ~expired(m[k], t)

----------------------------------------------------------------------------
(* The clock moves on.                                                     *)
Advance ==
    /\ clock < MaxClock
    /\ clock' = clock + 1
    /\ UNCHANGED <<m, closed, ctxDone, clientVars, loopVars>>

(* An operation starts by reading the clock.                               *)
Start(c, k, label) ==
    /\ pc[c] = "idle"
    /\ key' = [key EXCEPT ![c] = k]
    /\ now' = [now EXCEPT ![c] = clock]
    /\ got' = [got EXCEPT ![c] = Absent]
    /\ Goto(c, label)

(* Get, GetContext.                                                        *)
Get(c, k) ==
    /\ Start(c, k, "read")
    /\ UNCHANGED <<clock, m, closed, ctxDone, exp, todo, loopVars>>

(* lookup under the read lock.                                             *)
Read(c) ==
    /\ pc[c] = "read"
    /\ \/ Live(key[c], now[c]) /\ got' = [got EXCEPT ![c] = m[key[c]]] /\ Goto(c, "idle")
       \/ ~Live(key[c], now[c]) /\ Goto(c, IF Held(key[c]) THEN "recheck" ELSE "idle") /\ UNCHANGED got
    /\ UNCHANGED <<clock, m, closed, ctxDone, key, exp, now, todo, loopVars>>

(* Mutant: lookup deletes without looking again.                           *)
RecheckNot(c) ==
    /\ pc[c] = "recheck"
    /\ m' = [m EXCEPT ![key[c]] = Absent]
    /\ Goto(c, "idle")
    /\ UNCHANGED <<clock, closed, ctxDone, key, exp, now, got, todo, loopVars>>

(* lookup under the write lock: remove the entry if it is still expired.   *)
Recheck(c) ==
    /\ pc[c] = "recheck"
    /\ m' = IF Held(key[c]) /\ expired(m[key[c]], now[c]) THEN [m EXCEPT ![key[c]] = Absent] ELSE m
    /\ Goto(c, "idle")
    /\ UNCHANGED <<clock, closed, ctxDone, key, exp, now, got, todo, loopVars>>

(* Set, SetContext.                                                        *)
Set(c, k, x) ==
    /\ Start(c, k, "store")
    /\ exp' = [exp EXCEPT ![c] = x]
    /\ UNCHANGED <<clock, m, closed, ctxDone, todo, loopVars>>

(* set under the write lock; an expired entry counts as absent.            *)
Store(c) ==
    /\ pc[c] = "store"
    /\ m' = [m EXCEPT ![key[c]] = resolveExpiry(exp[c], now[c], m[key[c]], Live(key[c], now[c]))]
    /\ Goto(c, "idle")
    /\ UNCHANGED <<clock, closed, ctxDone, key, exp, now, got, todo, loopVars>>

(* Delete, DeleteContext.                                                  *)
Delete(k) ==
    /\ m' = [m EXCEPT ![k] = Absent]
    /\ UNCHANGED <<clock, closed, ctxDone, clientVars, loopVars>>

(* The iteration of Items or ItemsContext begins.  If its context has      *)
(* ended already it returns before it reads the clock, and nothing has     *)
(* changed: such an iteration is a stuttering step.                        *)
Items(c) ==
    /\ pc[c] = "idle"
    /\ ctxDone' = ctxDone \ {c}
    /\ now' = [now EXCEPT ![c] = clock]
    /\ got' = [got EXCEPT ![c] = Absent]
    /\ Goto(c, "snap")
    /\ UNCHANGED <<clock, m, closed, key, exp, todo, loopVars>>

(* The snapshot of the live entries of a map with the keys S, under the    *)
(* read lock.                                                              *)
SnapOf(c, S) ==
    /\ pc[c] = "snap"
    /\ todo' = [todo EXCEPT ![c] = {k \in S : Live(k, now[c])}]
    /\ Goto(c, "yield")
    /\ UNCHANGED <<clock, m, closed, ctxDone, key, exp, now, got, loopVars>>
Snap(c) == SnapOf(c, Keys)

(* One entry is yielded, or the iteration ends: nothing is left, the       *)
(* context has ended, or the loop body stops it.                           *)
Yield(c) ==
    /\ pc[c] = "yield"
    /\ \/ /\ todo[c] = {} \/ c \in ctxDone
          /\ Goto(c, "idle")
          /\ todo' = [todo EXCEPT ![c] = {}]
       \/ \E k \in todo[c] :
            /\ c \notin ctxDone
            /\ \/ Goto(c, "idle") /\ todo' = [todo EXCEPT ![c] = {}]
               \/ todo' = [todo EXCEPT ![c] = @ \ {k}] /\ UNCHANGED pc
    /\ UNCHANGED <<clock, m, closed, ctxDone, key, exp, now, got, loopVars>>

(* Environment: the context of an iteration ends.                          *)
CtxEnds(c) ==
    /\ pc[c] \in {"snap", "yield"} /\ c \notin ctxDone
    /\ ctxDone' = ctxDone \cup {c}
    /\ UNCHANGED <<clock, m, closed, clientVars, loopVars>>

(* Mutant: the clock is read once, before the loop.                        *)
TickStaleClock(l) ==
    /\ lpc[l] = "loop"
    /\ lpc' = [lpc EXCEPT ![l] = "run"]
    /\ UNCHANGED <<clock, m, closed, ctxDone, clientVars, lnow>>

(* loop: a tick starts fn, which reads the clock first.                    *)
Tick(l) ==
    /\ lpc[l] = "loop"
    /\ lpc' = [lpc EXCEPT ![l] = "run"]
    /\ lnow' = [lnow EXCEPT ![l] = clock]
    /\ UNCHANGED <<clock, m, closed, ctxDone, clientVars>>

(* cleanup deletes the expired entries.                                    *)
cleanup ==
    /\ "cleanup" \in Loops /\ lpc["cleanup"] = "run"
    /\ m' = [k \in Keys |-> IF expired(m[k], lnow["cleanup"]) THEN Absent ELSE m[k]]
    /\ lpc' = [lpc EXCEPT !["cleanup"] = "loop"]
    /\ UNCHANGED <<clock, closed, ctxDone, clientVars, lnow>>

(* rebuild copies the live entries into a fresh map.                       *)
rebuild ==
    /\ "rebuild" \in Loops /\ lpc["rebuild"] = "run"
    /\ m' = [k \in Keys |-> IF Live(k, lnow["rebuild"]) THEN m[k] ELSE Absent]
    /\ lpc' = [lpc EXCEPT !["rebuild"] = "loop"]
    /\ UNCHANGED <<clock, closed, ctxDone, clientVars, lnow>>

(* Mutant: Close sends on done, so that one goroutine only hears of it.    *)
StopConsumes(l) ==
    /\ lpc[l] = "loop" /\ closed
    /\ lpc' = [lpc EXCEPT ![l] = "stopped"]
    /\ closed' = FALSE
    /\ UNCHANGED <<clock, m, ctxDone, clientVars, lnow>>

(* loop: the cache is closed.                                              *)
Stop(l) ==
    /\ lpc[l] = "loop" /\ closed
    /\ lpc' = [lpc EXCEPT ![l] = "stopped"]
    /\ UNCHANGED <<clock, m, closed, ctxDone, clientVars, lnow>>

(* Close, once or again.                                                   *)
Close ==
    /\ closed' = TRUE
    /\ UNCHANGED <<clock, m, ctxDone, clientVars, loopVars>>

Step(c) == Read(c) \/ Recheck(c) \/ Store(c) \/ Snap(c) \/ Yield(c)

Next ==
    \/ Advance \/ Close \/ cleanup \/ rebuild
    \/ \E c \in Clients : Items(c) \/ CtxEnds(c) \/ Step(c)
    \/ \E c \in Clients, k \in Keys :
         Get(c, k) \/ \E x \in Expiries(Durations, Times) : Set(c, k, x)
    \/ \E k \in Keys : Delete(k)
    \/ \E l \in Loops : Tick(l) \/ Stop(l)

Spec == Init /\ [][Next]_vars

(* The background goroutines run and their tickers tick; a select that     *)
(* keeps finding done closed takes it in the end.                          *)
Fairness ==
    /\ WF_vars(cleanup) /\ WF_vars(rebuild)
    /\ \A l \in Loops : WF_vars(Tick(l)) /\ SF_vars(Stop(l))

FairSpec == Spec /\ Fairness

----------------------------------------------------------------------------
(* Properties *)

Alive(k) == m[k] = 0 \/ m[k] > clock
Dead(k) == m[k] # Absent /\ ~Alive(k)

(* A live entry leaves the map only when it is deleted: no sweep, rebuild  *)
(* or lookup that looked at the clock or the map earlier removes it.       *)
LiveIsKept ==
    [][\A k \in Keys : Alive(k) /\ m'[k] = Absent => Delete(k)]_vars

(* A lookup or an iteration that looks at the map sees every entry that is *)
(* live then, though its reading of the clock is older.                    *)
LiveIsSeen ==
    [][\A c \in Clients :
         /\ Read(c) /\ Alive(key[c]) => got'[c] = m[key[c]]
         /\ Snap(c) => {k \in Keys : Alive(k)} \subseteq todo'[c]]_vars

(* With a maximum no entry is permanent or outlives now + MaxTTL, however  *)
(* often it is set again with Keep.                                        *)
LifeIsBounded ==
    MaxTTL > 0 => \A k \in Keys : Held(k) => m[k] \in 1..(clock + MaxTTL)

(* Set stores the expiry the documentation promises of the moment it read  *)
(* the clock, however long it waited for the lock; Keep leaves the expiry  *)
(* of an entry that is still live, and stands for Default if the entry had *)
(* expired by that reading.  Nothing is said here of Keep on an entry that *)
(* expired in between: see KeepNeverStale.                                 *)
SetHonours ==
    [][\A c \in Clients : Store(c) =>
          LET k == key[c] IN
          /\ exp[c].kind = "keep" /\ Alive(k) => m'[k] = m[k]
          /\ ~(exp[c].kind = "keep" /\ Live(k, now[c])) => Honours(m'[k], exp[c], now[c])]_vars

(* "Keep never preserves a stale past expiry" (set): the expiry of an      *)
(* entry that is dead when Keep stores is not stored again.                *)
KeepNeverStale ==
    [][\A c \in Clients :
          Store(c) /\ exp[c].kind = "keep" /\ Dead(key[c]) => m'[key[c]] # m[key[c]]]_vars

(* "Passing a returned expiry back to At re-applies it": without a minimum *)
(* At of the expiry of a live entry gives that expiry again.               *)
ReturnedReapplies ==
    MinTTL = 0 => \A k \in Keys : Alive(k) =>
        resolveExpiry([kind |-> "at", dur |-> 0, at |-> m[k]], clock, Absent, FALSE) = m[k]

(* An expired entry does not stay for ever while the janitor or the        *)
(* rebuild runs.                                                           *)
IsSwept ==
    Loops # {} =>
        \A k \in Keys : Dead(k) ~> (~Dead(k) \/ closed)

(* Close stops the background goroutines, and they stay stopped.           *)
LoopsStop == closed ~> [](\A l \in Loops : lpc[l] = "stopped")
=============================================================================
