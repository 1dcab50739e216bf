----------------------------- MODULE KeyedStore -----------------------------
(***************************************************************************)
(* What cache.WriteThrough promises: writers of one key take turns, and a  *)
(* turn may change the store and bring the front up to date with it.  The  *)
(* front never takes a value the store does not hold, and it may drop an   *)
(* entry at any time (expiry).                                             *)
(***************************************************************************)
CONSTANTS Clients, Keys, Values, Absent, None

VARIABLES held,   \* the key each client has its turn with, or None
          store,  \* the backing store
          front   \* the front cache

absVars == <<held, store, front>>

AbsInit ==
    /\ held = [c \in Clients |-> None]
    /\ store \in [Keys -> Values \cup {Absent}]
    /\ front = [k \in Keys |-> Absent]

Acquire(c, k) ==
    /\ held[c] = None /\ \A d \in Clients : held[d] # k
    /\ held' = [held EXCEPT ![c] = k]
    /\ UNCHANGED <<store, front>>

StoreTurn(c) ==
    /\ held[c] # None
    /\ \E v \in Values \cup {Absent} : store' = [store EXCEPT ![held[c]] = v]
    /\ UNCHANGED <<held, front>>

FrontTurn(c) ==
    /\ held[c] # None
    /\ front' = [front EXCEPT ![held[c]] = store[held[c]]]
    /\ UNCHANGED <<held, store>>

Drop(k) ==
    /\ front' = [front EXCEPT ![k] = Absent]
    /\ UNCHANGED <<held, store>>

Yield(c) ==
    /\ held[c] # None
    /\ held' = [held EXCEPT ![c] = None]
    /\ UNCHANGED <<store, front>>

AbsNext ==
    \/ \E c \in Clients : \/ \E k \in Keys : Acquire(c, k)
                          \/ StoreTurn(c) \/ FrontTurn(c) \/ Yield(c)
    \/ \E k \in Keys : Drop(k)

AbsSpec == AbsInit /\ [][AbsNext]_absVars
=============================================================================
