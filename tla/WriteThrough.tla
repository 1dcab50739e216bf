---------------------------- MODULE WriteThrough ----------------------------
(***************************************************************************)
(* cache.WriteThrough: writes and deletes go to a backing store and then   *)
(* to a front cache, under a lock per key that is created on first use and *)
(* removed with its last user.                                             *)
(*                                                                         *)
(* A client is a goroutine in SetContext or DeleteContext; it calls again  *)
(* and again.  A critical section of WriteThrough.mu is one action, and so *)
(* is a call of the writer, the deleter or the front, which may fail.      *)
(***************************************************************************)
EXTENDS Integers, FiniteSets

CONSTANTS Clients,     \* goroutines that write or delete
          Keys,        \* the keys
          NaNs,        \* the keys k with k != k
          Values,      \* the values
          LockIds,     \* keyLock objects; one is reused once unreachable
          Deleter,     \* WithDeleter was given
          Absent,      \* no entry
          None         \* nil

ASSUME WriteThroughAssumption ==
    /\ IsFiniteSet(Clients)
    /\ NaNs \subseteq Keys
    /\ Deleter \in BOOLEAN
    /\ Absent \notin Values
    /\ None \notin LockIds /\ None \notin Keys

Ops == [kind : {"set"}, key : Keys, val : Values]
         \cup [kind : {"delete"}, key : Keys, val : {Absent}]

VARIABLES
    pc,      \* control state of each client
    op,      \* the call each client is in
    ctxDone, \* the clients whose context has ended
    lk,      \* the keyLock each client refers to
    locks,   \* WriteThrough.locks
    refs,    \* keyLock.refs
    full,    \* the keyLocks whose channel is full
    store,   \* the backing store
    front,   \* the front cache
    behind   \* keys left different by a failed call (history)

lockVars == <<lk, locks, refs, full>>
dataVars == <<store, front, behind>>
vars == <<pc, op, ctxDone, lockVars, dataVars>>

PcType == pc \in [Clients -> {"idle", "lock", "try", "wait", "write", "front", "unlock", "release"}]

LockType ==
    /\ lk \in [Clients -> LockIds \cup {None}]
    /\ locks \in [Keys -> LockIds \cup {None}]
    /\ refs \in [LockIds -> Nat]
    /\ full \in SUBSET LockIds

DataType ==
    /\ op \in [Clients -> Ops]
    /\ ctxDone \in SUBSET Clients
    /\ store \in [Keys -> Values \cup {Absent}]
    /\ front \in [Keys -> Values \cup {Absent}]
    /\ behind \in SUBSET Keys

TypeOK == PcType /\ LockType /\ DataType

(* NewWriteThrough over an empty front.                                    *)
Init ==
    /\ pc = [c \in Clients |-> "idle"]
    /\ op \in [Clients -> Ops]
    /\ ctxDone = {}
    /\ lk = [c \in Clients |-> None]
    /\ locks = [k \in Keys |-> None]
    /\ refs = [l \in LockIds |-> 0]
    /\ full = {}
    /\ store \in [Keys -> Values \cup {Absent}]
    /\ front = [k \in Keys |-> Absent]
    /\ behind = {}

Goto(c, label) == pc' = [pc EXCEPT ![c] = label]
Key(c) == op[c].key

----------------------------------------------------------------------------
(* SetContext or DeleteContext is called.  The context may already have    *)
(* ended.  A key that is not equal to itself takes no lock.                *)
Call(c) ==
    /\ pc[c] = "idle"
    /\ \E o \in Ops : /\ op' = [op EXCEPT ![c] = o]
                      /\ Goto(c, IF o.key \in NaNs THEN "write" ELSE "lock")
    /\ ctxDone' \in {ctxDone \cup {c}, ctxDone \ {c}}
    /\ UNCHANGED <<lockVars, dataVars>>

(* Environment: the context of a call ends.                                *)
CtxEnds(c) ==
    /\ pc[c] # "idle" /\ c \notin ctxDone
    /\ ctxDone' = ctxDone \cup {c}
    /\ UNCHANGED <<pc, op, lockVars, dataVars>>

Fresh(l) == (\A k \in Keys : locks[k] # l) /\ (\A c \in Clients : lk[c] # l)

(* lock, under mu: find or make the key's lock and take a reference.       *)
LockRef(c) ==
    /\ pc[c] = "lock"
    /\ \/ /\ locks[Key(c)] # None
          /\ lk' = [lk EXCEPT ![c] = locks[Key(c)]]
          /\ refs' = [refs EXCEPT ![locks[Key(c)]] = @ + 1]
          /\ UNCHANGED <<locks, full>>
       \/ /\ locks[Key(c)] = None
          /\ \E l \in LockIds :
               /\ Fresh(l)
               /\ lk' = [lk EXCEPT ![c] = l]
               /\ locks' = [locks EXCEPT ![Key(c)] = l]
               /\ refs' = [refs EXCEPT ![l] = 1]
               /\ full' = full \ {l}
    /\ Goto(c, "try")
    /\ UNCHANGED <<op, ctxDone, dataVars>>

Take(c) ==
    /\ lk[c] \notin full
    /\ full' = full \cup {lk[c]}
    /\ Goto(c, "write")
    /\ UNCHANGED <<op, ctxDone, lk, locks, refs, dataVars>>

(* Mutant: a call that finds the lock taken goes on without it.            *)
LockTryAnyway(c) ==
    /\ pc[c] = "try"
    /\ full' = full \cup {lk[c]}
    /\ Goto(c, "write")
    /\ UNCHANGED <<op, ctxDone, lk, locks, refs, dataVars>>

(* The first select: take the lock if it is free.                          *)
LockTry(c) ==
    /\ pc[c] = "try"
    /\ \/ Take(c)
       \/ /\ lk[c] \in full
          /\ Goto(c, "wait")
          /\ UNCHANGED <<op, ctxDone, lockVars, dataVars>>

(* The second select: wait for the lock ...                                *)
LockWait(c) == pc[c] = "wait" /\ Take(c)

(* Mutant: giving up returns without releasing the reference.              *)
LockGiveUpLeaks(c) ==
    /\ pc[c] = "wait" /\ c \in ctxDone
    /\ Goto(c, "idle")
    /\ lk' = [lk EXCEPT ![c] = None]
    /\ UNCHANGED <<op, ctxDone, locks, refs, full, dataVars>>

(* ... or give up.                                                         *)
LockGiveUp(c) ==
    /\ pc[c] = "wait" /\ c \in ctxDone
    /\ Goto(c, "release")
    /\ UNCHANGED <<op, ctxDone, lockVars, dataVars>>

(* Mutant: the front is updated though the writer failed.                  *)
WriteIgnoresError(c) ==
    /\ pc[c] = "write"
    /\ \/ store' = [store EXCEPT ![Key(c)] = op[c].val]
       \/ UNCHANGED store
    /\ Goto(c, "front")
    /\ UNCHANGED <<op, ctxDone, lockVars, front, behind>>

(* The writer or the deleter is called.  It stores the value, or fails     *)
(* before or after it did.  A deferred unlock follows a failure or a panic.*)
Write(c) ==
    /\ pc[c] = "write"
    /\ \/ /\ op[c].kind = "set" \/ Deleter
          /\ store' = [store EXCEPT ![Key(c)] = op[c].val]
          /\ \/ Goto(c, "front") /\ UNCHANGED behind
             \/ Goto(c, "unlock") /\ behind' = behind \cup {Key(c)}
       \/ /\ op[c].kind = "set" \/ Deleter
          /\ Goto(c, "unlock")
          /\ UNCHANGED <<store, behind>>
       \/ /\ op[c].kind = "delete" /\ ~Deleter
          /\ Goto(c, "front")
          /\ UNCHANGED <<store, behind>>
    /\ UNCHANGED <<op, ctxDone, lockVars, front>>

(* The front is updated, or fails and keeps what it has.                   *)
Front(c) ==
    /\ pc[c] = "front"
    /\ \/ /\ front' = [front EXCEPT ![Key(c)] = op[c].val]
          /\ behind' = behind \ {Key(c)}
       \/ behind' = behind \cup {Key(c)} /\ UNCHANGED front
    /\ Goto(c, "unlock")
    /\ UNCHANGED <<op, ctxDone, lockVars, store>>

(* Mutant: the channel is not emptied.                                     *)
UnlockStaysFull(c) ==
    /\ pc[c] = "unlock"
    /\ Goto(c, IF lk[c] = None THEN "idle" ELSE "release")
    /\ UNCHANGED <<op, ctxDone, lockVars, dataVars>>

(* unlock: nothing to do for a NaN, otherwise the channel is emptied.      *)
Unlock(c) ==
    /\ pc[c] = "unlock"
    /\ IF lk[c] = None THEN Goto(c, "idle") /\ UNCHANGED full
                       ELSE Goto(c, "release") /\ full' = full \ {lk[c]}
    /\ UNCHANGED <<op, ctxDone, lk, locks, refs, dataVars>>

(* Mutant: the entry is removed while the lock still has users.            *)
ReleaseAlways(c) ==
    /\ pc[c] = "release"
    /\ refs' = [refs EXCEPT ![lk[c]] = @ - 1]
    /\ locks' = [locks EXCEPT ![Key(c)] = None]
    /\ lk' = [lk EXCEPT ![c] = None]
    /\ Goto(c, "idle")
    /\ UNCHANGED <<op, ctxDone, full, dataVars>>

(* release, under mu.                                                      *)
Release(c) ==
    /\ pc[c] = "release"
    /\ refs' = [refs EXCEPT ![lk[c]] = @ - 1]
    /\ locks' = IF refs[lk[c]] = 1 THEN [locks EXCEPT ![Key(c)] = None] ELSE locks
    /\ lk' = [lk EXCEPT ![c] = None]
    /\ Goto(c, "idle")
    /\ UNCHANGED <<op, ctxDone, full, dataVars>>

(* Environment: an entry of the front expires.                             *)
Expire(k) ==
    /\ front[k] # Absent
    /\ front' = [front EXCEPT ![k] = Absent]
    /\ UNCHANGED <<pc, op, ctxDone, lockVars, store, behind>>

Step(c) ==
    \/ LockRef(c) \/ LockTry(c) \/ LockGiveUp(c) \/ Write(c) \/ Front(c)
    \/ Unlock(c) \/ Release(c)

Next ==
    \/ \E c \in Clients : Call(c) \/ CtxEnds(c) \/ Step(c) \/ LockWait(c)
    \/ \E k \in Keys : Expire(k)

Spec == Init /\ [][Next]_vars

(* Every goroutine runs, and the writer, the deleter and the front return. *)
(* A channel hands a freed slot to its longest waiting sender, so one that *)
(* keeps waiting is served: strong fairness of LockWait.                   *)
Fairness == \A c \in Clients : WF_vars(Step(c)) /\ SF_vars(LockWait(c))

FairSpec == Spec /\ Fairness

----------------------------------------------------------------------------
(* Properties *)

InTurn(c)   == pc[c] \in {"write", "front", "unlock"} /\ Key(c) \notin NaNs
Users(l)    == {c \in Clients : lk[c] = l}

(* Writes and deletes of one key are serialised, each holding the key      *)
(* across its writer call and its front update.                            *)
Exclusion ==
    \A c, d \in Clients : InTurn(c) /\ InTurn(d) /\ Key(c) = Key(d) => c = d

(* The lock table has an entry for exactly the keys in use: refs counts    *)
(* the holders and waiters of a lock, all of them use the lock in the      *)
(* table, and a lock without users is not in the table ("removed when      *)
(* unused").                                                               *)
LockTable ==
    /\ \A l \in LockIds : Users(l) # {} => refs[l] = Cardinality(Users(l))
    /\ \A c \in Clients : lk[c] # None => locks[Key(c)] = lk[c]
    /\ \A k \in Keys : locks[k] # None => Users(locks[k]) # {}

(* A key that nobody is writing agrees with the store, or is not in the    *)
(* front, unless a failed call left the front behind; a failed call never  *)
(* leaves the front ahead of the store.                                    *)
FrontAgrees ==
    \A k \in Keys \ NaNs :
        (\A c \in Clients : ~(InTurn(c) /\ Key(c) = k)) =>
            k \in behind \/ front[k] \in {Absent, store[k]}

(* Every change of the front is made by the client that has the key, and   *)
(* it takes the value the store holds at that moment, or drops the entry.  *)
FrontFollows ==
    [][\A k \in Keys \ NaNs : front'[k] # front[k] =>
          front'[k] = Absent \/ (front'[k] = store[k] /\ \E c \in Clients : InTurn(c) /\ Key(c) = k)]_vars

(* Every call returns, whatever other clients, contexts and failures do.   *)
CallsReturn == \A c \in Clients : (pc[c] # "idle") ~> (pc[c] = "idle")

(* The lock table implements turns per key and the front follows the       *)
(* store: WriteThrough implements KeyedStore on the keys that are equal to *)
(* themselves.                                                             *)
Real == Keys \ NaNs

Abstract == INSTANCE KeyedStore WITH
    Keys  <- Real,
    held  <- [c \in Clients |-> IF InTurn(c) THEN Key(c) ELSE None],
    store <- [k \in Real |-> store[k]],
    front <- [k \in Real |-> front[k]]

Refines == Abstract!AbsSpec
=============================================================================
