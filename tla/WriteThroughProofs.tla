------------------------- MODULE WriteThroughProofs -------------------------
(***************************************************************************)
(* Proofs about cache.WriteThrough, for any number of clients, keys and    *)
(* values.                                                                 *)
(***************************************************************************)
EXTENDS WriteThrough, TLAPS, FiniteSetTheorems

Turn == {"write", "front", "unlock"}

(* A client refers to a lock from the moment lock counts it until release, *)
(* and the lock is the one in the table.                                   *)
RefInv ==
    \A c \in Clients :
        /\ pc[c] \in {"idle", "lock"} => lk[c] = None
        /\ pc[c] \in {"try", "wait", "release"} => lk[c] # None
        /\ pc[c] \in Turn => (lk[c] = None <=> Key(c) \in NaNs)
        /\ pc[c] = "lock" => Key(c) \notin NaNs
        /\ lk[c] # None => Key(c) \notin NaNs /\ locks[Key(c)] = lk[c]

UsersOf(f, l) == {c \in Clients : f[c] = l}

(* Two keys never share a lock, and refs counts the users of a lock.       *)
TableInv ==
    /\ \A j, k \in Keys : locks[j] = locks[k] /\ locks[j] # None => j = k
    /\ \A k \in Keys : locks[k] # None => UsersOf(lk, locks[k]) # {}
    /\ \A l \in LockIds : UsersOf(lk, l) # {} => refs[l] = Cardinality(UsersOf(lk, l))

(* A client in its turn has filled the channel, alone.                     *)
FullInv ==
    /\ \A c \in Clients : InTurn(c) => lk[c] \in full
    /\ \A c, d \in Clients : InTurn(c) /\ InTurn(d) /\ lk[c] = lk[d] => c = d

(* Only between the store and the front does a key without a failed call   *)
(* disagree, and then the store holds what the front is about to take.     *)
AgreeInv ==
    /\ \A c \in Clients : pc[c] = "front" /\ InTurn(c) =>
         (op[c].val = Absent /\ ~Deleter) \/ op[c].val = store[Key(c)]
    /\ \A k \in Real :
         (\A c \in Clients : ~(pc[c] = "front" /\ Key(c) = k)) =>
             k \in behind \/ front[k] \in {Absent, store[k]}

IInv == TypeOK /\ RefInv /\ TableInv /\ FullInv /\ AgreeInv

----------------------------------------------------------------------------
(* The fields of an operation have their types.                            *)
LEMMA OpTypes ==
    ASSUME DataType
    PROVE  \A c \in Clients : Key(c) \in Keys /\ op[c].val \in Values \cup {Absent}
BY DEF DataType, Ops, Key

(* The users of a lock are a finite set.                                   *)
LEMMA UsersFinite ==
    ASSUME NEW f, NEW l
    PROVE  /\ IsFiniteSet(UsersOf(f, l)) /\ Cardinality(UsersOf(f, l)) \in Nat
           /\ Cardinality(UsersOf(f, l)) = 0 <=> UsersOf(f, l) = {}
<1>1. IsFiniteSet(UsersOf(f, l))
  BY WriteThroughAssumption, FS_Subset DEF UsersOf
<1> QED
  BY <1>1, FS_CardinalityType, FS_EmptySet

(* The inductive invariant holds initially.                                *)
LEMMA InitInv == Init => IInv
<1> SUFFICES ASSUME Init PROVE IInv
  OBVIOUS
<1>1. TypeOK
  BY DEF Init, TypeOK, PcType, LockType, DataType
<1>2. RefInv
  BY DEF Init, RefInv, Turn
<1>3. \A l \in LockIds : UsersOf(lk, l) = {}
  BY WriteThroughAssumption DEF Init, UsersOf
<1>4. TableInv
  BY <1>3 DEF Init, TableInv
<1>5. FullInv /\ AgreeInv
  BY DEF Init, FullInv, AgreeInv, InTurn, Real
<1> QED
  BY <1>1, <1>2, <1>4, <1>5 DEF IInv

(* Types are preserved; a counter released was counted.                    *)
LEMMA TypeStep == ASSUME IInv, [Next]_vars PROVE TypeOK'
<1> USE DEF IInv, TypeOK, lockVars, dataVars
<1>0. \A c \in Clients : Key(c) \in Keys /\ op[c].val \in Values \cup {Absent}
  BY OpTypes
<1>1. ASSUME NEW c \in Clients, Call(c) \/ CtxEnds(c) PROVE TypeOK'
  BY <1>1 DEF Call, CtxEnds, Goto, PcType, LockType, DataType
<1>2. ASSUME NEW c \in Clients, LockRef(c) PROVE TypeOK'
  BY <1>0, <1>2 DEF LockRef, Goto, PcType, LockType, DataType
<1>3. ASSUME NEW c \in Clients, LockTry(c) \/ LockWait(c) \/ LockGiveUp(c) PROVE TypeOK'
  <2>1. pc[c] \in {"try", "wait"} => lk[c] \in LockIds
    BY DEF RefInv, LockType
  <2> QED
    BY <1>3, <2>1 DEF LockTry, LockWait, LockGiveUp, Take, Goto, PcType, LockType, DataType
<1>4. ASSUME NEW c \in Clients, Write(c) \/ Front(c) PROVE TypeOK'
  BY <1>0, <1>4 DEF Write, Front, Goto, PcType, LockType, DataType
<1>5. ASSUME NEW c \in Clients, Unlock(c) PROVE TypeOK'
  BY <1>5 DEF Unlock, Goto, PcType, LockType, DataType
<1>6. ASSUME NEW c \in Clients, Release(c) PROVE TypeOK'
  <2>1. lk[c] \in LockIds /\ c \in UsersOf(lk, lk[c])
    BY <1>6 DEF Release, RefInv, LockType, UsersOf
  <2>2. refs[lk[c]] \in Nat \ {0}
    BY <2>1, UsersFinite DEF TableInv
  <2>3. refs[lk[c]] - 1 \in Nat
    BY <2>2
  <2> QED
    BY <1>0, <1>6, <2>1, <2>3 DEF Release, Goto, PcType, LockType, DataType
<1>7. ASSUME NEW k \in Keys, Expire(k) PROVE TypeOK'
  BY <1>7 DEF Expire, PcType, LockType, DataType
<1>8. CASE UNCHANGED vars
  BY <1>8 DEF vars, PcType, LockType, DataType
<1> QED
  BY <1>1, <1>2, <1>3, <1>4, <1>5, <1>6, <1>7, <1>8 DEF Next, Step

(* Every step keeps the references of the callers to their locks.          *)
LEMMA RefStep == ASSUME IInv, [Next]_vars PROVE RefInv'
<1> USE DEF IInv, TypeOK, PcType, RefInv, Key, Turn, Goto, lockVars, dataVars
<1>0. \A c \in Clients : Key(c) \in Keys
  BY OpTypes
<1>1. ASSUME NEW c \in Clients, Call(c) PROVE RefInv'
  BY <1>1, WriteThroughAssumption DEF Call, DataType
<1>2. ASSUME NEW c \in Clients, LockRef(c) PROVE RefInv'
  <2>1. CASE locks[Key(c)] # None
    BY <1>0, <1>2, <2>1 DEF LockRef, LockType
  <2>2. CASE locks[Key(c)] = None
    <3>1. PICK l \in LockIds : /\ Fresh(l)
                               /\ lk' = [lk EXCEPT ![c] = l]
                               /\ locks' = [locks EXCEPT ![Key(c)] = l]
      BY <1>2, <2>2 DEF LockRef
    <3>2. \A d \in Clients : lk[d] # None => Key(d) # Key(c)
      BY <2>2
    <3> QED
      BY <1>0, <1>2, <3>1, <3>2, WriteThroughAssumption DEF LockRef, LockType
  <2> QED
    BY <2>1, <2>2
<1>3. ASSUME NEW c \in Clients, LockTry(c) \/ LockWait(c) \/ LockGiveUp(c) PROVE RefInv'
  BY <1>3 DEF LockTry, LockWait, LockGiveUp, Take
<1>4. ASSUME NEW c \in Clients, Write(c) \/ Front(c) \/ Unlock(c) PROVE RefInv'
  BY <1>4 DEF Write, Front, Unlock
<1>5. ASSUME NEW c \in Clients, Release(c) PROVE RefInv'
  <2>1. c \in UsersOf(lk, lk[c]) /\ lk[c] \in LockIds
    BY <1>5 DEF Release, UsersOf, LockType
  <2>2. CASE refs[lk[c]] # 1
    BY <1>5, <2>2 DEF Release, LockType
  <2>3. CASE refs[lk[c]] = 1
    <3>1. Cardinality(UsersOf(lk, lk[c])) = 1
      BY <2>1, <2>3 DEF TableInv
    <3>5. IsFiniteSet(UsersOf(lk, lk[c]))
      BY UsersFinite
    <3>2. PICK u : UsersOf(lk, lk[c]) = {u}
      BY <3>1, <3>5, FS_Singleton
    <3>4. \A e \in Clients : lk[e] = lk[c] => e = c
      BY <2>1, <3>2 DEF UsersOf
    <3>3. \A d \in Clients \ {c} : lk[d] # None => Key(d) # Key(c)
      BY <2>1, <3>4, WriteThroughAssumption
    <3> QED
      BY <1>0, <1>5, <2>3, <3>3 DEF Release, LockType
  <2> QED
    BY <2>2, <2>3
<1>6. CASE UNCHANGED <<pc, op, lk, locks>>
  BY <1>6
<1> QED
  BY <1>1, <1>2, <1>3, <1>4, <1>5, <1>6 DEF Next, Step, CtxEnds, Expire, vars

(* Every step keeps the lock table and its reference counts exact.         *)
LEMMA TableStep == ASSUME IInv, [Next]_vars PROVE TableInv'
<1> USE DEF IInv, TypeOK, lockVars, dataVars
<1>0. \A c \in Clients : Key(c) \in Keys
  BY OpTypes
<1>1. ASSUME NEW c \in Clients, NEW l \in LockIds, NEW k \in Keys, lk[c] = None,
             lk' = [lk EXCEPT ![c] = l]
      PROVE  /\ UsersOf(lk', l) = UsersOf(lk, l) \cup {c} /\ c \notin UsersOf(lk, l)
             /\ \A m \in LockIds \ {l} : UsersOf(lk', m) = UsersOf(lk, m)
  BY <1>1, WriteThroughAssumption DEF UsersOf, LockType
<1>2. ASSUME NEW c \in Clients, LockRef(c), locks[Key(c)] # None PROVE TableInv'
  <2>1. PICK l \in LockIds : l = locks[Key(c)]
    BY <1>0, <1>2 DEF LockType
  <2>2. lk[c] = None /\ lk' = [lk EXCEPT ![c] = l] /\ refs' = [refs EXCEPT ![l] = @ + 1] /\ locks' = locks
    BY <1>2, <2>1 DEF LockRef, RefInv
  <2>3. /\ UsersOf(lk', l) = UsersOf(lk, l) \cup {c} /\ c \notin UsersOf(lk, l)
        /\ \A m \in LockIds \ {l} : UsersOf(lk', m) = UsersOf(lk, m) /\ refs'[m] = refs[m]
    BY <1>0, <1>1, <2>2 DEF LockType
  <2>4. UsersOf(lk, l) # {} /\ refs[l] = Cardinality(UsersOf(lk, l))
    BY <1>0, <1>2, <2>1 DEF TableInv
  <2>5. Cardinality(UsersOf(lk, l) \cup {c}) = Cardinality(UsersOf(lk, l)) + 1
    BY <2>3, UsersFinite, FS_AddElement
  <2>6. Cardinality(UsersOf(lk', l)) = refs'[l]
    BY <2>2, <2>3, <2>4, <2>5 DEF LockType
  <2>7. \A k \in Keys : locks[k] # None => UsersOf(lk', locks[k]) # {}
    BY <2>3 DEF TableInv, LockType
  <2>8. \A m \in LockIds : UsersOf(lk', m) # {} => refs'[m] = Cardinality(UsersOf(lk', m))
    BY <2>3, <2>6 DEF TableInv
  <2> QED
    BY <2>2, <2>7, <2>8 DEF TableInv
<1>3. ASSUME NEW c \in Clients, LockRef(c), locks[Key(c)] = None PROVE TableInv'
  <2>1. PICK l \in LockIds : /\ Fresh(l)
                             /\ lk' = [lk EXCEPT ![c] = l]
                             /\ locks' = [locks EXCEPT ![Key(c)] = l]
                             /\ refs' = [refs EXCEPT ![l] = 1]
    BY <1>3 DEF LockRef
  <2>2. lk[c] = None
    BY <1>3 DEF LockRef, RefInv
  <2>3. UsersOf(lk', l) = {c} /\ Cardinality(UsersOf(lk', l)) = 1
    <3>1. UsersOf(lk', l) = {c}
      BY <2>1 DEF UsersOf, Fresh, LockType
    <3> QED
      BY <3>1, FS_Singleton
  <2>4. \A m \in LockIds \ {l} : UsersOf(lk', m) = UsersOf(lk, m) /\ refs'[m] = refs[m]
    BY <1>0, <1>1, <2>1, <2>2 DEF LockType
  <2>5. \A k \in Keys \ {Key(c)} : locks'[k] = locks[k] /\ locks[k] # l /\ locks[k] \in LockIds \cup {None}
    BY <1>0, <2>1 DEF Fresh, LockType
  <2>6. locks'[Key(c)] = l
    BY <1>0, <2>1 DEF LockType
  <2>7. \A j, k \in Keys : locks'[j] = locks'[k] /\ locks'[j] # None => j = k
    BY <2>5, <2>6 DEF TableInv
  <2>8. \A k \in Keys : locks'[k] # None => UsersOf(lk', locks'[k]) # {}
    BY <2>3, <2>4, <2>5, <2>6 DEF TableInv
  <2>9. \A m \in LockIds : UsersOf(lk', m) # {} => refs'[m] = Cardinality(UsersOf(lk', m))
    BY <2>1, <2>3, <2>4 DEF TableInv, LockType
  <2> QED
    BY <2>7, <2>8, <2>9 DEF TableInv
<1>4. ASSUME NEW c \in Clients, Release(c) PROVE TableInv'
  <2>1. PICK l \in LockIds : l = lk[c]
    BY <1>4 DEF Release, RefInv, LockType
  <2>2. l # None /\ c \in UsersOf(lk, l) /\ locks[Key(c)] = l /\ refs[l] = Cardinality(UsersOf(lk, l))
    BY <2>1, WriteThroughAssumption DEF RefInv, UsersOf, TableInv
  <2>3. refs' = [refs EXCEPT ![l] = @ - 1] /\ lk' = [lk EXCEPT ![c] = None]
    BY <1>4, <2>1 DEF Release
  <2>4. UsersOf(lk', l) = UsersOf(lk, l) \ {c}
    BY <2>1, <2>2, <2>3 DEF UsersOf, LockType
  <2>5. \A m \in LockIds \ {l} : UsersOf(lk', m) = UsersOf(lk, m) /\ refs'[m] = refs[m]
    BY <2>1, <2>3, WriteThroughAssumption DEF UsersOf, LockType
  <2>6. /\ Cardinality(UsersOf(lk, l) \ {c}) = Cardinality(UsersOf(lk, l)) - 1
        /\ Cardinality(UsersOf(lk, l)) \in Nat
    BY <2>2, UsersFinite, FS_RemoveElement
  <2>7. \A m \in LockIds : UsersOf(lk', m) # {} => refs'[m] = Cardinality(UsersOf(lk', m))
    BY <2>2, <2>3, <2>4, <2>5, <2>6 DEF TableInv, LockType
  <2>8. \A k \in Keys : locks'[k] # None => locks'[k] = locks[k] /\ locks[k] \in LockIds
    BY <1>0, <1>4 DEF Release, LockType
  <2>9. \A k \in Keys : locks'[k] # None => UsersOf(lk', locks'[k]) # {}
    <3>1. CASE refs[l] # 1
      <4>1. UsersOf(lk', l) # {}
        BY <2>2, <2>4, <2>6, <3>1, UsersFinite, FS_EmptySet
      <4> QED
        BY <2>5, <2>8, <4>1 DEF TableInv
    <3>2. CASE refs[l] = 1
      <4>1. \A k \in Keys : locks'[k] # None => locks'[k] # l
        BY <1>0, <1>4, <2>1, <2>2, <3>2 DEF Release, TableInv, LockType
      <4> QED
        BY <2>5, <2>8, <4>1 DEF TableInv
    <3> QED
      BY <3>1, <3>2
  <2> QED
    BY <2>7, <2>8, <2>9 DEF TableInv
<1>5. CASE UNCHANGED <<lk, locks, refs>>
  BY <1>5 DEF TableInv
<1> QED
  BY <1>2, <1>3, <1>4, <1>5 DEF Next, Step, Call, CtxEnds, LockTry, LockWait, LockGiveUp, Take,
     Write, Front, Unlock, Expire, vars

(* Two clients in their turn with one key are one client.                  *)
LEMMA OneTurn ==
    ASSUME IInv
    PROVE  \A c, d \in Clients : InTurn(c) /\ InTurn(d) /\ Key(c) = Key(d) => c = d
<1>1. \A c \in Clients : InTurn(c) => locks[Key(c)] = lk[c]
  BY DEF IInv, RefInv, InTurn, Turn
<1> QED
  BY <1>1 DEF IInv, FullInv

(* Every step keeps a taken lock with its one holder.                      *)
LEMMA FullStep == ASSUME IInv, [Next]_vars PROVE FullInv'
<1> USE DEF IInv, TypeOK, PcType, FullInv, InTurn, Key, Goto, lockVars, dataVars
<1>1. ASSUME NEW c \in Clients, Call(c) PROVE FullInv'
  BY <1>1 DEF Call, DataType
<1>2. ASSUME NEW c \in Clients, LockRef(c) PROVE FullInv'
  <2>1. CASE locks[Key(c)] # None
    BY <1>2, <2>1 DEF LockRef, LockType
  <2>2. CASE locks[Key(c)] = None
    <3>1. PICK l \in LockIds : Fresh(l) /\ lk' = [lk EXCEPT ![c] = l] /\ full' = full \ {l}
      BY <1>2, <2>2 DEF LockRef
    <3> QED
      BY <1>2, <3>1 DEF LockRef, LockType, Fresh
  <2> QED
    BY <2>1, <2>2
<1>3. ASSUME NEW c \in Clients, pc[c] \in {"try", "wait"}, Take(c) PROVE FullInv'
  <2>1. \A d \in Clients : InTurn(d) => lk[d] # lk[c]
    BY <1>3 DEF Take
  <2> QED
    BY <1>3, <2>1 DEF Take
<1>4. ASSUME NEW c \in Clients, Write(c) \/ Front(c) PROVE FullInv'
  <2>1. pc[c] \in {"write", "front"} /\ UNCHANGED <<op, lk, full>>
    BY <1>4 DEF Write, Front
  <2>2. \E q \in {"front", "unlock"} : pc' = [pc EXCEPT ![c] = q]
    BY <1>4 DEF Write, Front
  <2> QED
    BY <2>1, <2>2
<1>5. ASSUME NEW c \in Clients, Unlock(c) PROVE FullInv'
  <2>1. lk[c] # None => InTurn(c)
    BY <1>5 DEF Unlock, RefInv, Turn
  <2>2. UNCHANGED <<op, lk>> /\ \E q \in {"idle", "release"} : pc' = [pc EXCEPT ![c] = q]
    BY <1>5 DEF Unlock
  <2>3. \A d \in Clients : InTurn(d)' => d # c /\ InTurn(d) /\ lk[d] # None
    BY <2>2 DEF RefInv, Turn
  <2>4. full' = full \ {lk[c]} \/ full' = full
    BY <1>5 DEF Unlock
  <2>5. \A d \in Clients : InTurn(d)' => lk[d] # lk[c]
    BY <2>1, <2>3
  <2> QED
    BY <2>2, <2>3, <2>4, <2>5
<1>6. ASSUME NEW c \in Clients, Release(c) PROVE FullInv'
  BY <1>6 DEF Release, LockType
<1>7. ASSUME NEW c \in Clients, pc' = [pc EXCEPT ![c] = "wait"] \/ pc' = [pc EXCEPT ![c] = "release"],
             UNCHANGED <<op, lk, full>>
      PROVE FullInv'
  BY <1>7
<1>8. CASE UNCHANGED <<pc, op, lk, full>>
  BY <1>8
<1> QED
  BY <1>1, <1>2, <1>3, <1>4, <1>5, <1>6, <1>7, <1>8
     DEF Next, Step, CtxEnds, LockTry, LockWait, LockGiveUp, Expire, vars

(* Every step keeps the front in agreement with the backend.               *)
LEMMA AgreeStep == ASSUME IInv, [Next]_vars PROVE AgreeInv'
<1> USE DEF IInv, TypeOK, PcType, AgreeInv, InTurn, Key, Goto, Real, lockVars, dataVars
<1>0. \A c \in Clients : Key(c) \in Keys /\ op[c].val \in Values \cup {Absent}
  BY OpTypes
<1>1. ASSUME NEW c \in Clients, pc[c] # "front",
             \E q \in {"idle", "lock", "write", "try", "wait", "unlock", "release"} : pc' = [pc EXCEPT ![c] = q],
             UNCHANGED <<store, front, behind>>,
             \A d \in Clients \ {c} : op'[d] = op[d]
      PROVE AgreeInv'
  <2>1. \A d \in Clients : pc'[d] = "front" => pc[d] = "front" /\ op'[d] = op[d]
    BY <1>1
  <2>2. \A d \in Clients : pc[d] = "front" => pc'[d] = "front" /\ op'[d] = op[d]
    BY <1>1
  <2> QED
    BY <1>1, <2>1, <2>2
<1>2. ASSUME NEW c \in Clients, Write(c) PROVE AgreeInv'
  <2>1. \A d \in Clients : d # c /\ InTurn(c) /\ InTurn(d) => Key(d) # Key(c)
    BY OneTurn
  <2>2. UNCHANGED <<op, front>> /\ pc[c] = "write"
    BY <1>2 DEF Write
  <2>3. CASE /\ store' = [store EXCEPT ![Key(c)] = op[c].val]
             /\ pc' = [pc EXCEPT ![c] = "front"] /\ UNCHANGED behind
    <3>1. \A d \in Clients \ {c} : (pc[d] = "front" /\ InTurn(d))' =>
             (op[d].val = Absent /\ ~Deleter) \/ op[d].val = store'[Key(d)]
      BY <1>0, <2>1, <2>2, <2>3 DEF DataType
    <3>2. op[c].val = store'[Key(c)]
      BY <1>0, <2>3 DEF DataType
    <3>3. \A k \in Real : (\A d \in Clients : ~(pc[d] = "front" /\ Key(d) = k))' =>
             /\ k # Key(c) /\ store'[k] = store[k]
             /\ \A d \in Clients : ~(pc[d] = "front" /\ Key(d) = k)
      BY <1>0, <2>2, <2>3 DEF DataType
    <3>4. \A d \in Clients : (pc[d] = "front" /\ InTurn(d))' =>
             (op'[d].val = Absent /\ ~Deleter) \/ op'[d].val = store'[Key(d)']
      BY <2>2, <3>1, <3>2
    <3>5. \A k \in Real : (\A d \in Clients : ~(pc[d] = "front" /\ Key(d) = k))' =>
             k \in behind' \/ front'[k] \in {Absent, store'[k]}
      BY <2>2, <2>3, <3>3
    <3> QED
      BY <3>4, <3>5
  <2>4. CASE /\ store' = [store EXCEPT ![Key(c)] = op[c].val]
             /\ pc' = [pc EXCEPT ![c] = "unlock"] /\ behind' = behind \cup {Key(c)}
    <3>1. \A d \in Clients : (pc[d] = "front" /\ InTurn(d))' =>
             (op[d].val = Absent /\ ~Deleter) \/ op[d].val = store'[Key(d)]
      BY <1>0, <2>1, <2>2, <2>4 DEF DataType
    <3>3. \A k \in Real : (\A d \in Clients : ~(pc[d] = "front" /\ Key(d) = k))' =>
             k \in behind' \/ (store'[k] = store[k] /\ \A d \in Clients : ~(pc[d] = "front" /\ Key(d) = k))
      BY <1>0, <2>2, <2>4 DEF DataType
    <3> QED
      BY <2>2, <2>4, <3>1, <3>3
  <2>5. CASE pc' = [pc EXCEPT ![c] = "unlock"] /\ UNCHANGED <<store, behind>>
    BY <1>1, <2>2, <2>5
  <2>6. CASE /\ op[c].kind = "delete" /\ ~Deleter
             /\ pc' = [pc EXCEPT ![c] = "front"] /\ UNCHANGED <<store, behind>>
    <3>1. op[c].val = Absent
      BY <2>6 DEF DataType, Ops
    <3> QED
      BY <2>2, <2>6, <3>1
  <2> QED
    BY <1>2, <2>3, <2>4, <2>5, <2>6 DEF Write
<1>3. ASSUME NEW c \in Clients, Front(c) PROVE AgreeInv'
  <2>1. UNCHANGED <<op, store>> /\ pc[c] = "front" /\ pc' = [pc EXCEPT ![c] = "unlock"]
    BY <1>3 DEF Front
  <2>2. \A k \in Real \ {Key(c)} : front'[k] = front[k] /\ (k \in behind' <=> k \in behind)
    BY <1>0, <1>3 DEF Front, DataType
  <2>3. Key(c) \in Real => Key(c) \in behind' \/ front'[Key(c)] \in {Absent, store[Key(c)]}
    BY <1>0, <1>3 DEF Front, DataType
  <2>4. \A k \in Real \ {Key(c)} : (\A d \in Clients : ~(pc[d] = "front" /\ Key(d) = k))' =>
           \A d \in Clients : ~(pc[d] = "front" /\ Key(d) = k)
    BY <2>1
  <2> QED
    BY <2>1, <2>2, <2>3, <2>4
<1>4. ASSUME NEW k \in Keys, Expire(k) PROVE AgreeInv'
  BY <1>4 DEF Expire, DataType
<1>5. CASE UNCHANGED <<pc, op, store, front, behind>>
  BY <1>5
<1>6. ASSUME NEW c \in Clients, Call(c) PROVE AgreeInv'
  <2>1. \A d \in Clients \ {c} : op'[d] = op[d]
    BY <1>6 DEF Call, DataType
  <2> QED
    BY <1>1, <1>6, <2>1 DEF Call
<1>7. ASSUME NEW c \in Clients,
             LockRef(c) \/ LockTry(c) \/ LockWait(c) \/ LockGiveUp(c) \/ Unlock(c) \/ Release(c)
      PROVE AgreeInv'
  BY <1>1, <1>7 DEF LockRef, LockTry, LockWait, Take, LockGiveUp, Unlock, Release
<1> QED
  BY <1>2, <1>3, <1>4, <1>5, <1>6, <1>7 DEF Next, Step, CtxEnds, vars

(* The lock table, the locks and the front stay consistent for ever.       *)
THEOREM Invariance == Spec => []IInv
<1>1. IInv /\ [Next]_vars => IInv'
  BY TypeStep, RefStep, TableStep, FullStep, AgreeStep DEF IInv
<1> QED
  BY InitInv, <1>1, PTL DEF Spec

(* Every variable keeps its type; refs never falls below zero.             *)
THEOREM Typing == Spec => []TypeOK
<1>1. IInv => TypeOK
  BY DEF IInv
<1> QED
  BY Invariance, <1>1, PTL

(* SetContext and DeleteContext of one key exclude each other.             *)
THEOREM TurnsExclude == Spec => []Exclusion
<1>1. IInv => Exclusion
  BY OneTurn DEF Exclusion
<1> QED
  BY Invariance, <1>1, PTL

(* lock and release keep exactly the locks in use in the table.            *)
THEOREM TableIsExact == Spec => []LockTable
<1>1. IInv => LockTable
  BY DEF IInv, RefInv, TableInv, LockTable, Users, UsersOf
<1> QED
  BY Invariance, <1>1, PTL

(* A key nobody is writing agrees with the store unless a call failed.     *)
THEOREM FrontIsCurrent == Spec => []FrontAgrees
<1>1. IInv => FrontAgrees
  BY DEF IInv, AgreeInv, FrontAgrees, InTurn, Real
<1> QED
  BY Invariance, <1>1, PTL

(* Front and Expire are the only steps that change the front of a key; a   *)
(* client in Front has its turn, and the value it writes is the store's.   *)
THEOREM FrontTakesStored == Spec => FrontFollows
<1> DEFINE Follows == \A k \in Keys \ NaNs : front'[k] # front[k] =>
             front'[k] = Absent \/ (front'[k] = store[k] /\ \E c \in Clients : InTurn(c) /\ Key(c) = k)
<1>1. ASSUME IInv, NEW c \in Clients, Front(c) PROVE Follows
  <2>1. Key(c) \in Keys
    BY <1>1, OpTypes DEF IInv, TypeOK
  <2>2. \A k \in Keys : front'[k] # front[k] => k = Key(c) /\ front'[k] = op[c].val
    BY <1>1, <2>1 DEF Front, IInv, TypeOK, DataType
  <2>3. Key(c) \notin NaNs => InTurn(c)
    BY <1>1 DEF Front, InTurn
  <2> QED
    BY <1>1, <2>2, <2>3 DEF Front, IInv, AgreeInv
<1>2. ASSUME IInv, NEW k \in Keys, Expire(k) PROVE Follows
  BY <1>2 DEF Expire, IInv, TypeOK, DataType
<1>3. IInv /\ [Next]_vars => [Follows]_vars
  BY <1>1, <1>2 DEF Next, Step, Call, CtxEnds, LockRef, LockTry, LockWait, LockGiveUp, Take,
     Write, Unlock, Release, vars, lockVars, dataVars
<1> QED
  BY Invariance, <1>3, PTL DEF Spec, FrontFollows

----------------------------------------------------------------------------
(* The refinement mapping, part by part.                                   *)
HeldOf == [c \in Clients |-> IF InTurn(c) THEN Key(c) ELSE None]
StoreOf == [k \in Real |-> store[k]]
FrontOf == [k \in Real |-> front[k]]

(* A step that changes neither the turns nor the two maps is a stutter.    *)
LEMMA MapsStutter ==
    ASSUME HeldOf' = HeldOf, StoreOf' = StoreOf, FrontOf' = FrontOf
    PROVE  [Abstract!AbsNext]_(Abstract!absVars)
BY DEF HeldOf, StoreOf, FrontOf, Abstract!absVars

(* What each step of a client does to the turns.                           *)
LEMMA HeldStep ==
    ASSUME IInv, NEW c \in Clients, NEW q, pc' = [pc EXCEPT ![c] = q],
           \A d \in Clients \ {c} : op'[d] = op[d]
    PROVE  HeldOf' = [HeldOf EXCEPT ![c] = HeldOf'[c]]
BY DEF HeldOf, InTurn, Key, IInv, TypeOK, PcType

(* lock, the writer and the front calls, and unlock are a turn of          *)
(* KeyedStore: taking it, storing, following and yielding.                 *)
LEMMA StepRefines == ASSUME IInv, [Next]_vars PROVE [Abstract!AbsNext]_(Abstract!absVars)
<1> USE DEF IInv, TypeOK, PcType, Goto, lockVars, dataVars
<1>0. \A c \in Clients : Key(c) \in Keys /\ op[c].val \in Values \cup {Absent}
  BY OpTypes
<1>1. UNCHANGED store => StoreOf' = StoreOf
  BY DEF StoreOf
<1>2. UNCHANGED front => FrontOf' = FrontOf
  BY DEF FrontOf
<1>3. ASSUME NEW c \in Clients, HeldOf'[c] = HeldOf[c],
             \E q : pc' = [pc EXCEPT ![c] = q], \A d \in Clients \ {c} : op'[d] = op[d]
      PROVE HeldOf' = HeldOf
  BY <1>3, HeldStep DEF HeldOf
<1>4. ASSUME NEW c \in Clients, Call(c) PROVE [Abstract!AbsNext]_(Abstract!absVars)
  <2>1. \A d \in Clients \ {c} : op'[d] = op[d]
    BY <1>4 DEF Call, DataType
  <2>2. HeldOf'[c] = HeldOf[c]
    BY <1>4 DEF Call, HeldOf, InTurn, Key, DataType
  <2> QED
    BY <1>1, <1>2, <1>3, <1>4, <2>1, <2>2, MapsStutter DEF Call
<1>5. ASSUME NEW c \in Clients, pc[c] \in {"try", "wait"}, Take(c)
      PROVE [Abstract!AbsNext]_(Abstract!absVars)
  <2>1. Key(c) \in Real /\ Key(c) # None
    BY <1>0, <1>5, WriteThroughAssumption DEF RefInv, Real
  <2>2. HeldOf[c] = None /\ HeldOf'[c] = Key(c)
    BY <1>5, <2>1 DEF HeldOf, InTurn, Take, Key, Real
  <2>3. HeldOf' = [HeldOf EXCEPT ![c] = Key(c)]
    BY <1>5, <2>2, HeldStep DEF Take
  <2>4. \A d \in Clients : HeldOf[d] # Key(c)
    <3>1. lk[c] \notin full /\ locks[Key(c)] = lk[c]
      BY <1>5 DEF Take, RefInv
    <3>2. \A d \in Clients : InTurn(d) => lk[d] \in full /\ locks[Key(d)] = lk[d]
      BY DEF FullInv, RefInv, InTurn, Turn
    <3> QED
      BY <2>1, <3>1, <3>2 DEF HeldOf
  <2>5. PICK k \in Real : k = Key(c)
    BY <2>1
  <2>6. Abstract!Acquire(c, k)
    BY <1>1, <1>2, <1>5, <2>2, <2>3, <2>4, <2>5 DEF Abstract!Acquire, HeldOf, StoreOf, FrontOf, Take
  <2> QED
    BY <2>6 DEF Abstract!AbsNext
<1>6. ASSUME NEW c \in Clients, Write(c) PROVE [Abstract!AbsNext]_(Abstract!absVars)
  <2>1. UNCHANGED <<op, front>> /\ pc[c] = "write"
        /\ \E q \in {"front", "unlock"} : pc' = [pc EXCEPT ![c] = q]
    BY <1>6 DEF Write
  <2>2. HeldOf'[c] = HeldOf[c]
    BY <2>1 DEF HeldOf, InTurn, Key
  <2>3. HeldOf' = HeldOf
    BY <1>3, <2>1, <2>2
  <2>4. CASE UNCHANGED store
    BY <1>1, <1>2, <2>1, <2>3, <2>4, MapsStutter
  <2>5. CASE store' = [store EXCEPT ![Key(c)] = op[c].val] /\ Key(c) \in NaNs
    <3>1. StoreOf' = StoreOf
      BY <2>5 DEF StoreOf, Real, DataType
    <3> QED
      BY <1>2, <2>1, <2>3, <3>1, MapsStutter
  <2>6. CASE store' = [store EXCEPT ![Key(c)] = op[c].val] /\ Key(c) \notin NaNs
    <3>1. HeldOf[c] = Key(c) /\ Key(c) # None
      BY <1>0, <2>1, <2>6, WriteThroughAssumption DEF HeldOf, InTurn
    <3>2. StoreOf' = [StoreOf EXCEPT ![HeldOf[c]] = op[c].val]
      BY <1>0, <2>6, <3>1 DEF StoreOf, Real, DataType
    <3>3. Abstract!StoreTurn(c)
      BY <1>0, <1>2, <2>1, <2>3, <3>1, <3>2 DEF Abstract!StoreTurn, HeldOf, StoreOf, FrontOf
    <3> QED
      BY <3>3 DEF Abstract!AbsNext
  <2> QED
    BY <1>6, <2>4, <2>5, <2>6 DEF Write
<1>7. ASSUME NEW c \in Clients, Front(c) PROVE [Abstract!AbsNext]_(Abstract!absVars)
  <2>1. UNCHANGED <<op, store>> /\ pc[c] = "front" /\ pc' = [pc EXCEPT ![c] = "unlock"]
    BY <1>7 DEF Front
  <2>2. HeldOf'[c] = HeldOf[c]
    BY <2>1 DEF HeldOf, InTurn, Key
  <2>3. HeldOf' = HeldOf
    BY <1>3, <2>1, <2>2
  <2>4. CASE UNCHANGED front
    BY <1>1, <1>2, <2>1, <2>3, <2>4, MapsStutter
  <2>5. CASE front' = [front EXCEPT ![Key(c)] = op[c].val] /\ Key(c) \in NaNs
    <3>1. FrontOf' = FrontOf
      BY <2>5 DEF FrontOf, Real, DataType
    <3> QED
      BY <1>1, <2>1, <2>3, <3>1, MapsStutter
  <2>6. CASE front' = [front EXCEPT ![Key(c)] = op[c].val] /\ Key(c) \notin NaNs
    <3>1. HeldOf[c] = Key(c) /\ Key(c) # None /\ Key(c) \in Real
      BY <1>0, <2>1, <2>6, WriteThroughAssumption DEF HeldOf, InTurn, Real
    <3>2. FrontOf' = [FrontOf EXCEPT ![Key(c)] = op[c].val]
      BY <1>0, <2>6, <3>1 DEF FrontOf, Real, DataType
    <3>3. CASE op[c].val = store[Key(c)]
      <4>1. FrontOf' = [FrontOf EXCEPT ![HeldOf[c]] = StoreOf[HeldOf[c]]]
        BY <3>1, <3>2, <3>3 DEF StoreOf
      <4>2. Abstract!FrontTurn(c)
        BY <1>1, <2>1, <2>3, <3>1, <4>1 DEF Abstract!FrontTurn, HeldOf, StoreOf, FrontOf
      <4> QED
        BY <4>2 DEF Abstract!AbsNext
    <3>4. CASE op[c].val = Absent
      <4>1. PICK k \in Real : k = Key(c)
        BY <3>1
      <4>2. Abstract!Drop(k)
        BY <1>1, <2>1, <2>3, <3>2, <3>4, <4>1 DEF Abstract!Drop, HeldOf, StoreOf, FrontOf
      <4> QED
        BY <4>2 DEF Abstract!AbsNext
    <3> QED
      BY <2>1, <2>6, <3>3, <3>4 DEF AgreeInv, InTurn
  <2> QED
    BY <1>7, <2>4, <2>5, <2>6 DEF Front
<1>8. ASSUME NEW c \in Clients, Unlock(c) PROVE [Abstract!AbsNext]_(Abstract!absVars)
  <2>1. UNCHANGED <<op, store, front>> /\ pc[c] = "unlock"
        /\ \E q \in {"idle", "release"} : pc' = [pc EXCEPT ![c] = q]
    BY <1>8 DEF Unlock
  <2>2. HeldOf'[c] = None
    BY <2>1 DEF HeldOf, InTurn
  <2>3. HeldOf' = [HeldOf EXCEPT ![c] = None]
    BY <2>1, <2>2, HeldStep
  <2>4. CASE HeldOf[c] = None
    BY <1>1, <1>2, <1>3, <2>1, <2>2, <2>4, MapsStutter
  <2>5. CASE HeldOf[c] # None
    <3>1. Abstract!Yield(c)
      BY <1>1, <1>2, <2>1, <2>3, <2>5 DEF Abstract!Yield, HeldOf, StoreOf, FrontOf
    <3> QED
      BY <3>1 DEF Abstract!AbsNext
  <2> QED
    BY <2>4, <2>5
<1>9. ASSUME NEW k \in Keys, Expire(k) PROVE [Abstract!AbsNext]_(Abstract!absVars)
  <2>1. HeldOf' = HeldOf /\ StoreOf' = StoreOf
    BY <1>9 DEF Expire, HeldOf, StoreOf, InTurn, Key
  <2>2. CASE k \in NaNs
    <3>1. FrontOf' = FrontOf
      BY <1>9, <2>2 DEF Expire, FrontOf, Real, DataType
    <3> QED
      BY <2>1, <3>1, MapsStutter
  <2>3. CASE k \in Real
    <3>1. FrontOf' = [FrontOf EXCEPT ![k] = Absent]
      BY <1>9, <2>3 DEF Expire, FrontOf, Real, DataType
    <3>2. Abstract!Drop(k)
      BY <2>1, <3>1 DEF Abstract!Drop, HeldOf, StoreOf, FrontOf
    <3> QED
      BY <2>3, <3>2 DEF Abstract!AbsNext
  <2> QED
    BY <2>2, <2>3 DEF Real
<1>10. ASSUME NEW c \in Clients, pc[c] \in {"lock", "try", "wait", "release"},
              \E q \in {"idle", "lock", "try", "wait", "release"} : pc' = [pc EXCEPT ![c] = q],
              UNCHANGED <<op, store, front>>
       PROVE [Abstract!AbsNext]_(Abstract!absVars)
  <2>1. HeldOf'[c] = HeldOf[c]
    BY <1>10 DEF HeldOf, InTurn
  <2> QED
    BY <1>1, <1>2, <1>3, <1>10, <2>1, MapsStutter
<1>11. ASSUME NEW c \in Clients, LockRef(c) \/ LockGiveUp(c) \/ Release(c)
       PROVE [Abstract!AbsNext]_(Abstract!absVars)
  BY <1>10, <1>11 DEF LockRef, LockGiveUp, Release
<1>12. ASSUME NEW c \in Clients, LockTry(c) \/ LockWait(c)
       PROVE [Abstract!AbsNext]_(Abstract!absVars)
  BY <1>5, <1>10, <1>12 DEF LockTry, LockWait
<1>13. CASE UNCHANGED <<pc, op, store, front>>
  <2>1. HeldOf' = HeldOf
    BY <1>13 DEF HeldOf, InTurn, Key
  <2> QED
    BY <1>1, <1>2, <1>13, <2>1, MapsStutter
<1> QED
  BY <1>4, <1>6, <1>7, <1>8, <1>9, <1>11, <1>12, <1>13 DEF Next, Step, CtxEnds, vars

(* WriteThrough implements KeyedStore.                                     *)
THEOREM Implements == Spec => Refines
<1>1. Init => Abstract!AbsInit
  BY DEF Init, Abstract!AbsInit, InTurn, Real
<1>2. IInv /\ [Next]_vars => [Abstract!AbsNext]_(Abstract!absVars)
  BY StepRefines
<1> QED
  BY Invariance, <1>1, <1>2, PTL DEF Spec, Refines, Abstract!AbsSpec
=============================================================================
