------------------------- MODULE ReadThroughProofs --------------------------
(***************************************************************************)
(* Proofs about cache.ReadThrough and its flightGroup, for any number of   *)
(* callers and keys, with and without single flight.                       *)
(***************************************************************************)
EXTENDS ReadThrough, TLAPS

(* Who refers to a call object.                                            *)
RefInv ==
    \A c \in Callers :
        /\ pc[c] \in {"idle", "get", "do"} => cl[c] = None
        /\ pc[c] \in {"do", "wait", "lead", "drop", "close"} => SingleFlight
        /\ pc[c] \in {"wait", "lead", "drop", "close"} => cl[c] # None
        /\ pc[c] \in {"load", "put"} => (cl[c] # None <=> SingleFlight)

InMap(c) == Leading(c) /\ pc[c] # "close" /\ key[c] \notin NaNs

(* A call has one leader, which keeps it in the map until it drops it and  *)
(* then closes it; a waiter's call has a leader of its key until then.     *)
LeadInv ==
    /\ \A c \in Callers : InMap(c) => flights[key[c]] = cl[c]
    /\ \A k \in Keys : flights[k] # None =>
         \E c \in Callers : InMap(c) /\ key[c] = k /\ cl[c] = flights[k]
    /\ \A k \in NaNs : flights[k] = None
    /\ \A c, d \in Callers : Leading(c) /\ Leading(d) /\ cl[c] = cl[d] => c = d
    /\ \A c \in Callers : Leading(c) => cl[c] \notin done
    /\ \A c \in Callers : pc[c] = "wait" /\ cl[c] \notin done =>
         \E d \in Callers : Leading(d) /\ key[d] = key[c] /\ cl[d] = cl[c]

(* r is fit to be an answer to a call for key k whose context has ended if *)
(* e holds.                                                                *)
Fit(r, k, e) == (r.err = "nil" => r.val = k) /\ (r.err = "ctx" => e)

(* Results are fit: the local one of a caller, and the shared one from the *)
(* moment lead stores it.                                                  *)
ResultInv ==
    /\ \A c \in Callers : pc[c] \in {"idle", "put", "lead", "drop", "close"} =>
         Fit(ret[c], key[c], c \in ctxDone)
    /\ \A c \in Callers : pc[c] \in {"drop", "close"} => Fit(res[cl[c]], key[c], cl[c] \in abandoned)
    /\ \A c \in Callers : pc[c] = "wait" /\ cl[c] \in done =>
         Fit(res[cl[c]], key[c], cl[c] \in abandoned)

IInv == TypeOK /\ RefInv /\ LeadInv /\ ResultInv

----------------------------------------------------------------------------
(* The type of the results that the actions store.                         *)
LEMMA ResultTypes ==
    /\ \A k \in Keys : Ok(k) \in Results
    /\ \A e \in Errors : Err(e) \in Results
BY DEF Ok, Err, Results, Errors

(* The inductive invariant holds initially.                                *)
LEMMA InitInv == Init => IInv
<1> SUFFICES ASSUME Init PROVE IInv
  OBVIOUS
<1>1. Err("miss") \in Results /\ Err("nil") \in Results
  BY ResultTypes DEF Errors
<1>2. TypeOK
  BY <1>1 DEF Init, TypeOK, CallerType, FlightType, DataType
<1>3. RefInv
  BY DEF Init, RefInv
<1>4. LeadInv
  BY ReadThroughAssumption DEF Init, LeadInv, InMap, Leading
<1>5. ResultInv
  BY DEF Init, ResultInv, Fit, Err
<1> QED
  BY <1>2, <1>3, <1>4, <1>5 DEF IInv

(* Every step keeps the types.                                             *)
LEMMA TypeStep == ASSUME IInv, [Next]_vars PROVE TypeOK'
<1> USE DEF IInv, TypeOK, flightVars, dataVars, Goto, Result
<1>0. \A c \in Callers : /\ Ok(key[c]) \in Results
                         /\ \A e \in {"nil", "miss", "fail", "ctx", "unwound"} : Err(e) \in Results
  BY ResultTypes DEF CallerType, Errors
<1>1. ASSUME NEW c \in Callers, Call(c) \/ CtxEnds(c) PROVE TypeOK'
  BY <1>0, <1>1 DEF Call, CtxEnds, CallerType, FlightType, DataType
<1>2. ASSUME NEW c \in Callers, Get(c) PROVE TypeOK'
  <2>1. \A e \in Failures(c) : Err(e) \in Results
    BY <1>0 DEF Failures
  <2> QED
    BY <1>0, <1>2, <2>1 DEF Get, CallerType, FlightType, DataType
<1>3. ASSUME NEW c \in Callers, Do(c) PROVE TypeOK'
  BY <1>0, <1>3 DEF Do, CallerType, FlightType, DataType
<1>4. ASSUME NEW c \in Callers, Wake(c) \/ GiveUp(c) PROVE TypeOK'
  <2>1. cl[c] \in done => res[cl[c]] \in Results
    BY DEF FlightType
  <2> QED
    BY <1>0, <1>4, <2>1 DEF Wake, GiveUp, CallerType, FlightType, DataType
<1>5. ASSUME NEW c \in Callers, Load(c) PROVE TypeOK'
  <2>1. \A e \in Failures(c) \cup {"unwound"} : Err(e) \in Results
    BY <1>0 DEF Failures
  <2>2. After \in {"lead", "idle"}
    BY DEF After
  <2> QED
    BY <1>0, <1>5, <2>1, <2>2 DEF Load, CallerType, FlightType, DataType
<1>6. ASSUME NEW c \in Callers, Put(c) PROVE TypeOK'
  <2>1. After \in {"lead", "idle"}
    BY DEF After
  <2> QED
    BY <1>0, <1>6, <2>1 DEF Put, CallerType, FlightType, DataType
<1>7. ASSUME NEW c \in Callers, Lead(c) \/ Drop(c) \/ Close(c) PROVE TypeOK'
  <2>1. cl[c] \in CallIds
    BY <1>7 DEF Lead, Drop, Close, RefInv, CallerType
  <2> QED
    BY <1>7, <2>1 DEF Lead, Drop, Close, CallerType, FlightType, DataType
<1>8. ASSUME NEW k \in Keys, SetFront(k) \/ SetSource(k) PROVE TypeOK'
  BY <1>8 DEF SetFront, SetSource, CallerType, FlightType, DataType
<1>9. CASE UNCHANGED vars
  BY <1>9 DEF vars, CallerType, FlightType, DataType
<1> QED
  BY <1>1, <1>2, <1>3, <1>4, <1>5, <1>6, <1>7, <1>8, <1>9 DEF Next, Step

(* Every step keeps the references of the callers to their calls.          *)
LEMMA RefStep == ASSUME IInv, [Next]_vars PROVE RefInv'
<1> USE DEF IInv, TypeOK, CallerType, RefInv, flightVars, dataVars, Goto
<1>1. ASSUME NEW c \in Callers, Call(c) \/ Get(c) PROVE RefInv'
  BY <1>1 DEF Call, Get
<1>2. ASSUME NEW c \in Callers, Do(c) PROVE RefInv'
  BY <1>2, ReadThroughAssumption DEF Do
<1>3. ASSUME NEW c \in Callers, Wake(c) \/ GiveUp(c) PROVE RefInv'
  BY <1>3 DEF Wake, GiveUp
<1>4. ASSUME NEW c \in Callers, Load(c) \/ Put(c) PROVE RefInv'
  BY <1>4 DEF Load, Put, After
<1>5. ASSUME NEW c \in Callers, Lead(c) \/ Drop(c) \/ Close(c) PROVE RefInv'
  BY <1>5 DEF Lead, Drop, Close
<1>6. CASE UNCHANGED <<pc, cl>>
  BY <1>6
<1> QED
  BY <1>1, <1>2, <1>3, <1>4, <1>5, <1>6 DEF Next, Step, CtxEnds, SetFront, SetSource, vars

(* A step that leaves the leaders, the waiters, the map and the closed     *)
(* calls alone leaves their invariant alone.                               *)
LEMMA LeadSame ==
    ASSUME IInv, UNCHANGED <<flights, done>>,
           \A c \in Callers : /\ Leading(c)' <=> Leading(c)
                              /\ InMap(c)' <=> InMap(c)
                              /\ Leading(c) => cl'[c] = cl[c] /\ key'[c] = key[c]
                              /\ pc'[c] = "wait" => pc[c] = "wait" /\ cl'[c] = cl[c] /\ key'[c] = key[c]
    PROVE  LeadInv'
<1>1. \A c \in Callers : InMap(c) => Leading(c)
  BY DEF InMap
<1> QED
  BY <1>1 DEF IInv, LeadInv

(* Every step keeps the calls of the map and of the waiters led.           *)
LEMMA LeadStep == ASSUME IInv, [Next]_vars PROVE LeadInv'
<1> USE DEF IInv, TypeOK, flightVars, dataVars, Goto, Leading, InMap
<1>1. ASSUME NEW c \in Callers, Call(c) \/ Get(c) PROVE LeadInv'
  <2>1. cl[c] = None /\ cl' = cl /\ UNCHANGED <<flights, done>> /\ pc[c] \in {"idle", "get"}
    BY <1>1 DEF Call, Get, RefInv
  <2>2. \A d \in Callers \ {c} : pc'[d] = pc[d] /\ key'[d] = key[d]
    BY <1>1 DEF Call, Get, CallerType
  <2>3. SingleFlight => pc'[c] \in {"idle", "get", "do"}
    BY <1>1 DEF Call, Get, CallerType
  <2>4. ~Leading(c) /\ ~Leading(c)' /\ pc'[c] # "wait"
    BY <1>1, <2>1 DEF Call, Get, CallerType
  <2> QED
    BY <2>1, <2>2, <2>4, LeadSame
<1>2. ASSUME NEW c \in Callers, Do(c), flights[key[c]] # None PROVE LeadInv'
  <2>1. cl[c] = None /\ pc[c] = "do" /\ UNCHANGED <<key, flights, done>>
    BY <1>2 DEF Do, RefInv
  <2>2. PICK l \in CallIds : l = flights[key[c]]
    BY <1>2 DEF FlightType, CallerType
  <2>3. cl' = [cl EXCEPT ![c] = l] /\ pc' = [pc EXCEPT ![c] = "wait"]
    BY <1>2, <2>2 DEF Do
  <2>4. PICK d \in Callers : InMap(d) /\ key[d] = key[c] /\ cl[d] = l
    BY <1>2, <2>2 DEF LeadInv, CallerType
  <2>5. \A e \in Callers : /\ Leading(e)' <=> Leading(e)
                           /\ InMap(e)' <=> InMap(e)
                           /\ Leading(e) => e # c
                           /\ e # c => cl'[e] = cl[e] /\ pc'[e] = pc[e]
    BY <2>1, <2>3 DEF CallerType
  <2>6. Leading(d)' /\ key'[d] = key'[c] /\ cl'[d] = cl'[c]
    BY <2>1, <2>3, <2>4, <2>5 DEF CallerType
  <2>7. \A e \in Callers \ {c} : pc[e] = "wait" /\ cl[e] \notin done =>
           \E f \in Callers : Leading(f)' /\ key[f] = key[e] /\ cl'[f] = cl[e]
    BY <2>5 DEF LeadInv
  <2>8. (\A e \in Callers : pc[e] = "wait" /\ cl[e] \notin done =>
           \E f \in Callers : Leading(f) /\ key[f] = key[e] /\ cl[f] = cl[e])'
    BY <2>1, <2>5, <2>6, <2>7
  <2>9. \A k \in Keys : flights[k] # None =>
           \E f \in Callers : InMap(f)' /\ key[f] = k /\ cl'[f] = flights[k]
    BY <2>5 DEF LeadInv
  <2>10. /\ \A e \in Callers : InMap(e)' => flights[key[e]] = cl'[e]
         /\ \A e, f \in Callers : Leading(e)' /\ Leading(f)' /\ cl'[e] = cl'[f] => e = f
         /\ \A e \in Callers : Leading(e)' => cl'[e] \notin done
    BY <2>5 DEF LeadInv
  <2> QED
    BY <2>1, <2>8, <2>9, <2>10 DEF LeadInv
<1>3. ASSUME NEW c \in Callers, Do(c), flights[key[c]] = None PROVE LeadInv'
  <2>1. PICK l \in CallIds :
           /\ Fresh(l)
           /\ cl' = [cl EXCEPT ![c] = l]
           /\ flights' = IF key[c] \in NaNs THEN flights ELSE [flights EXCEPT ![key[c]] = l]
           /\ done' = done \ {l}
    BY <1>3 DEF Do
  <2>2. pc' = [pc EXCEPT ![c] = "load"] /\ key' = key /\ pc[c] = "do" /\ l # None /\ key[c] \in Keys
    BY <1>3, ReadThroughAssumption DEF Do, CallerType
  <2>3. \A e \in Callers \ {c} : /\ cl'[e] = cl[e] /\ pc'[e] = pc[e] /\ cl[e] # l
                                 /\ Leading(e)' <=> Leading(e)
                                 /\ InMap(e)' <=> InMap(e)
    BY <2>1, <2>2 DEF Fresh, CallerType
  <2>4. Leading(c)' /\ ~Leading(c) /\ cl'[c] = l /\ (InMap(c)' <=> key[c] \notin NaNs)
    BY <2>1, <2>2 DEF CallerType
  <2>5. \A k \in Keys : flights'[k] = IF k = key[c] /\ k \notin NaNs THEN l ELSE flights[k]
    BY <2>1, <2>2 DEF FlightType
  <2>6. \A e \in Callers \ {c} : InMap(e) => key[e] # key[c]
    BY <1>3 DEF LeadInv
  <2>7. \A e \in Callers : InMap(e)' => flights'[key[e]] = cl'[e]
    BY <2>3, <2>4, <2>5, <2>6 DEF LeadInv, CallerType
  <2>8. \A k \in Keys : flights'[k] # None =>
           \E e \in Callers : InMap(e)' /\ key[e] = k /\ cl'[e] = flights'[k]
    <3> TAKE k \in Keys
    <3>1. CASE k = key[c] /\ k \notin NaNs
      BY <2>4, <2>5, <3>1
    <3>2. CASE ~(k = key[c] /\ k \notin NaNs)
      <4> HAVE flights'[k] # None
      <4>1. PICK e \in Callers : InMap(e) /\ key[e] = k /\ cl[e] = flights[k]
        BY <2>5, <3>2 DEF LeadInv
      <4>2. e # c
        BY <2>4, <4>1
      <4> QED
        BY <2>3, <2>5, <3>2, <4>1, <4>2
    <3> QED
      BY <3>1, <3>2
  <2>9. \A e, f \in Callers : Leading(e)' /\ Leading(f)' /\ cl'[e] = cl'[f] => e = f
    BY <2>3, <2>4 DEF LeadInv
  <2>10. \A e \in Callers : Leading(e)' => cl'[e] \notin done'
    BY <2>1, <2>3, <2>4 DEF LeadInv
  <2>11. \A e \in Callers : pc'[e] = "wait" /\ cl'[e] \notin done' =>
            \E f \in Callers : Leading(f)' /\ key[f] = key[e] /\ cl'[f] = cl'[e]
    <3> TAKE e \in Callers
    <3> HAVE pc'[e] = "wait" /\ cl'[e] \notin done'
    <3>1. e # c /\ pc[e] = "wait" /\ cl[e] \notin done /\ cl'[e] = cl[e]
      BY <2>1, <2>2, <2>3 DEF CallerType
    <3>2. PICK f \in Callers : Leading(f) /\ key[f] = key[e] /\ cl[f] = cl[e]
      BY <3>1 DEF LeadInv
    <3>3. f # c
      BY <2>4, <3>2
    <3> QED
      BY <2>3, <3>1, <3>2, <3>3
  <2>12. \A k \in NaNs : flights'[k] = None
    BY <2>5, ReadThroughAssumption DEF LeadInv
  <2> QED
    BY <2>2, <2>7, <2>8, <2>9, <2>10, <2>11, <2>12 DEF LeadInv
<1>4. ASSUME NEW c \in Callers, Wake(c) \/ GiveUp(c) PROVE LeadInv'
  <2>1. /\ pc[c] = "wait" /\ UNCHANGED <<key, flights, done>> /\ cl' = [cl EXCEPT ![c] = None]
        /\ \E q \in {"idle", "do"} : pc' = [pc EXCEPT ![c] = q]
    BY <1>4 DEF Wake, GiveUp
  <2> QED
    BY <2>1, LeadSame DEF CallerType
<1>5. ASSUME NEW c \in Callers, Load(c) \/ Put(c) \/ Lead(c) PROVE LeadInv'
  <2>1. /\ UNCHANGED <<key, flights, done, cl>> /\ pc[c] \in {"load", "put", "lead"}
        /\ \E q \in {"put", "lead", "idle", "drop"} : pc' = [pc EXCEPT ![c] = q] /\ (q = "idle" => ~SingleFlight)
    BY <1>5 DEF Load, Put, Lead, After
  <2>2. ~SingleFlight => cl[c] = None
    BY <2>1 DEF RefInv
  <2>3. (Leading(c)' <=> Leading(c)) /\ (InMap(c)' <=> InMap(c)) /\ pc'[c] # "wait"
    BY <2>1, <2>2 DEF CallerType
  <2> QED
    BY <2>1, <2>3, LeadSame DEF CallerType
<1>6. ASSUME NEW c \in Callers, Drop(c) PROVE LeadInv'
  <2>1. /\ UNCHANGED <<key, done, cl>> /\ pc[c] = "drop" /\ pc' = [pc EXCEPT ![c] = "close"]
        /\ flights' = [flights EXCEPT ![key[c]] = None] /\ key[c] \in Keys
    BY <1>6 DEF Drop, CallerType
  <2>2. Leading(c) /\ (key[c] \notin NaNs => InMap(c))
    BY <2>1 DEF RefInv
  <2>3. \A e \in Callers : (Leading(e)' <=> Leading(e)) /\ (InMap(e)' <=> InMap(e) /\ e # c)
    BY <2>1, <2>2 DEF CallerType
  <2>4. \A e \in Callers : InMap(e) /\ key[e] = key[c] => e = c
    BY <2>2 DEF LeadInv
  <2>5. \A k \in Keys : flights'[k] = IF k = key[c] THEN None ELSE flights[k]
    BY <2>1 DEF FlightType
  <2>6. \A e \in Callers : InMap(e)' => flights'[key[e]] = cl[e]
    BY <2>3, <2>4, <2>5 DEF LeadInv, CallerType
  <2>7. \A k \in Keys : flights'[k] # None =>
           \E e \in Callers : InMap(e)' /\ key[e] = k /\ cl[e] = flights'[k]
    BY <2>3, <2>5 DEF LeadInv
  <2>8. \A e \in Callers : pc'[e] = "wait" => pc[e] = "wait"
    BY <2>1 DEF CallerType
  <2>9. \A e \in Callers : pc'[e] = "wait" /\ cl[e] \notin done =>
            \E f \in Callers : Leading(f)' /\ key[f] = key[e] /\ cl[f] = cl[e]
    BY <2>3, <2>8 DEF LeadInv
  <2>10. /\ \A k \in NaNs : flights'[k] = None
         /\ \A e, f \in Callers : Leading(e)' /\ Leading(f)' /\ cl[e] = cl[f] => e = f
         /\ \A e \in Callers : Leading(e)' => cl[e] \notin done
    BY <2>3, <2>5, ReadThroughAssumption DEF LeadInv
  <2> QED
    BY <2>1, <2>6, <2>7, <2>9, <2>10 DEF LeadInv
<1>7. ASSUME NEW c \in Callers, Close(c) PROVE LeadInv'
  <2>1. /\ UNCHANGED <<key, flights>> /\ pc[c] = "close" /\ pc' = [pc EXCEPT ![c] = "idle"]
        /\ done' = done \cup {cl[c]} /\ cl' = [cl EXCEPT ![c] = None]
    BY <1>7 DEF Close
  <2>2. Leading(c) /\ ~InMap(c) /\ ~Leading(c)'
    BY <2>1 DEF RefInv, CallerType
  <2>3. \A e \in Callers \ {c} : /\ Leading(e)' <=> Leading(e)
                                 /\ InMap(e)' <=> InMap(e)
                                 /\ cl'[e] = cl[e] /\ pc'[e] = pc[e]
    BY <2>1 DEF CallerType
  <2>4. \A e \in Callers \ {c} : Leading(e) => cl[e] # cl[c] /\ cl[e] \notin done
    BY <2>2 DEF LeadInv
  <2>5. \A e \in Callers : InMap(e)' => flights[key[e]] = cl'[e]
    BY <2>2, <2>3 DEF LeadInv
  <2>6. \A k \in Keys : flights[k] # None =>
           \E e \in Callers : InMap(e)' /\ key[e] = k /\ cl'[e] = flights[k]
    <3> TAKE k \in Keys
    <3> HAVE flights[k] # None
    <3>1. PICK e \in Callers : InMap(e) /\ key[e] = k /\ cl[e] = flights[k]
      BY DEF LeadInv
    <3> QED
      BY <2>2, <2>3, <3>1
  <2>7. \A e \in Callers : pc'[e] = "wait" /\ cl'[e] \notin done' =>
            \E f \in Callers : Leading(f)' /\ key[f] = key[e] /\ cl'[f] = cl'[e]
    <3> TAKE e \in Callers
    <3> HAVE pc'[e] = "wait" /\ cl'[e] \notin done'
    <3>1. e # c /\ pc[e] = "wait" /\ cl[e] \notin done /\ cl[e] # cl[c] /\ cl'[e] = cl[e]
      BY <2>1, <2>3 DEF CallerType
    <3>2. PICK f \in Callers : Leading(f) /\ key[f] = key[e] /\ cl[f] = cl[e]
      BY <3>1 DEF LeadInv
    <3> QED
      BY <2>3, <3>1, <3>2
  <2>8. /\ \A e, f \in Callers : Leading(e)' /\ Leading(f)' /\ cl'[e] = cl'[f] => e = f
        /\ \A e \in Callers : Leading(e)' => cl'[e] \notin done'
    BY <2>1, <2>2, <2>3, <2>4 DEF LeadInv
  <2>9. \A k \in NaNs : flights'[k] = None
    BY <2>1 DEF LeadInv
  <2> QED
    BY <2>1, <2>5, <2>6, <2>7, <2>8, <2>9 DEF LeadInv
<1>8. CASE UNCHANGED <<pc, key, cl, flights, done>>
  BY <1>8, LeadSame
<1> QED
  BY <1>1, <1>2, <1>3, <1>4, <1>5, <1>6, <1>7, <1>8 DEF Next, Step, CtxEnds, SetFront, SetSource, vars

(* A failure that carries a context's error has that context ended.        *)
LEMMA FailuresFit ==
    ASSUME NEW c, NEW k, NEW e \in Failures(c) \cup {"miss", "unwound"}
    PROVE  Fit(Err(e), k, c \in ctxDone)
BY DEF Failures, Fit, Err

(* A call that is done has no leader, so nobody stores into it any more.   *)
LEMMA ResultStep == ASSUME IInv, [Next]_vars PROVE ResultInv'
<1> USE DEF IInv, TypeOK, flightVars, dataVars, Goto, Result
<1>0. \A k, x : Fit(Ok(k), k, x)
  BY DEF Fit, Ok
<1>1. ASSUME NEW c \in Callers, Call(c) PROVE ResultInv'
  BY <1>1 DEF Call, ResultInv, CallerType
<1>2. ASSUME NEW c \in Callers, CtxEnds(c) PROVE ResultInv'
  BY <1>2 DEF CtxEnds, ResultInv, Fit
<1>3. ASSUME NEW c \in Callers, Get(c) PROVE ResultInv'
  <2>1. UNCHANGED <<key, ctxDone, cl, res, abandoned, done>>
    BY <1>3 DEF Get
  <2>2. \A d \in Callers \ {c} : pc'[d] = pc[d] /\ ret'[d] = ret[d]
    BY <1>3 DEF Get, CallerType
  <2>3. pc'[c] \in {"idle", "do", "load"} /\ (pc'[c] = "idle" => Fit(ret'[c], key[c], c \in ctxDone))
    BY <1>0, <1>3, FailuresFit DEF Get, CallerType
  <2> QED
    BY <2>1, <2>2, <2>3 DEF ResultInv
<1>4. ASSUME NEW c \in Callers, Do(c), flights[key[c]] # None PROVE ResultInv'
  <2>1. PICK d \in Callers : InMap(d) /\ cl[d] = flights[key[c]]
    BY <1>4 DEF LeadInv, CallerType
  <2>2. flights[key[c]] \notin done
    BY <2>1 DEF LeadInv, InMap
  <2>3. /\ UNCHANGED <<key, ctxDone, ret, res, abandoned, done>> /\ pc' = [pc EXCEPT ![c] = "wait"]
        /\ cl' = [cl EXCEPT ![c] = flights[key[c]]]
    BY <1>4 DEF Do
  <2> QED
    BY <2>2, <2>3 DEF ResultInv, CallerType
<1>5. ASSUME NEW c \in Callers, Do(c), flights[key[c]] = None PROVE ResultInv'
  <2>1. PICK l \in CallIds : /\ Fresh(l)
                             /\ cl' = [cl EXCEPT ![c] = l]
                             /\ res' = [res EXCEPT ![l] = Err("nil")]
                             /\ abandoned' = abandoned \ {l}
                             /\ done' = done \ {l}
    BY <1>5 DEF Do
  <2>2. UNCHANGED <<key, ctxDone, ret>> /\ pc' = [pc EXCEPT ![c] = "load"]
    BY <1>5 DEF Do
  <2>3. \A d \in Callers : pc'[d] \in {"idle", "put", "lead", "wait", "drop", "close"} => d # c
    BY <2>2 DEF CallerType
  <2>4. \A d \in Callers \ {c} : pc'[d] = pc[d] /\ cl'[d] = cl[d] /\ cl[d] # l
    BY <2>1, <2>2 DEF Fresh, CallerType
  <2>5. \A d \in Callers \ {c} : cl[d] \in CallIds =>
           /\ res'[cl[d]] = res[cl[d]]
           /\ (cl[d] \in abandoned' <=> cl[d] \in abandoned)
           /\ (cl[d] \in done' <=> cl[d] \in done)
    BY <2>1, <2>4 DEF FlightType
  <2>6. \A d \in Callers : pc[d] \in {"drop", "close", "wait"} => cl[d] \in CallIds
    BY DEF RefInv, CallerType
  <2>7. \A d \in Callers : pc'[d] \in {"idle", "put", "lead", "drop", "close"} =>
           Fit(ret[d], key[d], d \in ctxDone)
    BY <2>3, <2>4 DEF ResultInv
  <2>8. \A d \in Callers : pc'[d] \in {"drop", "close"} => Fit(res'[cl'[d]], key[d], cl'[d] \in abandoned')
    BY <2>3, <2>4, <2>5, <2>6 DEF ResultInv, Fit
  <2>9. \A d \in Callers : pc'[d] = "wait" /\ cl'[d] \in done' =>
           Fit(res'[cl'[d]], key[d], cl'[d] \in abandoned')
    BY <2>3, <2>4, <2>5, <2>6 DEF ResultInv, Fit
  <2> QED
    BY <2>2, <2>7, <2>8, <2>9 DEF ResultInv
<1>6. ASSUME NEW c \in Callers, Wake(c) \/ GiveUp(c) PROVE ResultInv'
  <2>1. /\ UNCHANGED <<key, ctxDone, res, abandoned, done>> /\ cl' = [cl EXCEPT ![c] = None]
        /\ pc[c] = "wait" /\ \E q \in {"idle", "do"} : pc' = [pc EXCEPT ![c] = q]
    BY <1>6 DEF Wake, GiveUp
  <2>2. \A d \in Callers \ {c} : pc'[d] = pc[d] /\ ret'[d] = ret[d] /\ cl'[d] = cl[d]
    BY <1>6, <2>1 DEF Wake, GiveUp, CallerType
  <2>3. c \in ctxDone => Fit(Err("ctx"), key[c], c \in ctxDone)
    BY DEF Fit, Err
  <2>4. cl[c] \in done /\ cl[c] \notin abandoned => Fit(res[cl[c]], key[c], c \in ctxDone)
    BY <2>1 DEF ResultInv, Fit
  <2>5. pc'[c] = "idle" => Fit(ret'[c], key[c], c \in ctxDone)
    BY <1>6, <2>3, <2>4 DEF Wake, GiveUp, CallerType
  <2> QED
    BY <2>1, <2>2, <2>5 DEF ResultInv, CallerType
<1>7. ASSUME NEW c \in Callers, Load(c) \/ Put(c) PROVE ResultInv'
  <2>1. UNCHANGED <<key, ctxDone, cl, res, abandoned, done>>
    BY <1>7 DEF Load, Put
  <2>2. \A d \in Callers \ {c} : pc'[d] = pc[d] /\ ret'[d] = ret[d]
    BY <1>7 DEF Load, Put, CallerType
  <2>3. pc'[c] \in {"put", "lead", "idle"}
    BY <1>7 DEF Load, Put, After, CallerType
  <2>4. Fit(ret'[c], key[c], c \in ctxDone)
    <3>1. CASE Load(c)
      BY <1>0, <3>1, FailuresFit DEF Load, CallerType
    <3>2. CASE Put(c)
      BY <3>2, FailuresFit DEF Put, ResultInv, CallerType
    <3> QED
      BY <1>7, <3>1, <3>2
  <2> QED
    BY <2>1, <2>2, <2>3, <2>4 DEF ResultInv
<1>8. ASSUME NEW c \in Callers, Lead(c) PROVE ResultInv'
  <2>1. /\ UNCHANGED <<key, ctxDone, ret, cl, done>> /\ pc[c] = "lead" /\ pc' = [pc EXCEPT ![c] = "drop"]
        /\ res' = [res EXCEPT ![cl[c]] = ret[c]]
        /\ abandoned' = IF ret[c].err \in {"miss", "fail", "ctx"} /\ c \in ctxDone
                          THEN abandoned \cup {cl[c]} ELSE abandoned
    BY <1>8 DEF Lead
  <2>2. Leading(c) /\ cl[c] \in CallIds /\ Fit(ret[c], key[c], c \in ctxDone)
    BY <2>1 DEF Leading, RefInv, ResultInv, CallerType
  <2>3. \A d \in Callers : pc'[d] # pc[d] => d = c
    BY <2>1 DEF CallerType
  <2>4. \A d \in Callers \ {c} : pc[d] \in {"drop", "close"} => cl[d] # cl[c]
    BY <2>2 DEF LeadInv, Leading, RefInv
  <2>5. \A d \in Callers : pc[d] = "wait" /\ cl[d] \in done => cl[d] # cl[c]
    BY <2>2 DEF LeadInv
  <2>6. \A l \in CallIds \ {cl[c]} : res'[l] = res[l] /\ (l \in abandoned' <=> l \in abandoned)
    BY <2>1 DEF FlightType
  <2>7. \A d \in Callers : pc[d] \in {"drop", "close", "wait"} => cl[d] \in CallIds
    BY DEF RefInv, CallerType
  <2>8. Fit(res'[cl[c]], key[c], cl[c] \in abandoned')
    BY <2>1, <2>2 DEF Fit, FlightType
  <2>9. \A d \in Callers : pc'[d] \in {"drop", "close"} => Fit(res'[cl[d]], key[d], cl[d] \in abandoned')
    BY <2>3, <2>4, <2>6, <2>7, <2>8 DEF ResultInv, Fit
  <2>10. \A d \in Callers : pc'[d] = "wait" /\ cl[d] \in done => Fit(res'[cl[d]], key[d], cl[d] \in abandoned')
    <3>1. \A d \in Callers : pc'[d] = "wait" => pc[d] = "wait"
      BY <2>1 DEF CallerType
    <3> QED
      BY <3>1, <2>5, <2>6, <2>7 DEF ResultInv, Fit
  <2>11. \A d \in Callers : pc'[d] \in {"idle", "put", "lead", "drop", "close"} =>
            Fit(ret[d], key[d], d \in ctxDone)
    BY <2>2, <2>3 DEF ResultInv
  <2> QED
    BY <2>1, <2>9, <2>10, <2>11 DEF ResultInv
<1>9. ASSUME NEW c \in Callers, Drop(c) PROVE ResultInv'
  BY <1>9 DEF Drop, ResultInv, CallerType
<1>10. ASSUME NEW c \in Callers, Close(c) PROVE ResultInv'
  <2>1. /\ UNCHANGED <<key, ctxDone, ret, res, abandoned>> /\ pc[c] = "close" /\ pc' = [pc EXCEPT ![c] = "idle"]
        /\ cl' = [cl EXCEPT ![c] = None] /\ done' = done \cup {cl[c]}
    BY <1>10 DEF Close
  <2>2. \A d \in Callers \ {c} : pc'[d] = pc[d] /\ cl'[d] = cl[d]
    BY <2>1 DEF CallerType
  <2>3. \A d \in Callers : pc[d] = "wait" /\ cl[d] = cl[c] => key[d] = key[c]
    <3>1. Leading(c)
      BY <2>1 DEF Leading, RefInv
    <3> QED
      BY <3>1 DEF LeadInv
  <2>4. Fit(res[cl[c]], key[c], cl[c] \in abandoned)
    BY <2>1 DEF ResultInv
  <2>5. \A d \in Callers : pc'[d] \in {"drop", "close", "wait"} => d # c
    BY <2>1 DEF CallerType
  <2>6. \A d \in Callers : pc'[d] = "wait" /\ cl'[d] \in done' =>
           Fit(res[cl'[d]], key[d], cl'[d] \in abandoned)
    BY <2>1, <2>2, <2>3, <2>4, <2>5 DEF ResultInv
  <2>7. /\ \A d \in Callers : pc'[d] \in {"drop", "close"} => Fit(res[cl'[d]], key[d], cl'[d] \in abandoned)
        /\ \A d \in Callers : pc'[d] \in {"idle", "put", "lead", "drop", "close"} =>
             Fit(ret[d], key[d], d \in ctxDone)
    BY <2>1, <2>2, <2>5 DEF ResultInv
  <2> QED
    BY <2>1, <2>6, <2>7 DEF ResultInv
<1>11. CASE UNCHANGED <<pc, key, ctxDone, ret, cl, res, abandoned, done>>
  BY <1>11 DEF ResultInv
<1> QED
  BY <1>1, <1>2, <1>3, <1>4, <1>5, <1>6, <1>7, <1>8, <1>9, <1>10, <1>11
     DEF Next, Step, SetFront, SetSource, vars

(* The flights, their leaders and their results stay consistent for ever.  *)
THEOREM Invariance == Spec => []IInv
<1>1. IInv /\ [Next]_vars => IInv'
  BY TypeStep, RefStep, LeadStep, ResultStep DEF IInv
<1> QED
  BY InitInv, <1>1, PTL DEF Spec

(* Every variable keeps its type.                                          *)
THEOREM Typing == Spec => []TypeOK
<1>1. IInv => TypeOK
  BY DEF IInv
<1> QED
  BY Invariance, <1>1, PTL

(* flightGroup runs at most one load of a key at a time.                   *)
THEOREM LoadsAreSingle == Spec => []SingleLoad
<1>1. ASSUME IInv PROVE SingleLoad
  <2>1. \A c \in Callers : Loading(c) => InMap(c)
    BY <1>1 DEF IInv, Loading, InMap, Leading, RefInv
  <2> QED
    BY <1>1, <2>1 DEF IInv, LeadInv, InMap, SingleLoad
<1> QED
  BY Invariance, <1>1, PTL

(* lead cleans up: no call is left in the map, or with waiters, without a  *)
(* leader that will finish it.                                             *)
THEOREM FlightsHaveLeaders == Spec => []NoOrphanFlight
<1>1. IInv => NoOrphanFlight
  BY DEF IInv, LeadInv, InMap, NoOrphanFlight
<1> QED
  BY Invariance, <1>1, PTL

(* GetContext never reports a zero value, or another key's, as a hit.      *)
THEOREM HitsAreReal == Spec => []HitIsReal
<1>1. IInv => HitIsReal
  BY DEF IInv, ResultInv, Fit, HitIsReal
<1> QED
  BY Invariance, <1>1, PTL

(* A waiter never inherits the context error of its leader.                *)
THEOREM ErrorsAreOwn == Spec => []OwnContextOnly
<1>1. IInv => OwnContextOnly
  BY DEF IInv, ResultInv, Fit, OwnContextOnly
<1> QED
  BY Invariance, <1>1, PTL

(* Once done is closed, the result that waiters read does not change.      *)
THEOREM ResultsAreFinal == Spec => ResultIsFinal
<1> DEFINE Final == \A c \in Callers : pc[c] = "wait" /\ cl[c] \in done =>
              /\ cl[c] \in done'
              /\ res'[cl[c]] = res[cl[c]]
              /\ cl[c] \in abandoned <=> cl[c] \in abandoned'
<1> USE DEF flightVars, dataVars
<1>1. ASSUME IInv, NEW c \in Callers, Do(c) PROVE Final
  BY <1>1 DEF Do, Fresh, IInv, TypeOK, FlightType
<1>2. ASSUME IInv, NEW c \in Callers, Lead(c) PROVE Final
  <2>1. cl[c] \notin done
    BY <1>2 DEF Lead, IInv, RefInv, LeadInv, Leading
  <2> QED
    BY <1>2, <2>1 DEF Lead, IInv, TypeOK, FlightType
<1>3. ASSUME IInv, NEW c \in Callers, Close(c) PROVE Final
  BY <1>3 DEF Close
<1>4. ASSUME UNCHANGED <<res, abandoned, done>> PROVE Final
  BY <1>4
<1>5. IInv /\ [Next]_vars => [Final]_vars
  BY <1>1, <1>2, <1>3, <1>4 DEF Next, Step, Call, CtxEnds, Get, Wake, GiveUp, Load, Put, Drop,
     SetFront, SetSource, vars
<1> QED
  BY Invariance, <1>5, PTL DEF Spec, ResultIsFinal
=============================================================================
