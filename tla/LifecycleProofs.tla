-------------------------- MODULE LifecycleProofs --------------------------
(***************************************************************************)
(* Proofs about lifecycle.Group, for any number of goroutines, servers,    *)
(* callbacks and callers of Run.                                           *)
(***************************************************************************)
EXTENDS Lifecycle, TLAPS, FiniteSetTheorems, SequenceTheorems

(* Moving a goroutine, or a watcher, to one of its labels keeps pc typed.  *)
LEMMA GotoProc ==
    ASSUME PcType, NEW p \in Procs, NEW l \in ProcPC, Goto(p, l)
    PROVE  PcType'
BY GroupAssumption DEF PcType, Goto, Procs, Actors

(* Moving one watcher keeps the type of watcher.                           *)
LEMMA GotoWatcher ==
    ASSUME PcType, NEW w \in Watchers, NEW l \in WatcherPC, Goto(w, l)
    PROVE  PcType'
BY GroupAssumption DEF PcType, Goto, Procs, Actors

(* New builds a well-typed group.                                          *)
LEMMA InitType == Init => TypeOK
<1> SUFFICES ASSUME Init PROVE TypeOK
  OBVIOUS
<1>1. PcType
  BY DEF Init, PcType, ProcPC, WatcherPC, Actors
<1>2. GroupType
  BY DEF Init, GroupType, NilCause, CauseKinds
<1>3. RegType
  BY DEF Init, RegType
<1>4. RunType
  BY DEF Init, RunType, RunPC
<1>5. FlagType
  BY DEF Init, FlagType
<1> QED
  BY <1>1, <1>2, <1>3, <1>4, <1>5 DEF TypeOK

(* The steps that move neither a goroutine nor a watcher.                  *)
Other ==
    \/ \E s \in Servers : DrainStart(s) \/ DrainEnd(s)
    \/ \E f \in Callbacks : Defer(f)
    \/ \E c \in Callers : RunReturn(c)
    \/ ParentCancel \/ RunReady \/ RunStop \/ BudgetExpires \/ RunDrained \/ RunCallback
    \/ CallbackReturn \/ CallbackPanic \/ RunCallbacksEnd \/ RunJoin
    \/ Terminated \/ UNCHANGED vars

(* The steps of what a user of the group supplies, fn and error handler.   *)
UserStep(p) == Goexit(p) \/ HandlerReturn(p)

(* pc stays typed in every step.                                           *)
LEMMA PcStep == ASSUME TypeOK, [Next]_vars PROVE PcType'
<1> USE DEF TypeOK, groupVars, regVars, runVars
<1>1. ASSUME NEW p \in Procs, register(p) PROVE PcType'
  BY <1>1, GotoProc DEF register, ProcPC, LivePC
<1>2. ASSUME NEW a \in Actors, GoStep(a) PROVE PcType'
  <2>1. CASE a \in Procs
    BY <1>2, <2>1, GotoProc
       DEF GoStep, ShutdownRecord, ShutdownCancel, ShutdownJoin, Returned, ProcPC, LivePC
  <2>2. CASE a \in Watchers
    BY <1>2, <2>2, GotoWatcher, GroupAssumption
       DEF GoStep, ShutdownRecord, ShutdownCancel, ShutdownJoin, Returned, WatcherPC
  <2> QED
    BY <2>1, <2>2 DEF Actors
<1>3. ASSUME NEW p \in Procs, FnReturn(p) \/ UserStep(p) \/ FnStep(p) PROVE PcType'
  BY <1>3, GotoProc
     DEF FnReturn, UserStep, Goexit, HandlerReturn, FnStep, Judge, collectError, CheckExit, WgDone, ProcPC, LivePC
<1>4. CASE UserShutdown \/ ParentFire \/ SignalFire \/ SignalStop
  BY <1>4, GotoWatcher DEF UserShutdown, ParentFire, SignalFire, SignalStop, WatcherPC
<1>5. ASSUME NEW c \in Callers, RunCall(c) PROVE PcType'
  BY <1>5, GroupAssumption DEF RunCall, PcType, ProcPC, WatcherPC, Procs, Actors
<1>6. CASE RunSpawn
  BY <1>6, GotoProc DEF RunSpawn, ProcPC, LivePC
<1>7. CASE RunWatch \/ RunClose
  BY <1>7, GroupAssumption DEF RunWatch, RunClose, PcType, WatcherPC, Procs, Actors
<1>8. CASE UNCHANGED pc
  BY <1>8 DEF PcType
<1>9. ASSUME NEW s \in Servers, ServeTeardown(s) PROVE PcType'
  BY <1>9, GotoProc DEF ServeTeardown, ProcPC, Procs
<1>10. ASSUME Other PROVE UNCHANGED pc
  BY <1>10 DEF Other, DrainStart, DrainEnd, SetServer, Defer, RunReturn, ParentCancel, RunReady,
       RunStop, BudgetExpires, RunDrained, RunCallback, CallbackReturn, CallbackPanic,
       RunCallbacksEnd, RunJoin, Terminated, vars
<1> QED
  BY <1>1, <1>2, <1>3, <1>4, <1>5, <1>6, <1>7, <1>8, <1>9, <1>10
     DEF Next, Other, GoStep, FnStep, UserStep, Require, ServeRequire, Procs

----------------------------------------------------------------------------
(* The inductive invariant. *)

AfterStop  == {"drain", "callbacks", "incallback", "join", "close", "end"}
AfterDrain == {"callbacks", "incallback", "join", "close", "end"}
Admitted   == LivePC \cup {"pending", "taken", "done"}

(* shutdownOnce: stopped is set with the cause, the context is cancelled   *)
(* last, and only by the winner.                                           *)
OnceInv ==
    /\ ctxErr <=> once = "done"
    /\ stopped <=> once # "idle"
    /\ \A a \in Actors : pc[a] = "cancel" => once = "busy" /\ cause.who = a
    /\ once # "idle" => cause.who \in Actors /\ pc[cause.who] \in {"cancel", "exiting", "done"}

(* run starts the group, and goes past its wait only when cancelled.       *)
RunInv ==
    /\ started <=> run # "idle"
    /\ run \in AfterStop => ctxErr
    /\ ready => run \notin {"idle", "spawn", "ready"}
    /\ done => run = "end"
    /\ \A w \in Watchers \ {"user"} : run \in {"idle", "spawn"} => pc[w] = "absent"

(* No goroutine is left behind in the pending list.                        *)
SpawnInv ==
    \A p \in Procs :
        /\ pc[p] = "pending" => run = "idle"
        /\ pc[p] = "taken" => run = "spawn"
        /\ run = "idle" => pc[p] \notin LivePC \cup {"done"}

(* A server that is admitted, or that still may be, has its teardown in    *)
(* the list that run copies and works through.                             *)
ServerInv ==
    /\ \A s \in Servers :
         /\ pc[s] \in Admitted => s \in ToSet(serverTeardowns)
         /\ pc[s] = "serving" => stopped \/ s \in ToSet(serverTeardowns)
    /\ run \in AfterStop => drains = serverTeardowns
    /\ run \in AfterDrain => \A s \in ToSet(drains) : srv[s] \in {"drained", "cut"}

(* What has run, followed by what is left to run, is what was registered.  *)
TeardownInv ==
    /\ run \notin AfterStop => ran = <<>> /\ todo = <<>>
    /\ run \in AfterStop => ran \o todo = teardowns
    /\ run \in {"idle", "spawn", "ready", "wait", "drain"} => ran = <<>>
    /\ run = "join" => todo = <<>> \/ budget

(* The error of a goroutine that failed, and of a server that was cut, is  *)
(* recorded.                                                               *)
ErrorInv ==
    /\ \A p \in Procs :
         /\ pc[p] \in {"absent", "serving", "dropped", "pending", "taken", "running"} => ret[p] = "none"
         /\ ret[p] = "fail" =>
               pc[p] \in {"returned", "collect", "record"} \/ [what |-> "returned", by |-> p] \in ToSet(errs)
    /\ \A s \in Servers :
         /\ srv[s] # "open" => s \in ToSet(drains) /\ run \in AfterStop
         /\ run \in AfterDrain /\ srv[s] = "cut" => [what |-> "drain", by |-> s] \in ToSet(errs)

(* Run's error is what was recorded when the last goroutine ended.         *)
ResultInv ==
    /\ run \notin {"idle", "close", "end"} => \E c \in Callers : caller[c] = "running"
    /\ run \in {"close", "end"} /\ ~budget /\ (\A c \in Callers : caller[c] # "panicked") =>
         wg = 0 /\ runErr = errs
    /\ run \notin {"close", "end"} => \A c \in Callers : caller[c] # "panicked"

IInv ==
    /\ TypeOK /\ OnceInv /\ RunInv /\ SpawnInv /\ NoSilentExit /\ ServerInv
    /\ TeardownInv /\ ErrorInv /\ WgCounts /\ ResultInv

----------------------------------------------------------------------------
(* Each part of the invariant is preserved. *)

(* Appending to a sequence adds one element to its set of elements.        *)
LEMMA ToSetAppend ==
    ASSUME NEW S, NEW q \in Seq(S), NEW e \in S
    PROVE  ToSet(Append(q, e)) = ToSet(q) \cup {e}
<1>1. Append(q, e) \in Seq(S) /\ Len(Append(q, e)) = Len(q) + 1
  OBVIOUS
<1>2. \A i \in 1..Len(q) : Append(q, e)[i] = q[i]
  OBVIOUS
<1>3. Append(q, e)[Len(q) + 1] = e
  OBVIOUS
<1> QED
  BY <1>1, <1>2, <1>3 DEF ToSet

(* Starting a goroutine counts it, ending one discounts it.                *)
LEMMA LiveAdd ==
    ASSUME PcType, WgCounts, wg \in Nat, NEW p \in Procs, pc[p] \notin LivePC,
           NEW l \in LivePC, Goto(p, l), wg' = wg + 1
    PROVE  WgCounts' /\ wg' \in Nat
<1> DEFINE L == {q \in Procs : pc[q] \in LivePC}
<1>1. {q \in Procs : pc'[q] \in LivePC} = L \cup {p}
  BY DEF PcType, Goto, Actors
<1>2. IsFiniteSet(L)
  BY GroupAssumption, FS_Subset
<1>3. Cardinality(L \cup {p}) = Cardinality(L) + 1
  BY <1>2, FS_AddElement
<1> QED
  BY <1>1, <1>3 DEF WgCounts

(* The count of live goroutines drops by one when one of them leaves.      *)
LEMMA LiveRemove ==
    ASSUME PcType, WgCounts, wg \in Nat, NEW p \in Procs, pc[p] \in LivePC,
           NEW l, l \notin LivePC, Goto(p, l), wg' = wg - 1
    PROVE  WgCounts' /\ wg' \in Nat
<1> DEFINE L == {q \in Procs : pc[q] \in LivePC}
<1>1. {q \in Procs : pc'[q] \in LivePC} = L \ {p}
  BY DEF PcType, Goto, Actors
<1>2. IsFiniteSet(L)
  BY GroupAssumption, FS_Subset
<1>3. Cardinality(L \ {p}) = Cardinality(L) - 1
  BY <1>2, FS_RemoveElement
<1>4. IsFiniteSet(L \ {p}) /\ Cardinality(L \ {p}) \in Nat
  BY <1>2, FS_Subset, FS_CardinalityType
<1> QED
  BY <1>1, <1>3, <1>4 DEF WgCounts

(* A step that keeps the set of live goroutines keeps the count.           *)
LEMMA LiveSame ==
    ASSUME WgCounts, wg' = wg,
           \A p \in Procs : pc'[p] \in LivePC <=> pc[p] \in LivePC
    PROVE  WgCounts'
<1>1. {q \in Procs : pc'[q] \in LivePC} = {q \in Procs : pc[q] \in LivePC}
  OBVIOUS
<1> QED
  BY <1>1 DEF WgCounts

(* Every step keeps the WaitGroup equal to the goroutines it counts.       *)
LEMMA WgStep == ASSUME TypeOK, WgCounts, SpawnInv, [Next]_vars PROVE WgCounts' /\ wg' \in Nat
<1> USE DEF TypeOK, groupVars, regVars, runVars
<1>0. wg \in Nat
  BY DEF GroupType
<1>1. ASSUME NEW p \in Procs, register(p), pc[p] \in {"absent", "serving"}
      PROVE  WgCounts' /\ wg' \in Nat
  <2>1. CASE started /\ ~stopped
    BY <1>0, <1>1, <2>1, LiveAdd DEF register, LivePC
  <2>2. CASE stopped \/ ~started
    BY <1>0, <1>1, <2>2, LiveSame DEF register, LivePC, Goto, PcType, Actors
  <2> QED
    BY <2>1, <2>2
<1>2. ASSUME NEW a \in Actors, GoStep(a) PROVE WgCounts' /\ wg' \in Nat
  BY <1>0, <1>2, LiveSame, GroupAssumption DEF GoStep, ShutdownRecord, ShutdownCancel, ShutdownJoin, Returned,
     Goto, PcType, Actors, LivePC, ProcPC, CauseKinds
<1>3. ASSUME NEW p \in Procs, FnReturn(p) \/ UserStep(p) \/ Judge(p) \/ collectError(p) \/ CheckExit(p)
      PROVE  WgCounts' /\ wg' \in Nat
  BY <1>0, <1>3, LiveSame
     DEF FnReturn, UserStep, Goexit, HandlerReturn, Judge, collectError, CheckExit, Goto, PcType, Actors, LivePC
<1>4. ASSUME NEW p \in Procs, WgDone(p) PROVE WgCounts' /\ wg' \in Nat
  BY <1>0, <1>4, LiveRemove DEF WgDone, LivePC
<1>5. CASE UserShutdown \/ ParentFire \/ SignalFire \/ SignalStop
  BY <1>0, <1>5, LiveSame, GroupAssumption
     DEF UserShutdown, ParentFire, SignalFire, SignalStop, Goto, PcType, Actors
<1>6. ASSUME NEW c \in Callers, RunCall(c) PROVE WgCounts' /\ wg' \in Nat
  BY <1>0, <1>6, LiveSame DEF RunCall, LivePC, Actors
<1>7. CASE RunSpawn
  BY <1>0, <1>7, LiveAdd DEF RunSpawn, LivePC
<1>8. CASE RunWatch \/ RunClose
  BY <1>0, <1>8, LiveSame, GroupAssumption DEF RunWatch, RunClose, Actors
<1>9. ASSUME NEW s \in Servers, ServeTeardown(s) PROVE WgCounts' /\ wg' \in Nat
  BY <1>0, <1>9, LiveSame DEF ServeTeardown, Goto, PcType, Actors, Procs, LivePC
<1>10. ASSUME Other PROVE UNCHANGED <<pc, wg>>
  BY <1>10 DEF Other, DrainStart, DrainEnd, SetServer, Defer, RunReturn, ParentCancel, RunReady,
       RunStop, BudgetExpires, RunDrained, RunCallback, CallbackReturn, CallbackPanic,
       RunCallbacksEnd, RunJoin, Terminated, vars
<1>11. CASE UNCHANGED <<pc, wg>>
  BY <1>0, <1>11, LiveSame
<1> QED
  BY <1>1, <1>2, <1>3, <1>4, <1>5, <1>6, <1>7, <1>8, <1>9, <1>10, <1>11
     DEF Next, Other, GoStep, FnStep, UserStep, Require, ServeRequire, Procs

(* Every step keeps the types of the registration state.                   *)
LEMMA RegStep == ASSUME TypeOK, [Next]_vars PROVE RegType'
<1> USE DEF TypeOK, RegType, groupVars, regVars, runVars
<1>1. ASSUME NEW s \in Servers, ServeTeardown(s) PROVE RegType'
  BY <1>1 DEF ServeTeardown
<1>2. ASSUME NEW f \in Callbacks, Defer(f) PROVE RegType'
  BY <1>2 DEF Defer
<1>3. CASE UNCHANGED regVars
  BY <1>3
<1> QED
  BY <1>1, <1>2, <1>3 DEF Next, Require, ServeRequire, DrainStart, DrainEnd, SetServer,
     ShutdownRecord, ShutdownCancel, ShutdownJoin, FnReturn, Goexit, HandlerReturn, Judge, collectError, CheckExit,
     WgDone, UserShutdown, ParentCancel, ParentFire, SignalFire, SignalStop, RunCall,
     RunReturn, RunSpawn, RunWatch, RunReady, RunStop, BudgetExpires, RunDrained, RunCallback,
     CallbackReturn, CallbackPanic, RunCallbacksEnd, RunJoin, RunClose, Terminated, vars

(* Every step keeps the types of the flags and the cause.                  *)
LEMMA FlagStep == ASSUME TypeOK, [Next]_vars PROVE FlagType'
<1> DEFINE flags == <<started, stopped, ctxErr, parentErr, budget, ready, done>>
<1> USE DEF TypeOK, FlagType, groupVars, regVars, runVars
<1>1. ASSUME NEW a \in Actors, ShutdownRecord(a) \/ ShutdownCancel(a) PROVE FlagType'
  BY <1>1 DEF ShutdownRecord, ShutdownCancel
<1>2. ASSUME NEW c \in Callers, RunCall(c) PROVE FlagType'
  BY <1>2 DEF RunCall
<1>3. CASE ParentCancel \/ RunReady \/ RunStop \/ BudgetExpires \/ RunClose
  BY <1>3 DEF ParentCancel, RunReady, RunStop, BudgetExpires, RunClose
<1>4. CASE UNCHANGED flags
  BY <1>4
<1> QED
  BY <1>1, <1>2, <1>3, <1>4 DEF Next, Require, ServeTeardown, ServeRequire, Defer,
     ShutdownJoin, FnReturn, Goexit, HandlerReturn, Judge, collectError, CheckExit, WgDone, UserShutdown, ParentFire,
     SignalFire, SignalStop, RunSpawn, DrainStart, DrainEnd, SetServer, RunReturn, RunWatch,
     RunDrained, RunCallback, CallbackReturn, CallbackPanic, RunCallbacksEnd, RunJoin,
     Terminated, vars

(* A function on 1..n is a sequence of its range.                          *)
LEMMA FunctionIsSeq ==
    ASSUME NEW S, NEW n \in Nat, NEW d \in [1..n -> S] PROVE d \in Seq(S)
OBVIOUS

(* The errors of the servers that were cut form a sequence of errors.      *)
LEMMA DrainErrors ==
    ASSUME TypeOK, RunDrained
    PROVE  \E d \in Seq(Errors) :
               errs' = errs \o d /\ \A s \in Cut : [what |-> "drain", by |-> s] \in ToSet(d)
<1> USE DEF TypeOK, GroupType, RunType
<1>1. Cut \subseteq Servers /\ IsFiniteSet(Cut) /\ Cardinality(Cut) \in Nat
  BY GroupAssumption, FS_Subset, FS_CardinalityType DEF Cut, ToSet, Procs
<1>2. PICK q \in [1..Cardinality(Cut) -> Cut] :
         /\ ToSet(q) = Cut
         /\ errs' = errs \o [i \in DOMAIN q |-> [what |-> "drain", by |-> q[i]]]
  BY DEF RunDrained
<1> DEFINE n == Cardinality(Cut)
           d == [i \in DOMAIN q |-> [what |-> "drain", by |-> q[i]]]
<1>3. d = [i \in 1..n |-> [what |-> "drain", by |-> q[i]]]
  OBVIOUS
<1>4. \A i \in 1..n : [what |-> "drain", by |-> q[i]] \in Errors
  BY <1>1 DEF Errors, Procs
<1>5. d \in [1..n -> Errors]
  BY <1>3, <1>4
<1>6. \A s \in Cut : [what |-> "drain", by |-> s] \in ToSet(d)
  BY <1>2 DEF ToSet
<1> HIDE DEF n, d
<1>7. d \in Seq(Errors)
  BY <1>1, <1>5, FunctionIsSeq DEF n
<1>8. errs' = errs \o d
  BY <1>2 DEF d
<1> QED
  BY <1>6, <1>7, <1>8

(* Every step keeps the types of the goroutines and servers.               *)
LEMMA GroupStep == ASSUME TypeOK, WgCounts, SpawnInv, [Next]_vars PROVE GroupType'
<1> USE DEF TypeOK, GroupType, groupVars, regVars, runVars
<1>0. wg' \in Nat
  BY WgStep
<1>1. ASSUME NEW a \in Actors, GoStep(a) PROVE GroupType'
  BY <1>0, <1>1 DEF GoStep, ShutdownRecord, ShutdownCancel, ShutdownJoin
<1>2. ASSUME NEW p \in Procs, FnReturn(p) \/ Goexit(p) PROVE GroupType'
  BY <1>0, <1>2 DEF FnReturn, Goexit
<1>3. ASSUME NEW p \in Procs, collectError(p) PROVE GroupType'
  BY <1>0, <1>3 DEF collectError, Errors
<1>4. CASE RunDrained
  <2>1. PICK d \in Seq(Errors) : errs' = errs \o d
    BY <1>4, DrainErrors
  <2>2. errs' \in Seq(Errors)
    BY <2>1
  <2> QED
    BY <1>0, <1>4, <2>2 DEF RunDrained
<1>5. CASE UNCHANGED <<once, cause, ret, errs>>
  BY <1>0, <1>5
<1> QED
  BY <1>1, <1>2, <1>3, <1>4, <1>5 DEF Next, GoStep, Require, ServeTeardown, ServeRequire, Defer,
     DrainStart, DrainEnd, SetServer, HandlerReturn, Judge, CheckExit, WgDone, UserShutdown, ParentCancel,
     ParentFire, SignalFire, SignalStop, RunCall, RunReturn, RunSpawn, RunWatch, RunReady,
     RunStop, BudgetExpires, RunCallback, CallbackReturn, CallbackPanic, RunCallbacksEnd,
     RunJoin, RunClose, Terminated, vars

(* Every step keeps the types of the state of Run.                         *)
LEMMA RunTypeStep == ASSUME TypeOK, [Next]_vars PROVE RunType'
<1> USE DEF TypeOK, RunType, groupVars, regVars, runVars
<1>1. ASSUME NEW s \in Servers, DrainStart(s) \/ DrainEnd(s) PROVE RunType'
  BY <1>1 DEF DrainStart, DrainEnd, SetServer
<1>2. ASSUME NEW c \in Callers, RunCall(c) \/ RunReturn(c) PROVE RunType'
  BY <1>2 DEF RunCall, RunReturn, RunPC
<1>3. CASE RunWatch \/ RunReady \/ RunDrained \/ CallbackReturn \/ CallbackPanic \/ RunCallbacksEnd \/ RunClose
  BY <1>3 DEF RunWatch, RunReady, RunDrained, CallbackReturn, CallbackPanic, RunCallbacksEnd, RunClose, RunPC
<1>4. CASE RunStop
  BY <1>4 DEF RunStop, RegType, RunPC
<1>5. CASE RunCallback
  BY <1>5 DEF RunCallback, RunPC
<1>6. CASE RunJoin
  BY <1>6 DEF RunJoin, RunPC, GroupType
<1>7. CASE UNCHANGED <<run, drains, todo, srv, ran, runErr, caller>>
  BY <1>7
<1> QED
  BY <1>1, <1>2, <1>3, <1>4, <1>5, <1>6, <1>7 DEF Next, Require, ServeTeardown, ServeRequire, Defer,
     ShutdownRecord, ShutdownCancel, ShutdownJoin, FnReturn, Goexit, HandlerReturn, Judge, collectError, CheckExit,
     WgDone, UserShutdown, ParentCancel, ParentFire, SignalFire, SignalStop,
     RunSpawn, BudgetExpires, Terminated, vars

(* Every step keeps the relation of shutdownOnce, cause and cancel.        *)
LEMMA OnceStep == ASSUME TypeOK, OnceInv, RunInv, [Next]_vars PROVE OnceInv'
<1> USE DEF TypeOK, OnceInv, PcType, groupVars, regVars, runVars
<1>1. ASSUME NEW p \in Procs, register(p), UNCHANGED groupVars, pc[p] \in {"absent", "serving"}
      PROVE OnceInv'
  BY <1>1 DEF register, Goto, Actors
<1>2. ASSUME NEW a \in Actors, ShutdownRecord(a) PROVE OnceInv'
  BY <1>2 DEF ShutdownRecord, Goto, GroupType, CauseKinds
<1>3. ASSUME NEW a \in Actors, ShutdownCancel(a) PROVE OnceInv'
  BY <1>3 DEF ShutdownCancel, Goto, Returned, GroupType
<1>4. ASSUME NEW a \in Actors, ShutdownJoin(a) PROVE OnceInv'
  BY <1>4 DEF ShutdownJoin, Goto, Returned, CauseKinds
<1>5. ASSUME NEW p \in Procs, FnReturn(p) \/ UserStep(p) \/ FnStep(p) PROVE OnceInv'
  BY <1>5 DEF FnReturn, UserStep, Goexit, HandlerReturn, FnStep, Judge, collectError, CheckExit, WgDone, Goto, Actors
<1>6. CASE UserShutdown \/ ParentFire \/ SignalFire \/ SignalStop
  BY <1>6 DEF UserShutdown, ParentFire, SignalFire, SignalStop, Goto, Actors
<1>7. ASSUME NEW c \in Callers, RunCall(c) PROVE OnceInv'
  BY <1>7 DEF RunCall
<1>8. CASE RunSpawn
  BY <1>8 DEF RunSpawn, Goto, Actors
<1>9. CASE RunWatch
  BY <1>9, GroupAssumption DEF RunWatch, RunInv, Actors
<1>10. CASE RunClose
  BY <1>10 DEF RunClose
<1>11. CASE RunStop
  BY <1>11 DEF RunStop
<1>12. ASSUME NEW s \in Servers, ServeTeardown(s) PROVE OnceInv'
  BY <1>12 DEF ServeTeardown, Goto, Actors, Procs
<1>13. CASE UNCHANGED <<pc, groupVars>>
  BY <1>13
<1>14. ASSUME Other PROVE RunStop \/ UNCHANGED <<pc, groupVars>>
  BY <1>14 DEF Other, DrainStart, DrainEnd, SetServer, Defer, RunReturn, ParentCancel, RunReady,
       BudgetExpires, RunDrained, RunCallback, CallbackReturn, CallbackPanic,
       RunCallbacksEnd, RunJoin, Terminated, vars
<1> QED
  BY <1>1, <1>2, <1>3, <1>4, <1>5, <1>6, <1>7, <1>8, <1>9, <1>10, <1>11, <1>12, <1>13, <1>14
     DEF Next, Other, FnStep, UserStep, Require, ServeRequire, Procs

(* Every step keeps the relation of run's control state and the flags.     *)
LEMMA RunInvStep == ASSUME TypeOK, OnceInv, RunInv, [Next]_vars PROVE RunInv'
<1> USE DEF TypeOK, RunInv, PcType, groupVars, regVars, runVars
<1>1. ASSUME NEW p \in Procs, register(p), UNCHANGED <<groupVars, runVars>> PROVE RunInv'
  BY <1>1, GroupAssumption DEF register, Goto, Actors
<1>2. ASSUME NEW a \in Actors, GoStep(a) PROVE RunInv'
  BY <1>2 DEF GoStep, ShutdownRecord, ShutdownCancel, ShutdownJoin, Goto, Returned,
     CauseKinds, Actors
<1>3. ASSUME NEW p \in Procs, FnReturn(p) \/ UserStep(p) \/ FnStep(p) PROVE RunInv'
  BY <1>3, GroupAssumption
     DEF FnReturn, UserStep, Goexit, HandlerReturn, FnStep, Judge, collectError, CheckExit, WgDone, Goto, Actors
<1>4. CASE UserShutdown \/ ParentFire \/ SignalFire \/ SignalStop
  BY <1>4 DEF UserShutdown, ParentFire, SignalFire, SignalStop, Goto, Actors
<1>5. ASSUME NEW c \in Callers, RunCall(c) PROVE RunInv'
  BY <1>5 DEF RunCall, AfterStop, Actors
<1>6. CASE RunSpawn
  BY <1>6, GroupAssumption DEF RunSpawn, Goto, Actors
<1>7. CASE RunWatch \/ RunReady \/ RunStop \/ RunDrained \/ RunCallback \/ CallbackReturn
           \/ CallbackPanic \/ RunCallbacksEnd \/ RunJoin \/ RunClose
  BY <1>7 DEF RunWatch, RunReady, RunStop, RunDrained, RunCallback, CallbackReturn,
     CallbackPanic, RunCallbacksEnd, RunJoin, RunClose, AfterStop
<1>8. ASSUME NEW s \in Servers, ServeTeardown(s) PROVE RunInv'
  BY <1>8, GroupAssumption DEF ServeTeardown, Goto, Actors, Procs
<1>9. CASE UNCHANGED <<pc, groupVars, run, ready, done>>
  BY <1>9
<1> QED
  BY <1>1, <1>2, <1>3, <1>4, <1>5, <1>6, <1>7, <1>8, <1>9
     DEF Next, GoStep, FnStep, UserStep, Require, ServeRequire, Procs, DrainStart, DrainEnd, SetServer,
         Defer, RunReturn, ParentCancel, BudgetExpires, Terminated, vars

(* Every step keeps the relation of pending and spawned goroutines.        *)
LEMMA SpawnStep == ASSUME TypeOK, RunInv, SpawnInv, [Next]_vars PROVE SpawnInv'
<1> USE DEF TypeOK, SpawnInv, PcType, groupVars, regVars, runVars
<1>1. ASSUME NEW p \in Procs, register(p), pc[p] \in {"absent", "serving"}, UNCHANGED run
      PROVE  SpawnInv'
  BY <1>1 DEF register, Goto, Actors, RunInv, LivePC
<1>2. ASSUME NEW a \in Actors, GoStep(a) PROVE SpawnInv'
  BY <1>2, GroupAssumption DEF GoStep, ShutdownRecord, ShutdownCancel, ShutdownJoin, Goto,
     Returned, CauseKinds, Actors, LivePC, ProcPC
<1>3. ASSUME NEW p \in Procs, FnReturn(p) \/ UserStep(p) \/ FnStep(p) PROVE SpawnInv'
  BY <1>3 DEF FnReturn, UserStep, Goexit, HandlerReturn, FnStep, Judge, collectError, CheckExit, WgDone, Goto, Actors, LivePC
<1>4. CASE UserShutdown \/ ParentFire \/ SignalFire \/ SignalStop
  BY <1>4, GroupAssumption DEF UserShutdown, ParentFire, SignalFire, SignalStop, Goto, Actors
<1>5. ASSUME NEW c \in Callers, RunCall(c) PROVE SpawnInv'
  BY <1>5 DEF RunCall, Actors
<1>6. CASE RunSpawn
  BY <1>6 DEF RunSpawn, Goto, Actors
<1>7. CASE RunWatch \/ RunClose
  BY <1>7, GroupAssumption DEF RunWatch, RunClose, Actors
<1>8. ASSUME NEW s \in Servers, ServeTeardown(s) PROVE SpawnInv'
  BY <1>8 DEF ServeTeardown, Goto, Actors, Procs, LivePC
<1>9. CASE RunReady \/ RunStop \/ RunDrained \/ RunCallback \/ CallbackReturn
           \/ CallbackPanic \/ RunCallbacksEnd \/ RunJoin
  BY <1>9 DEF RunReady, RunStop, RunDrained, RunCallback, CallbackReturn,
     CallbackPanic, RunCallbacksEnd, RunJoin
<1>10. CASE UNCHANGED <<pc, run>>
  BY <1>10
<1> QED
  BY <1>1, <1>2, <1>3, <1>4, <1>5, <1>6, <1>7, <1>8, <1>9, <1>10
     DEF Next, GoStep, FnStep, UserStep, Require, ServeRequire, Procs, DrainStart, DrainEnd, SetServer,
         Defer, RunReturn, ParentCancel, BudgetExpires, Terminated, vars

(* Every step keeps an exit of a goroutine noticed.                        *)
LEMMA ExitStep ==
    ASSUME TypeOK, OnceInv, NoSilentExit, [Next]_vars PROVE NoSilentExit'
<1> USE DEF TypeOK, NoSilentExit, PcType, groupVars, regVars, runVars
<1>1. ASSUME NEW p \in Procs, register(p), UNCHANGED <<ret, groupVars>> PROVE NoSilentExit'
  BY <1>1 DEF register, Goto, Actors
<1>2. ASSUME NEW a \in Actors, GoStep(a) PROVE NoSilentExit'
  BY <1>2 DEF GoStep, ShutdownRecord, ShutdownCancel, ShutdownJoin, Goto, Returned, Actors,
     OnceInv
<1>3. ASSUME NEW p \in Procs, FnReturn(p) \/ Goexit(p) PROVE NoSilentExit'
  BY <1>3 DEF FnReturn, Goexit, Goto, Actors, GroupType
<1>a. ASSUME NEW p \in Procs, HandlerReturn(p) \/ FnStep(p) PROVE NoSilentExit'
  BY <1>a DEF HandlerReturn, FnStep, Judge, collectError, CheckExit, WgDone, Goto, Actors
<1>4. CASE UserShutdown \/ ParentFire \/ SignalFire \/ SignalStop
  BY <1>4, GroupAssumption DEF UserShutdown, ParentFire, SignalFire, SignalStop, Goto, Actors
<1>5. ASSUME NEW c \in Callers, RunCall(c) PROVE NoSilentExit'
  BY <1>5 DEF RunCall, Actors
<1>6. CASE RunSpawn
  BY <1>6 DEF RunSpawn, Goto, Actors
<1>7. CASE RunWatch \/ RunClose
  BY <1>7, GroupAssumption DEF RunWatch, RunClose, Actors
<1>8. ASSUME NEW s \in Servers, ServeTeardown(s) PROVE NoSilentExit'
  BY <1>8 DEF ServeTeardown, Goto, Actors, Procs
<1>9. CASE UNCHANGED <<pc, ret, ctxErr>>
  BY <1>9
<1>10. ASSUME Other PROVE UNCHANGED <<pc, ret, ctxErr>>
  BY <1>10 DEF Other, DrainStart, DrainEnd, SetServer, Defer, RunReturn, ParentCancel, RunReady,
       RunStop, BudgetExpires, RunDrained, RunCallback, CallbackReturn, CallbackPanic,
       RunCallbacksEnd, RunJoin, Terminated, vars
<1> QED
  BY <1>1, <1>2, <1>3, <1>a, <1>4, <1>5, <1>6, <1>7, <1>8, <1>9, <1>10
     DEF Next, Other, GoStep, FnStep, UserStep, Require, ServeRequire, Procs

(* Every step keeps a running server registered for the drain.             *)
LEMMA ServerStep ==
    ASSUME TypeOK, OnceInv, RunInv, SpawnInv, ServerInv, [Next]_vars PROVE ServerInv'
<1> USE DEF TypeOK, ServerInv, PcType, groupVars, regVars, runVars
<1> DEFINE frame == <<stopped, serverTeardowns, run, drains, srv>>
<1>1. ASSUME NEW p \in Procs, register(p), pc[p] \in {"absent", "serving"},
             p \in Servers => pc[p] = "serving", UNCHANGED frame
      PROVE  ServerInv'
  BY <1>1 DEF register, Goto, Actors, Procs, Admitted, LivePC
<1>2. ASSUME NEW a \in Actors, GoStep(a) PROVE ServerInv'
  BY <1>2, GroupAssumption DEF GoStep, ShutdownRecord, ShutdownCancel, ShutdownJoin, Goto,
     Returned, CauseKinds, Actors, Procs, Admitted, LivePC, ProcPC
<1>3. ASSUME NEW p \in Procs, FnReturn(p) \/ UserStep(p) \/ FnStep(p) PROVE ServerInv'
  BY <1>3 DEF FnReturn, UserStep, Goexit, HandlerReturn, FnStep, Judge, collectError, CheckExit, WgDone, Goto, Actors, Procs,
     Admitted, LivePC
<1>4. CASE UserShutdown \/ ParentFire \/ SignalFire \/ SignalStop
  BY <1>4, GroupAssumption DEF UserShutdown, ParentFire, SignalFire, SignalStop, Goto, Actors, Procs
<1>5. ASSUME NEW c \in Callers, RunCall(c) PROVE ServerInv'
  BY <1>5 DEF RunCall, Actors, Procs, Admitted, AfterStop, AfterDrain
<1>6. CASE RunSpawn
  BY <1>6 DEF RunSpawn, Goto, Actors, Procs, Admitted, LivePC
<1>7. CASE RunWatch \/ RunClose
  BY <1>7, GroupAssumption DEF RunWatch, RunClose, Actors, Procs, AfterStop, AfterDrain
<1>8. ASSUME NEW s \in Servers, ServeTeardown(s) PROVE ServerInv'
  <2>1. CASE stopped
    BY <1>8, <2>1 DEF ServeTeardown, Goto, Actors, Procs, Admitted, LivePC
  <2>2. CASE ~stopped
    <3>1. run \notin AfterStop
      BY <2>2 DEF RunInv, OnceInv
    <3>2. ToSet(serverTeardowns') = ToSet(serverTeardowns) \cup {s}
      BY <1>8, <2>2, ToSetAppend DEF ServeTeardown, RegType
    <3> QED
      BY <1>8, <3>1, <3>2
         DEF ServeTeardown, Goto, Actors, Procs, Admitted, LivePC, AfterStop, AfterDrain
  <2> QED
    BY <2>1, <2>2
<1>9. CASE RunReady \/ RunStop \/ RunDrained \/ RunCallback \/ CallbackReturn
           \/ CallbackPanic \/ RunCallbacksEnd \/ RunJoin
  BY <1>9 DEF RunReady, RunStop, RunDrained, RunCallback, CallbackReturn,
     CallbackPanic, RunCallbacksEnd, RunJoin, AfterStop, AfterDrain
<1>10. ASSUME NEW s \in Servers, DrainStart(s) \/ DrainEnd(s) PROVE ServerInv'
  <2>1. CASE DrainStart(s)
    BY <2>1 DEF DrainStart, SetServer, AfterStop, AfterDrain, RunType
  <2>2. CASE DrainEnd(s)
    <3>1. PICK state \in {"drained", "cut"} : SetServer(s, state)
      BY <2>2 DEF DrainEnd
    <3>2. srv' = [srv EXCEPT ![s] = state] /\ UNCHANGED <<pc, stopped, serverTeardowns, run, drains>>
      BY <3>1 DEF SetServer
    <3>3. \A t \in Servers : srv[t] \in {"drained", "cut"} => srv'[t] \in {"drained", "cut"}
      BY <3>2 DEF RunType
    <3>4. ToSet(drains) \subseteq Servers
      BY DEF ToSet, RunType
    <3> QED
      BY <3>2, <3>3, <3>4
  <2> QED
    BY <1>10, <2>1, <2>2
<1>11. CASE UNCHANGED <<pc, frame>>
  BY <1>11
<1> QED
  BY <1>1, <1>2, <1>3, <1>4, <1>5, <1>6, <1>7, <1>8, <1>9, <1>10, <1>11, GroupAssumption
     DEF Next, GoStep, FnStep, UserStep, Require, ServeRequire, Procs,
         Defer, RunReturn, ParentCancel, BudgetExpires, Terminated, vars

(* Running the next callback moves it from what is left to what has run.   *)
LEMMA MoveHead ==
    ASSUME NEW S, NEW q \in Seq(S), NEW r \in Seq(S), r # <<>>
    PROVE  Append(q, Head(r)) \o Tail(r) = q \o r
OBVIOUS

(* Every step keeps the teardowns in registration order.                   *)
LEMMA TeardownStep ==
    ASSUME TypeOK, OnceInv, RunInv, TeardownInv, [Next]_vars PROVE TeardownInv'
<1> USE DEF TypeOK, TeardownInv, groupVars, regVars, runVars
<1> DEFINE frame == <<teardowns, run, todo, ran, budget>>
<1>1. ASSUME NEW f \in Callbacks, Defer(f) PROVE TeardownInv'
  <2>1. run \in AfterStop => stopped
    BY DEF RunInv, OnceInv
  <2> QED
    BY <1>1, <2>1 DEF Defer
<1>2. ASSUME NEW c \in Callers, RunCall(c) PROVE TeardownInv'
  BY <1>2 DEF RunCall, AfterStop
<1>3. CASE RunWatch \/ RunReady \/ RunDrained \/ CallbackReturn \/ CallbackPanic
           \/ RunCallbacksEnd \/ RunJoin \/ RunClose \/ BudgetExpires
  BY <1>3 DEF RunWatch, RunReady, RunDrained, CallbackReturn, CallbackPanic,
     RunCallbacksEnd, RunJoin, RunClose, BudgetExpires, AfterStop
<1>4. CASE RunStop
  BY <1>4, ConcatEmptySeq DEF RunStop, AfterStop, RegType
<1>5. CASE RunCallback
  BY <1>5, MoveHead DEF RunCallback, AfterStop, RunType
<1>6. CASE UNCHANGED frame
  BY <1>6
<1> QED
  BY <1>1, <1>2, <1>3, <1>4, <1>5, <1>6 DEF Next, Require, ServeTeardown, ServeRequire,
     DrainStart, DrainEnd, SetServer, ShutdownRecord, ShutdownCancel, ShutdownJoin, FnReturn, Goexit, HandlerReturn,
     Judge, collectError, CheckExit, WgDone, UserShutdown, ParentCancel, ParentFire,
     SignalFire, SignalStop, RunReturn, RunSpawn, Terminated, vars

(* collectError records the error.                                         *)
LEMMA CollectAdds ==
    ASSUME TypeOK, NEW p \in Procs, collectError(p)
    PROVE  ToSet(errs') = ToSet(errs) \cup {[what |-> "returned", by |-> p]}
<1> DEFINE e == [what |-> "returned", by |-> p]
<1>1. e \in Errors /\ errs \in Seq(Errors)
  BY DEF Errors, TypeOK, GroupType
<1>2. errs' = Append(errs, e)
  BY DEF collectError
<1> HIDE DEF e
<1>3. ToSet(errs') = ToSet(errs) \cup {e}
  BY <1>1, <1>2, ToSetAppend
<1> QED
  BY <1>3 DEF e

(* An error appended to errs stays recorded.                               *)
LEMMA ErrsGrow == ASSUME TypeOK, [Next]_vars PROVE ToSet(errs) \subseteq ToSet(errs')
<1> USE DEF TypeOK, groupVars, regVars, runVars
<1>1. errs \in Seq(Errors)
  BY DEF GroupType
<1>2. ASSUME NEW p \in Procs, collectError(p) PROVE ToSet(errs) \subseteq ToSet(errs')
  BY <1>2, CollectAdds
<1>3. ASSUME RunDrained PROVE ToSet(errs) \subseteq ToSet(errs')
  <2>1. PICK d \in Seq(Errors) : errs' = errs \o d
    BY <1>3, DrainErrors
  <2>2. /\ DOMAIN errs = 1..Len(errs) /\ DOMAIN errs' = 1..(Len(errs) + Len(d))
        /\ \A i \in 1..Len(errs) : errs'[i] = errs[i]
    BY <1>1, <2>1
  <2> QED
    BY <1>1, <2>2 DEF ToSet
<1> QED
  BY <1>2, <1>3 DEF Next, Require, ServeTeardown, ServeRequire, Defer, DrainStart, DrainEnd,
     SetServer, ShutdownRecord, ShutdownCancel, ShutdownJoin, FnReturn, Goexit, HandlerReturn, Judge, CheckExit,
     WgDone, UserShutdown, ParentCancel, ParentFire, SignalFire, SignalStop, RunCall,
     RunReturn, RunSpawn, RunWatch, RunReady, RunStop, BudgetExpires, RunCallback,
     CallbackReturn, CallbackPanic, RunCallbacksEnd, RunJoin, RunClose, Terminated, vars

(* Every step keeps the errors that goroutines and drains have reported.   *)
LEMMA ErrorStep ==
    ASSUME TypeOK, RunInv, ServerInv, ErrorInv, [Next]_vars PROVE ErrorInv'
<1> USE DEF TypeOK, PcType, GroupType, groupVars, regVars, runVars
<1> DEFINE TaskErrs == \A p \in Procs :
             /\ pc[p] \in {"absent", "serving", "dropped", "pending", "taken", "running"} => ret[p] = "none"
             /\ ret[p] = "fail" =>
                   pc[p] \in {"returned", "collect", "record"} \/ [what |-> "returned", by |-> p] \in ToSet(errs)
           SrvErrs == \A s \in Servers :
             /\ srv[s] # "open" => s \in ToSet(drains) /\ run \in AfterStop
             /\ run \in AfterDrain /\ srv[s] = "cut" => [what |-> "drain", by |-> s] \in ToSet(errs)
<1>0. ToSet(errs) \subseteq ToSet(errs')
  BY ErrsGrow
<1>a. TaskErrs /\ SrvErrs
  BY DEF ErrorInv
<1>1. TaskErrs'
  <2>1. ASSUME NEW p \in Procs, register(p), pc[p] \in {"absent", "serving"}, UNCHANGED ret
        PROVE  TaskErrs'
    BY <1>0, <1>a, <2>1 DEF register, Goto, Actors
  <2>2. ASSUME NEW a \in Actors, GoStep(a) PROVE TaskErrs'
    BY <1>0, <1>a, <2>2, GroupAssumption DEF GoStep, ShutdownRecord, ShutdownCancel, ShutdownJoin, Goto,
       Returned, CauseKinds, Actors
  <2>3. ASSUME NEW p \in Procs, FnReturn(p) \/ UserStep(p) \/ Judge(p) \/ CheckExit(p) \/ WgDone(p) PROVE TaskErrs'
    BY <1>0, <1>a, <2>3 DEF FnReturn, UserStep, Goexit, HandlerReturn, Judge, CheckExit, WgDone, Goto, Actors
  <2>4. ASSUME NEW p \in Procs, collectError(p) PROVE TaskErrs'
    <3>1. [what |-> "returned", by |-> p] \in ToSet(errs')
      BY <2>4, CollectAdds
    <3> QED
      BY <1>0, <1>a, <2>4, <3>1 DEF collectError, Goto, Actors
  <2>5. CASE UserShutdown \/ ParentFire \/ SignalFire \/ SignalStop
    <3>1. ret' = ret /\ \A p \in Procs : pc'[p] = pc[p]
      BY <2>5, GroupAssumption DEF UserShutdown, ParentFire, SignalFire, SignalStop, Goto, Actors
    <3> QED
      BY <1>0, <1>a, <3>1
  <2>6. ASSUME NEW c \in Callers, RunCall(c) PROVE TaskErrs'
    <3>1. \A p \in Procs : pc'[p] = pc[p] \/ (pc[p] = "pending" /\ pc'[p] = "taken")
      BY <2>6 DEF RunCall, Actors
    <3>2. ret' = ret
      BY <2>6 DEF RunCall
    <3> QED
      BY <1>0, <1>a, <3>1, <3>2
  <2>7. CASE RunSpawn
    BY <1>0, <1>a, <2>7 DEF RunSpawn, Goto, Actors
  <2>8. CASE RunWatch \/ RunClose
    <3>1. ret' = ret /\ \A p \in Procs : pc'[p] = pc[p]
      BY <2>8, GroupAssumption DEF RunWatch, RunClose, Actors
    <3> QED
      BY <1>0, <1>a, <3>1
  <2>9. ASSUME NEW s \in Servers, ServeTeardown(s) PROVE TaskErrs'
    BY <1>0, <1>a, <2>9 DEF ServeTeardown, Goto, Actors, Procs
  <2>10. CASE UNCHANGED <<pc, ret>>
    BY <1>0, <1>a, <2>10
  <2>11. ASSUME Other PROVE UNCHANGED <<pc, ret>>
    BY <2>11 DEF Other, DrainStart, DrainEnd, SetServer, Defer, RunReturn, ParentCancel, RunReady,
       RunStop, BudgetExpires, RunDrained, RunCallback, CallbackReturn, CallbackPanic,
       RunCallbacksEnd, RunJoin, Terminated, vars
  <2> QED
    BY <2>1, <2>2, <2>3, <2>4, <2>5, <2>6, <2>7, <2>8, <2>9, <2>10, <2>11
       DEF Next, Other, GoStep, UserStep, Require, ServeRequire, Procs
<1>2. SrvErrs'
  <2>1. ASSUME NEW s \in Servers, DrainStart(s) PROVE SrvErrs'
    BY <1>0, <1>a, <2>1 DEF DrainStart, SetServer, AfterStop, AfterDrain, RunType
  <2>2. ASSUME NEW s \in Servers, DrainEnd(s) PROVE SrvErrs'
    <3>1. s \in ToSet(drains) /\ run \in AfterStop /\ run \notin AfterDrain
      BY <1>a, <2>2 DEF DrainEnd, ServerInv
    <3> QED
      BY <1>0, <1>a, <2>2, <3>1 DEF DrainEnd, SetServer, RunType
  <2>3. CASE RunStop
    BY <1>0, <1>a, <2>3 DEF RunStop, AfterStop, AfterDrain
  <2>4. CASE RunDrained
    <3>1. PICK d \in Seq(Errors) :
            errs' = errs \o d /\ \A s \in Cut : [what |-> "drain", by |-> s] \in ToSet(d)
      BY <2>4, DrainErrors
    <3>2. /\ DOMAIN d = 1..Len(d) /\ DOMAIN errs' = 1..(Len(errs) + Len(d))
          /\ \A i \in 1..Len(d) : errs'[Len(errs) + i] = d[i]
          /\ Len(errs) \in Nat /\ Len(d) \in Nat
      BY <3>1
    <3>3. ToSet(d) \subseteq ToSet(errs')
      BY <3>2 DEF ToSet
    <3> QED
      BY <1>0, <1>a, <2>4, <3>1, <3>3 DEF RunDrained, Cut, AfterStop, AfterDrain
  <2>5. CASE RunCallback \/ CallbackReturn \/ CallbackPanic \/ RunCallbacksEnd \/ RunJoin \/ RunClose
    BY <1>0, <1>a, <2>5 DEF RunCallback, CallbackReturn, CallbackPanic, RunCallbacksEnd, RunJoin, RunClose,
       AfterStop, AfterDrain
  <2>6. CASE (\E c \in Callers : RunCall(c)) \/ RunWatch \/ RunReady
    BY <1>0, <1>a, <2>6 DEF RunCall, RunWatch, RunReady, AfterStop, AfterDrain
  <2>7. CASE UNCHANGED <<srv, drains, run>>
    BY <1>0, <1>a, <2>7
  <2> QED
    BY <2>1, <2>2, <2>3, <2>4, <2>5, <2>6, <2>7 DEF Next, Require, ServeTeardown, ServeRequire,
       Defer, ShutdownRecord, ShutdownCancel, ShutdownJoin, FnReturn, Goexit, HandlerReturn, Judge, collectError,
       CheckExit, WgDone, UserShutdown, ParentCancel, ParentFire, SignalFire, SignalStop,
       RunReturn, RunSpawn, BudgetExpires, Terminated, vars
<1> QED
  BY <1>1, <1>2 DEF ErrorInv

(* Every step keeps the result of Run complete.                            *)
LEMMA ResultStep ==
    ASSUME IInv, [Next]_vars PROVE ResultInv'
<1> USE DEF IInv, TypeOK, ResultInv, groupVars, regVars, runVars
<1> DEFINE quiet == <<errs, wg, run, budget, runErr, caller>>
<1>1. ASSUME NEW p \in Procs, register(p), UNCHANGED <<stopped, errs, run, budget, runErr, caller>>
      PROVE  ResultInv'
  <2>1. run \in {"close", "end"} => stopped
    BY DEF RunInv, OnceInv, AfterStop
  <2> QED
    BY <1>1, <2>1 DEF register
<1>2. ASSUME NEW p \in Procs, collectError(p) \/ WgDone(p) PROVE ResultInv'
  <2>1. wg # 0
    <3> DEFINE L == {q \in Procs : pc[q] \in LivePC}
    <3>1. p \in L
      BY <1>2 DEF collectError, WgDone, LivePC
    <3>2. IsFiniteSet(L)
      BY GroupAssumption, FS_Subset
    <3>3. Cardinality(L) # 0
      BY <3>1, <3>2, FS_EmptySet
    <3> QED
      BY <3>3 DEF WgCounts
  <2> QED
    BY <1>2, <2>1 DEF collectError, WgDone
<1>3. ASSUME NEW c \in Callers, RunCall(c) PROVE ResultInv'
  BY <1>3 DEF RunCall, RunType
<1>4. ASSUME NEW c \in Callers, RunReturn(c) PROVE ResultInv'
  BY <1>4 DEF RunReturn, RunType, RunInv
<1>5. CASE RunSpawn
  BY <1>5 DEF RunSpawn
<1>6. CASE RunWatch \/ RunReady \/ RunStop \/ RunDrained \/ RunCallback \/ CallbackReturn \/ RunCallbacksEnd
  BY <1>6 DEF RunWatch, RunReady, RunStop, RunDrained, RunCallback, CallbackReturn, RunCallbacksEnd
<1>7. CASE CallbackPanic
  BY <1>7 DEF CallbackPanic, RunType
<1>8. CASE RunJoin
  BY <1>8 DEF RunJoin
<1>9. CASE RunClose
  BY <1>9 DEF RunClose
<1>10. CASE BudgetExpires
  BY <1>10 DEF BudgetExpires
<1>11. CASE UNCHANGED quiet
  BY <1>11
<1> QED
  BY <1>1, <1>2, <1>3, <1>4, <1>5, <1>6, <1>7, <1>8, <1>9, <1>10, <1>11 DEF Next, Require,
     ServeTeardown, ServeRequire, Defer, DrainStart, DrainEnd, SetServer, ShutdownRecord,
     ShutdownCancel, ShutdownJoin, FnReturn, Goexit, HandlerReturn, Judge, CheckExit, UserShutdown, ParentCancel,
     ParentFire, SignalFire, SignalStop, Terminated, vars, Procs

----------------------------------------------------------------------------
(* The invariant holds in every state of the group. *)

(* The inductive invariant holds initially.                                *)
LEMMA InitInv == Init => IInv
<1> SUFFICES ASSUME Init PROVE IInv
  OBVIOUS
<1>1. TypeOK
  BY InitType
<1>2. OnceInv /\ NoSilentExit
  BY DEF Init, OnceInv, NoSilentExit, Actors
<1>3. RunInv /\ SpawnInv
  BY DEF Init, RunInv, SpawnInv, Actors, AfterStop, LivePC
<1>4. ServerInv /\ TeardownInv
  BY DEF Init, ServerInv, TeardownInv, Actors, Procs, Admitted, LivePC, AfterStop, AfterDrain
<1>5. ErrorInv
  BY DEF Init, ErrorInv, AfterStop, AfterDrain
<1>6. WgCounts
  <2>1. {p \in Procs : pc[p] \in LivePC} = {}
    BY DEF Init, Actors, LivePC
  <2> QED
    BY <2>1, FS_EmptySet DEF Init, WgCounts
<1>7. ResultInv
  BY DEF Init, ResultInv
<1> QED
  BY <1>1, <1>2, <1>3, <1>4, <1>5, <1>6, <1>7 DEF IInv

(* The inductive invariant is preserved by every step.                     *)
LEMMA NextInv == IInv /\ [Next]_vars => IInv'
<1> SUFFICES ASSUME IInv, [Next]_vars PROVE IInv'
  OBVIOUS
<1>1. TypeOK'
  BY PcStep, GroupStep, RegStep, RunTypeStep, FlagStep DEF IInv, TypeOK
<1>2. WgCounts'
  BY WgStep DEF IInv
<1>3. OnceInv' /\ RunInv' /\ SpawnInv' /\ NoSilentExit'
  BY OnceStep, RunInvStep, SpawnStep, ExitStep DEF IInv
<1>4. ServerInv' /\ TeardownInv' /\ ErrorInv'
  BY ServerStep, TeardownStep, ErrorStep DEF IInv
<1>5. ResultInv'
  BY ResultStep
<1> QED
  BY <1>1, <1>2, <1>3, <1>4, <1>5 DEF IInv

(* The inductive invariant of the group.                                   *)
THEOREM Invariance == Spec => []IInv
BY InitInv, NextInv, PTL DEF Spec

(* Every variable of the group keeps its type.                             *)
THEOREM Typing == Spec => []TypeOK
<1>1. IInv => TypeOK
  BY DEF IInv
<1> QED
  BY <1>1, Invariance, PTL

(* shutdown: the cause is recorded and registration closed before the      *)
(* context is cancelled, by one caller only.                               *)
THEOREM CauseRecordedFirst == Spec => []CauseBeforeCancel
<1>1. IInv => CauseBeforeCancel
  BY DEF IInv, OnceInv, CauseBeforeCancel
<1> QED
  BY <1>1, Invariance, PTL

(* requireNamed: a goroutine whose fn returned has ended only in a group   *)
(* that is cancelled; one that runtime.Goexit ended is not covered.        *)
THEOREM ExitsAreNoticed == Spec => []NoSilentExit
<1>1. IInv => NoSilentExit
  BY DEF IInv
<1> QED
  BY <1>1, Invariance, PTL

(* Serve: no admitted server is missing from the drain.                    *)
THEOREM ServersAreDrained == Spec => []NoOrphanServer
<1>1. IInv => NoOrphanServer
  <2> SUFFICES ASSUME IInv PROVE NoOrphanServer
    OBVIOUS
  <2>1. AfterDrain \subseteq AfterStop
    BY DEF AfterDrain, AfterStop
  <2> QED
    BY <2>1 DEF IInv, ServerInv, NoOrphanServer, Admitted, AfterDrain
<1> QED
  BY <1>1, Invariance, PTL

(* Ready: nothing registered before Run is left unspawned.                 *)
THEOREM ReadyIsComplete == Spec => []ReadyMeansSpawned
<1>1. IInv => ReadyMeansSpawned
  BY DEF IInv, RunInv, SpawnInv, ReadyMeansSpawned
<1> QED
  BY <1>1, Invariance, PTL

(* wg counts exactly the goroutines that run.                              *)
THEOREM WaitGroupCounts == Spec => []WgCounts
<1>1. IInv => WgCounts
  BY DEF IInv
<1> QED
  BY <1>1, Invariance, PTL

(* Run: unless cut short, its error misses no recorded error.              *)
THEOREM ErrorsAreComplete == Spec => []NoErrorLost
<1>1. IInv => NoErrorLost
  <2> SUFFICES ASSUME IInv, run \in {"close", "end"}, ~budget,
                      \A c \in Callers : caller[c] # "panicked"
               PROVE  /\ runErr = errs
                      /\ \A p \in Procs : ret[p] = "fail" => [what |-> "returned", by |-> p] \in ToSet(errs)
                      /\ \A s \in Servers : srv[s] = "cut" => [what |-> "drain", by |-> s] \in ToSet(errs)
    BY DEF NoErrorLost
  <2> DEFINE L == {q \in Procs : pc[q] \in LivePC}
  <2>1. wg = 0 /\ runErr = errs
    BY DEF IInv, ResultInv
  <2>2. IsFiniteSet(L) /\ Cardinality(L) = 0
    BY <2>1, GroupAssumption, FS_Subset DEF IInv, WgCounts
  <2>3. L = {}
    BY <2>2, FS_EmptySet
  <2>4. \A p \in Procs : pc[p] \notin {"returned", "collect", "record"}
    BY <2>3 DEF LivePC
  <2> QED
    BY <2>1, <2>4 DEF IInv, ErrorInv, AfterDrain
<1> QED
  BY <1>1, Invariance, PTL

(* register: no wg.Add once run waits.                                     *)
THEOREM NoWaitGroupRace == Spec => NoAddAfterWait
<1>1. IInv /\ [Next]_vars => [(run \in {"join", "close", "end"}) => (wg' <= wg)]_vars
  <2> SUFFICES ASSUME IInv, [Next]_vars, run \in {"join", "close", "end"} PROVE wg' <= wg
    OBVIOUS
  <2>1. stopped /\ wg \in Nat
    BY DEF IInv, RunInv, OnceInv, AfterStop, TypeOK, GroupType
  <2>2. ASSUME NEW p \in Procs, register(p) PROVE wg' <= wg
    BY <2>1, <2>2 DEF register
  <2>3. CASE RunSpawn
    BY <2>3 DEF RunSpawn
  <2>4. ASSUME NEW p \in Procs, WgDone(p) PROVE wg' <= wg
    BY <2>1, <2>4 DEF WgDone
  <2>5. CASE UNCHANGED wg
    BY <2>1, <2>5
  <2> QED
    BY <2>2, <2>3, <2>4, <2>5 DEF Next, Require,
       ServeTeardown, ServeRequire, Defer, DrainStart, DrainEnd, SetServer, ShutdownRecord,
       ShutdownCancel, ShutdownJoin, FnReturn, Goexit, HandlerReturn, Judge, collectError, CheckExit, UserShutdown,
       ParentCancel, ParentFire, SignalFire, SignalStop, RunCall, RunReturn, RunWatch, RunReady,
       RunStop, BudgetExpires, RunDrained, RunCallback, CallbackReturn, CallbackPanic,
       RunCallbacksEnd, RunJoin, RunClose, Terminated, vars, Procs
<1> QED
  BY <1>1, Invariance, PTL DEF Spec, NoAddAfterWait

(* The first of two concatenated sequences is a prefix of the whole.       *)
LEMMA PrefixOfConcat ==
    ASSUME NEW S, NEW q \in Seq(S), NEW r \in Seq(S)
    PROVE  IsPrefix(q, q \o r)
<1>1. Len(q) \in Nat /\ Len(r) \in Nat /\ Len(q \o r) = Len(q) + Len(r)
  OBVIOUS
<1>2. \A i \in 1..Len(q) : (q \o r)[i] = q[i]
  OBVIOUS
<1>3. SubSeq(q, 1, Len(q)) = SubSeq(q \o r, 1, Len(q))
  BY <1>1, <1>2
<1> QED
  BY <1>1, <1>3 DEF IsPrefix

(* Defer: callbacks run in registration order, after the servers, and all  *)
(* of them unless the budget is spent or one panics.                       *)
THEOREM TeardownsInOrder == Spec => []TeardownOrder
<1>1. IInv => TeardownOrder
  <2> SUFFICES ASSUME IInv PROVE TeardownOrder
    OBVIOUS
  <2> USE DEF IInv, TypeOK, RunType, RegType
  <2>1. IsPrefix(ran, teardowns)
    <3>1. CASE run \in AfterStop
      BY <3>1, PrefixOfConcat DEF TeardownInv
    <3>2. CASE run \notin AfterStop
      <4>1. ran = <<>> /\ <<>> \o teardowns = teardowns
        BY <3>2, ConcatEmptySeq DEF TeardownInv
      <4> QED
        BY <4>1, PrefixOfConcat
    <3> QED
      BY <3>1, <3>2
  <2>2. ASSUME ran # <<>> PROVE \A i \in DOMAIN serverTeardowns :
                                    srv[serverTeardowns[i]] \in {"drained", "cut"}
    <3>1. run \in AfterDrain /\ drains = serverTeardowns
      BY <2>2 DEF TeardownInv, RunPC, AfterDrain, AfterStop, ServerInv
    <3> QED
      BY <3>1 DEF ServerInv, ToSet
  <2>3. ASSUME run = "join", ~budget PROVE ran = teardowns
    BY <2>3, ConcatEmptySeq DEF TeardownInv, AfterStop
  <2> QED
    BY <2>1, <2>2, <2>3 DEF TeardownOrder
<1> QED
  BY <1>1, Invariance, PTL

(* The cause and Run's error never change once they are set.               *)
THEOREM OutcomeIsStable == Spec => StableOutcome
<1>1. IInv /\ [Next]_vars =>
        [ /\ once # "idle" => cause' = cause
          /\ done => runErr' = runErr /\ done' ]_vars
  <2> SUFFICES ASSUME IInv, [Next]_vars
               PROVE  (once # "idle" => cause' = cause) /\ (done => runErr' = runErr /\ done')
    OBVIOUS
  <2> USE DEF IInv, groupVars, regVars, runVars
  <2>1. once # "idle" => cause' = cause
    BY DEF Next, Require,
       ServeTeardown, ServeRequire, Defer, DrainStart, DrainEnd, SetServer, ShutdownRecord,
       ShutdownCancel, ShutdownJoin, FnReturn, Goexit, HandlerReturn, Judge, collectError, CheckExit, WgDone, UserShutdown,
       ParentCancel, ParentFire, SignalFire, SignalStop, RunCall, RunReturn, RunSpawn, RunWatch, RunReady,
       RunStop, BudgetExpires, RunDrained, RunCallback, CallbackReturn, CallbackPanic,
       RunCallbacksEnd, RunJoin, RunClose, Terminated, vars
  <2>2. ASSUME done PROVE runErr' = runErr /\ done'
    <3>1. run = "end"
      BY <2>2 DEF RunInv
    <3> QED
      BY <2>2, <3>1 DEF Next, Require,
       ServeTeardown, ServeRequire, Defer, DrainStart, DrainEnd, SetServer, ShutdownRecord,
       ShutdownCancel, ShutdownJoin, FnReturn, Goexit, HandlerReturn, Judge, collectError, CheckExit, WgDone, UserShutdown,
       ParentCancel, ParentFire, SignalFire, SignalStop, RunCall, RunReturn, RunSpawn, RunWatch, RunReady,
       RunStop, BudgetExpires, RunDrained, RunCallback, CallbackReturn, CallbackPanic,
       RunCallbacksEnd, RunJoin, RunClose, Terminated, vars
  <2> QED
    BY <2>1, <2>2
<1> QED
  BY <1>1, Invariance, PTL DEF Spec, StableOutcome
=============================================================================
