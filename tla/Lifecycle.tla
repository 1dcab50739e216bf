----------------------------- MODULE Lifecycle -----------------------------
(***************************************************************************)
(* lifecycle.Group: startup and graceful shutdown of an application.       *)
(*                                                                         *)
(* The processes are the goroutines that Require and Serve register, the   *)
(* goroutines that watch the parent context and the signals, a user that   *)
(* calls Shutdown, and the callers of Run.  A critical section of Group.mu *)
(* is one action; everything the code does outside the mutex is separate.  *)
(* Each name is registered at most once, the bound of the model.           *)
(***************************************************************************)
EXTENDS Integers, Sequences, SequencesExt, FiniteSets

CONSTANTS Tasks,      \* names given to Require
          Servers,    \* names given to Serve
          Callbacks,  \* callbacks given to Defer
          Callers,    \* goroutines that call Run
          Watchers    \* who may call shutdown: "user" if someone calls
                      \* Shutdown, "parent" if the group was built
                      \* WithContext, "signal" if WithSignals

Procs  == Tasks \cup Servers
Actors == Procs \cup Watchers

ASSUME GroupAssumption ==
    /\ IsFiniteSet(Procs)
    /\ Tasks \cap Servers = {}
    /\ Watchers \subseteq {"user", "parent", "signal"}
    /\ Procs \cap {"user", "parent", "signal"} = {}

(* An actor whose pc is a cause kind is about to call shutdown with it.    *)
CauseKinds == {"nil", "signal", "parent", "failed", "exit"}

(* The errors kept in Group.errs: what a goroutine returned, or the error  *)
(* of a server that did not drain.                                         *)
Errors == [what : {"returned", "drain"}, by : Procs]

VARIABLES
    pc,               \* control state of every actor
    ret,              \* what each goroutine's fn returned, "goexit" if the
                      \* goroutine was ended by runtime.Goexit instead
    started, stopped, \* Group.started, Group.stopped
    ctxErr,           \* Group.ctx is cancelled
    parentErr,        \* the parent context is cancelled
    once,             \* shutdownOnce: "idle", "busy" or "done"
    cause,            \* Group.cause
    serverTeardowns,  \* Group.serverTeardowns
    teardowns,        \* Group.teardowns
    deferCalls,       \* the callbacks Defer has been called with
    errs,             \* Group.errs
    wg,               \* the counter of Group.wg
    run,              \* control state of run()
    drains, todo,     \* run's copies of serverTeardowns and teardowns
    srv,              \* state of each http.Server
    ran,              \* callbacks run so far, in the order they ran
    budget,           \* overallCtx is done
    ready, done,      \* Group.ready and Group.done are closed
    runErr,           \* Group.runErr
    caller            \* control state of every caller of Run

groupVars == <<started, stopped, ctxErr, once, cause>>
regVars   == <<serverTeardowns, teardowns, deferCalls>>
runVars   == <<run, drains, todo, srv, ran, budget, ready, done, runErr, caller>>
vars == <<pc, ret, groupVars, parentErr, regVars, errs, wg, runVars>>

(* A nil error: what ShutdownCause returns before shutdown and after an    *)
(* explicit Shutdown.                                                      *)
NilCause == [why |-> "nil", who |-> "user"]

(* Goroutines that count in wg.                                            *)
LivePC == {"running", "returned", "collect", "record", "check", "failed", "exit",
           "cancel", "exiting"}

ProcPC    == {"absent", "serving", "dropped", "pending", "taken", "done"} \cup LivePC
WatcherPC == {"absent", "armed", "nil", "signal", "parent", "cancel", "done"}
RunPC     == {"idle", "spawn", "ready", "wait", "drain", "callbacks",
              "incallback", "join", "close", "end"}

PcType ==
    /\ pc \in [Actors -> ProcPC \cup WatcherPC]
    /\ \A p \in Procs : pc[p] \in ProcPC
    /\ \A w \in Watchers : pc[w] \in WatcherPC

GroupType ==
    /\ once \in {"idle", "busy", "done"}
    /\ cause \in [why : CauseKinds, who : Actors \cup {"user"}]
    /\ ret \in [Procs -> {"none", "nil", "ctx", "fail", "goexit"}]
    /\ errs \in Seq(Errors)
    /\ wg \in Nat

RegType ==
    /\ serverTeardowns \in Seq(Servers)
    /\ teardowns \in Seq(Callbacks)
    /\ deferCalls \in SUBSET Callbacks

RunType ==
    /\ run \in RunPC
    /\ drains \in Seq(Servers) /\ todo \in Seq(Callbacks)
    /\ srv \in [Servers -> {"open", "closing", "drained", "cut"}]
    /\ ran \in Seq(Callbacks)
    /\ runErr \in Seq(Errors)
    /\ caller \in [Callers -> {"idle", "running", "waiting", "returned", "panicked"}]

FlagType ==
    /\ started \in BOOLEAN /\ stopped \in BOOLEAN
    /\ ctxErr \in BOOLEAN /\ parentErr \in BOOLEAN
    /\ budget \in BOOLEAN /\ ready \in BOOLEAN /\ done \in BOOLEAN

TypeOK == PcType /\ GroupType /\ RegType /\ RunType /\ FlagType

(* New *)
Init ==
    /\ pc = [a \in Actors |-> "absent"]
    /\ ret = [p \in Procs |-> "none"]
    /\ started = FALSE /\ stopped = FALSE
    /\ ctxErr = FALSE /\ parentErr = FALSE
    /\ once = "idle" /\ cause = NilCause
    /\ serverTeardowns = <<>> /\ teardowns = <<>> /\ deferCalls = {}
    /\ errs = <<>> /\ wg = 0
    /\ run = "idle" /\ drains = <<>> /\ todo = <<>>
    /\ srv = [s \in Servers |-> "open"]
    /\ ran = <<>>
    /\ budget = FALSE /\ ready = FALSE /\ done = FALSE
    /\ runErr = <<>>
    /\ caller = [c \in Callers |-> "idle"]

Goto(a, label) == pc' = [pc EXCEPT ![a] = label]

----------------------------------------------------------------------------
(* Registration *)

(* Mutant: the test of stopped is forgotten.                               *)
registerIgnoringStop(p) ==
    \/ started /\ Goto(p, "running") /\ wg' = wg + 1
    \/ ~started /\ Goto(p, "pending") /\ UNCHANGED wg

(* register: dropped once stopped, counted in wg and started once Run has  *)
(* started, otherwise left for Run to start.                               *)
register(p) ==
    \/ /\ stopped
       /\ Goto(p, "dropped") /\ UNCHANGED wg
    \/ /\ ~stopped /\ started
       /\ Goto(p, "running") /\ wg' = wg + 1
    \/ /\ ~stopped /\ ~started
       /\ Goto(p, "pending") /\ UNCHANGED wg

Require(p) ==
    /\ p \in Tasks /\ pc[p] = "absent"
    /\ register(p)
    /\ UNCHANGED <<ret, groupVars, parentErr, regVars, errs, runVars>>

(* The first critical section of Serve.                                    *)
ServeTeardown(s) ==
    /\ s \in Servers /\ pc[s] = "absent"
    /\ Goto(s, "serving")
    /\ serverTeardowns' = IF stopped THEN serverTeardowns
                                     ELSE Append(serverTeardowns, s)
    /\ UNCHANGED <<ret, groupVars, parentErr, teardowns, deferCalls, errs, wg, runVars>>

(* The second: the server becomes a required goroutine.                    *)
ServeRequire(s) ==
    /\ s \in Servers /\ pc[s] = "serving"
    /\ register(s)
    /\ UNCHANGED <<ret, groupVars, parentErr, regVars, errs, runVars>>

Defer(f) ==
    /\ f \in Callbacks \ deferCalls
    /\ deferCalls' = deferCalls \cup {f}
    /\ teardowns' = IF stopped THEN teardowns ELSE Append(teardowns, f)
    /\ UNCHANGED <<pc, ret, groupVars, parentErr, serverTeardowns, errs, wg, runVars>>

----------------------------------------------------------------------------
(* shutdown, called by every actor.  sync.Once makes the losers wait until *)
(* the winner has cancelled the context.                                   *)

Returned(a) == IF a \in Procs THEN "exiting" ELSE "done"

(* Mutant: the context is cancelled before the cause is recorded.          *)
ShutdownRecordCancelFirst(a) ==
    /\ pc[a] \in CauseKinds /\ once = "idle"
    /\ once' = "busy" /\ ctxErr' = TRUE
    /\ Goto(a, "cancel")
    /\ UNCHANGED <<ret, started, stopped, cause, parentErr, regVars, errs, wg, runVars>>

ShutdownRecord(a) ==
    /\ pc[a] \in CauseKinds /\ once = "idle"
    /\ once' = "busy"
    /\ cause' = [why |-> pc[a], who |-> a]
    /\ stopped' = TRUE
    /\ Goto(a, "cancel")
    /\ UNCHANGED <<ret, started, ctxErr, parentErr, regVars, errs, wg, runVars>>

ShutdownCancel(a) ==
    /\ pc[a] = "cancel"
    /\ once' = "done"
    /\ ctxErr' = TRUE
    /\ Goto(a, Returned(a))
    /\ UNCHANGED <<ret, started, stopped, cause, parentErr, regVars, errs, wg, runVars>>

(* Mutant: a flag instead of a once, so that a loser does not wait.        *)
ShutdownJoinNoWait(a) ==
    /\ pc[a] \in CauseKinds /\ once # "idle"
    /\ Goto(a, Returned(a))
    /\ UNCHANGED <<ret, groupVars, parentErr, regVars, errs, wg, runVars>>

ShutdownJoin(a) ==
    /\ pc[a] \in CauseKinds /\ once = "done"
    /\ Goto(a, Returned(a))
    /\ UNCHANGED <<ret, groupVars, parentErr, regVars, errs, wg, runVars>>

(* Shutdown, called by a user of the group.                                *)
UserShutdown ==
    /\ "user" \in Watchers /\ pc["user"] = "absent"
    /\ Goto("user", "nil")
    /\ UNCHANGED <<ret, groupVars, parentErr, regVars, errs, wg, runVars>>

(* Environment: the parent of WithContext is cancelled.                    *)
ParentCancel ==
    /\ "parent" \in Watchers /\ ~parentErr
    /\ parentErr' = TRUE
    /\ UNCHANGED <<pc, ret, groupVars, regVars, errs, wg, runVars>>

(* The context.AfterFunc goroutine starts.                                 *)
ParentFire ==
    /\ "parent" \in Watchers /\ pc["parent"] = "armed" /\ parentErr
    /\ Goto("parent", "parent")
    /\ UNCHANGED <<ret, groupVars, parentErr, regVars, errs, wg, runVars>>

(* The select of the signal goroutine.                                     *)
SignalFire ==
    /\ "signal" \in Watchers /\ pc["signal"] = "armed"
    /\ Goto("signal", "signal")
    /\ UNCHANGED <<ret, groupVars, parentErr, regVars, errs, wg, runVars>>

SignalStop ==
    /\ "signal" \in Watchers /\ pc["signal"] = "armed" /\ ctxErr
    /\ Goto("signal", "done")
    /\ UNCHANGED <<ret, groupVars, parentErr, regVars, errs, wg, runVars>>

----------------------------------------------------------------------------
(* A required goroutine: the body built by requireNamed *)

shuttingDown == ctxErr \/ parentErr

(* fn returns.  A task may return nil, a context error or any other error  *)
(* at any time.  ListenAndServe returns ErrServerClosed, which Serve turns *)
(* into nil, once Shutdown was called on the server, and any other error   *)
(* at any time.                                                            *)
FnReturn(p) ==
    /\ pc[p] = "running"
    /\ \E r \in {"nil", "ctx", "fail"} :
         /\ p \in Servers => r = "fail" \/ (r = "nil" /\ srv[p] # "open")
         /\ ret' = [ret EXCEPT ![p] = r]
    /\ Goto(p, "returned")
    /\ UNCHANGED <<groupVars, parentErr, regVars, errs, wg, runVars>>

(* fn, or the error handler, calls runtime.Goexit: nothing of requireNamed *)
(* and collectError that follows is executed, only the deferred wg.Done.   *)
(* ListenAndServe does not call it.                                        *)
Goexit(p) ==
    /\ pc[p] = "collect" \/ (p \in Tasks /\ pc[p] = "running")
    /\ ret' = [ret EXCEPT ![p] = "goexit"]
    /\ Goto(p, "exiting")
    /\ UNCHANGED <<groupVars, parentErr, regVars, errs, wg, runVars>>

(* Is what fn returned an error to collect?                                *)
Judge(p) ==
    /\ pc[p] = "returned"
    /\ IF ret[p] # "nil" /\ (~shuttingDown \/ ret[p] # "ctx")
         THEN Goto(p, "collect") ELSE Goto(p, "check")
    /\ UNCHANGED <<ret, groupVars, parentErr, regVars, errs, wg, runVars>>

(* The error handler of WithErrorHandler returns, if it ever does.         *)
HandlerReturn(p) ==
    /\ pc[p] = "collect"
    /\ Goto(p, "record")
    /\ UNCHANGED <<ret, groupVars, parentErr, regVars, errs, wg, runVars>>

collectError(p) ==
    /\ pc[p] = "record"
    /\ errs' = Append(errs, [what |-> "returned", by |-> p])
    /\ Goto(p, "failed")
    /\ UNCHANGED <<ret, groupVars, parentErr, regVars, wg, runVars>>

(* Was it a premature exit?                                                *)
CheckExit(p) ==
    /\ pc[p] = "check"
    /\ Goto(p, IF ctxErr THEN "exiting" ELSE "exit")
    /\ UNCHANGED <<ret, groupVars, parentErr, regVars, errs, wg, runVars>>

(* wg.Done *)
WgDone(p) ==
    /\ p \in Procs /\ pc[p] = "exiting"
    /\ wg' = wg - 1
    /\ Goto(p, "done")
    /\ UNCHANGED <<ret, groupVars, parentErr, regVars, errs, runVars>>

----------------------------------------------------------------------------
(* Run *)

(* runOnce.Do: the first caller executes run, the others wait.             *)
RunCall(c) ==
    /\ caller[c] = "idle"
    /\ IF run = "idle"
         THEN /\ caller' = [caller EXCEPT ![c] = "running"]
              /\ run' = "spawn"
              /\ started' = TRUE
              /\ pc' = [a \in Actors |-> IF pc[a] = "pending" THEN "taken" ELSE pc[a]]
         ELSE /\ caller' = [caller EXCEPT ![c] = "waiting"]
              /\ UNCHANGED <<run, started, pc>>
    /\ UNCHANGED <<ret, stopped, ctxErr, once, cause, parentErr, regVars, errs, wg,
                   drains, todo, srv, ran, budget, ready, done, runErr>>

(* wg.Go for one of the goroutines registered before Run.                  *)
RunSpawn ==
    /\ run = "spawn"
    /\ \E p \in Procs : pc[p] = "taken" /\ Goto(p, "running")
    /\ wg' = wg + 1
    /\ UNCHANGED <<ret, groupVars, parentErr, regVars, errs, runVars>>

(* The parent and the signals are watched.                                 *)
RunWatch ==
    /\ run = "spawn" /\ \A p \in Procs : pc[p] # "taken"
    /\ run' = "ready"
    /\ pc' = [a \in Actors |-> IF a \in {"parent", "signal"} THEN "armed" ELSE pc[a]]
    /\ UNCHANGED <<ret, groupVars, parentErr, regVars, errs, wg,
                   drains, todo, srv, ran, budget, ready, done, runErr, caller>>

RunReady ==
    /\ run = "ready"
    /\ ready' = TRUE
    /\ run' = "wait"
    /\ UNCHANGED <<pc, ret, groupVars, parentErr, regVars, errs, wg,
                   drains, todo, srv, ran, budget, done, runErr, caller>>

(* The context is cancelled: registration closes, the teardowns are        *)
(* copied and overallCtx starts.                                           *)
RunStop ==
    /\ run = "wait" /\ ctxErr
    /\ run' = "drain"
    /\ stopped' = TRUE
    /\ drains' = serverTeardowns
    /\ todo' = teardowns
    /\ UNCHANGED <<pc, ret, started, ctxErr, once, cause, parentErr, regVars, errs, wg,
                   srv, ran, budget, ready, done, runErr, caller>>

(* Environment: the graceful budget is spent.                              *)
BudgetExpires ==
    /\ run \in {"drain", "callbacks", "incallback", "join"}
    /\ ~budget /\ budget' = TRUE
    /\ UNCHANGED <<pc, ret, groupVars, parentErr, regVars, errs, wg,
                   run, drains, todo, srv, ran, ready, done, runErr, caller>>

SetServer(s, state) ==
    /\ srv' = [srv EXCEPT ![s] = state]
    /\ UNCHANGED <<pc, ret, groupVars, parentErr, regVars, errs, wg,
                   run, drains, todo, ran, budget, ready, done, runErr, caller>>

(* server.Shutdown is called, in a goroutine of its own.                   *)
DrainStart(s) ==
    /\ run = "drain" /\ s \in ToSet(drains) /\ srv[s] = "open"
    /\ SetServer(s, "closing")

(* It returns nil when the connections are idle, and an error on the       *)
(* deadline or when a listener does not close; Close follows an error.     *)
DrainEnd(s) ==
    /\ srv[s] = "closing"
    /\ \E state \in {"drained", "cut"} : SetServer(s, state)

Cut == {s \in ToSet(drains) : srv[s] = "cut"}

InOrderOf(s, t, seq) ==
    \E i, j \in DOMAIN seq : i < j /\ seq[i] = s /\ seq[j] = t

(* drains.Wait returns and the errors are appended in registration order.  *)
RunDrained ==
    /\ run = "drain" /\ \A s \in ToSet(drains) : srv[s] \in {"drained", "cut"}
    /\ \E q \in [1..Cardinality(Cut) -> Cut] :
         /\ ToSet(q) = Cut
         /\ \A i, j \in DOMAIN q : i < j => InOrderOf(q[i], q[j], drains)
         /\ errs' = errs \o [i \in DOMAIN q |-> [what |-> "drain", by |-> q[i]]]
    /\ run' = "callbacks"
    /\ UNCHANGED <<pc, ret, groupVars, parentErr, regVars, wg,
                   drains, todo, srv, ran, budget, ready, done, runErr, caller>>

(* Mutant: callbacks run in reverse order.                                 *)
RunCallbackLIFO ==
    /\ run = "callbacks" /\ todo # <<>> /\ ~budget
    /\ ran' = Append(ran, Last(todo))
    /\ todo' = Front(todo)
    /\ run' = "incallback"
    /\ UNCHANGED <<pc, ret, groupVars, parentErr, regVars, errs, wg,
                   drains, srv, budget, ready, done, runErr, caller>>

RunCallback ==
    /\ run = "callbacks" /\ todo # <<>> /\ ~budget
    /\ ran' = Append(ran, Head(todo))
    /\ todo' = Tail(todo)
    /\ run' = "incallback"
    /\ UNCHANGED <<pc, ret, groupVars, parentErr, regVars, errs, wg,
                   drains, srv, budget, ready, done, runErr, caller>>

CallbackReturn ==
    /\ run = "incallback"
    /\ run' = "callbacks"
    /\ UNCHANGED <<pc, ret, groupVars, parentErr, regVars, errs, wg,
                   drains, todo, srv, ran, budget, ready, done, runErr, caller>>

(* Mutant: close(done) is not deferred.                                    *)
CallbackPanicNoClose ==
    /\ run = "incallback"
    /\ run' = "end"
    /\ caller' = [c \in Callers |-> IF caller[c] = "running" THEN "panicked" ELSE caller[c]]
    /\ UNCHANGED <<pc, ret, groupVars, parentErr, regVars, errs, wg,
                   drains, todo, srv, ran, budget, ready, done, runErr>>

(* The callback panics, or calls Goexit: run is abandoned, its deferred    *)
(* calls execute.                                                          *)
CallbackPanic ==
    /\ run = "incallback"
    /\ run' = "close"
    /\ caller' = [c \in Callers |-> IF caller[c] = "running" THEN "panicked" ELSE caller[c]]
    /\ UNCHANGED <<pc, ret, groupVars, parentErr, regVars, errs, wg,
                   drains, todo, srv, ran, budget, ready, done, runErr>>

RunCallbacksEnd ==
    /\ run = "callbacks" /\ (todo = <<>> \/ budget)
    /\ run' = "join"
    /\ UNCHANGED <<pc, ret, groupVars, parentErr, regVars, errs, wg,
                   drains, todo, srv, ran, budget, ready, done, runErr, caller>>

(* Mutant: run does not wait for the goroutines.                           *)
RunJoinEarly ==
    /\ run = "join"
    /\ runErr' = errs
    /\ run' = "close"
    /\ UNCHANGED <<pc, ret, groupVars, parentErr, regVars, errs, wg,
                   drains, todo, srv, ran, budget, ready, done, caller>>

(* wg.Wait returns, or the budget is spent; the errors are joined.         *)
RunJoin ==
    /\ run = "join" /\ (wg = 0 \/ budget)
    /\ runErr' = errs
    /\ run' = "close"
    /\ UNCHANGED <<pc, ret, groupVars, parentErr, regVars, errs, wg,
                   drains, todo, srv, ran, budget, ready, done, caller>>

(* The deferred calls: the parent is no longer watched, done is closed.    *)
RunClose ==
    /\ run = "close"
    /\ run' = "end"
    /\ done' = TRUE
    /\ pc' = [a \in Actors |-> IF a = "parent" /\ pc[a] = "armed" THEN "done" ELSE pc[a]]
    /\ UNCHANGED <<ret, groupVars, parentErr, regVars, errs, wg,
                   drains, todo, srv, ran, budget, ready, runErr, caller>>

RunReturn(c) ==
    /\ caller[c] \in {"running", "waiting"} /\ done
    /\ caller' = [caller EXCEPT ![c] = "returned"]
    /\ UNCHANGED <<pc, ret, groupVars, parentErr, regVars, errs, wg,
                   run, drains, todo, srv, ran, budget, ready, done, runErr>>

(* Run has returned everywhere and every goroutine has ended.              *)
Terminated ==
    /\ done /\ \A c \in Callers : caller[c] \in {"returned", "panicked"}
    /\ \A p \in Procs : pc[p] \in {"dropped", "done"}
    /\ \A w \in Watchers : pc[w] = "done"
    /\ UNCHANGED vars

Next ==
    \/ \E p \in Tasks : Require(p)
    \/ \E s \in Servers : ServeTeardown(s) \/ ServeRequire(s) \/ DrainStart(s) \/ DrainEnd(s)
    \/ \E f \in Callbacks : Defer(f)
    \/ \E a \in Actors : ShutdownRecord(a) \/ ShutdownCancel(a) \/ ShutdownJoin(a)
    \/ \E p \in Procs : \/ FnReturn(p) \/ Goexit(p) \/ Judge(p) \/ HandlerReturn(p)
                        \/ collectError(p) \/ CheckExit(p) \/ WgDone(p)
    \/ UserShutdown \/ ParentCancel \/ ParentFire \/ SignalFire \/ SignalStop
    \/ \E c \in Callers : RunCall(c) \/ RunReturn(c)
    \/ RunSpawn \/ RunWatch \/ RunReady \/ RunStop \/ BudgetExpires \/ RunDrained
    \/ RunCallback \/ CallbackReturn \/ CallbackPanic \/ RunCallbacksEnd
    \/ RunJoin \/ RunClose
    \/ Terminated

Spec == Init /\ [][Next]_vars

(***************************************************************************)
(* Fairness.  The Go scheduler runs every goroutine that can run: the      *)
(* steps of run, of shutdown and of a goroutine that has returned from its *)
(* fn.  AfterFunc starts its function once the parent is cancelled, the    *)
(* timer of overallCtx fires, and server.Shutdown returns once its context *)
(* is done.  Nothing is assumed of what the user supplies: fn, the error   *)
(* handler and the callbacks may never return.  Nor is anything assumed of *)
(* a signal, of the parent or of a user.                                   *)
(***************************************************************************)
RunStep ==
    \/ RunSpawn \/ RunWatch \/ RunReady \/ RunStop \/ RunDrained \/ RunCallback
    \/ RunCallbacksEnd \/ RunJoin \/ RunClose

GoStep(a) == ShutdownRecord(a) \/ ShutdownCancel(a) \/ ShutdownJoin(a)

FnStep(p) == Judge(p) \/ collectError(p) \/ CheckExit(p) \/ WgDone(p)

Fairness ==
    /\ WF_vars(RunStep)
    /\ \A a \in Actors : WF_vars(GoStep(a))
    /\ \A p \in Procs : WF_vars(FnStep(p))
    /\ WF_vars(ParentFire)
    /\ WF_vars(BudgetExpires)
    /\ \A s \in Servers : WF_vars(DrainStart(s)) /\ WF_vars(budget /\ DrainEnd(s))
    /\ \A c \in Callers : WF_vars(RunReturn(c))

FairSpec == Spec /\ Fairness

----------------------------------------------------------------------------
(* Properties *)

(* The group's context is cancelled only after the cause is recorded and   *)
(* registration is closed, by the one caller of shutdown that won          *)
(* (WithContext: "it is cancelled only once shutdown begins, after the     *)
(* cause has been recorded").  The winner is the actor the cause names.    *)
CauseBeforeCancel ==
    /\ ctxErr => stopped /\ once = "done"
    /\ \A a \in Actors : pc[a] = "cancel" => once = "busy" /\ cause.who = a
    /\ once # "idle" => pc[cause.who] \in {"cancel", "exiting", "done"}

(* A required goroutine whose fn returned is never gone from a group that *)
(* keeps running: when it has ended, after whatever its fn returned and    *)
(* whatever it read on the way, the context is cancelled (requireNamed).   *)
(* A goroutine that runtime.Goexit ended is exempt: it skips the check.    *)
NoSilentExit ==
    \A p \in Procs : pc[p] \in {"exiting", "done"} /\ ret[p] # "goexit" => ctxErr

(* A server whose goroutine was admitted is in every shutdown: once run is *)
(* past draining, Shutdown has returned for it (Serve: "the goroutine is   *)
(* never left running without it").                                        *)
NoOrphanServer ==
    \A s \in Servers :
        pc[s] \in LivePC \cup {"pending", "taken", "done"} =>
            /\ s \in ToSet(serverTeardowns)
            /\ run \in {"callbacks", "incallback", "join", "close", "end"} =>
                 srv[s] \in {"drained", "cut"}

(* Callbacks run in registration order, each at most once, none before the *)
(* servers are drained; unless the budget was spent or one panicked, all   *)
(* that Defer accepted have run before run waits for the goroutines.       *)
TeardownOrder ==
    /\ IsPrefix(ran, teardowns)
    /\ ran # <<>> => \A i \in DOMAIN serverTeardowns :
                         srv[serverTeardowns[i]] \in {"drained", "cut"}
    /\ run = "join" /\ ~budget => ran = teardowns

(* Unless the budget was spent or a callback panicked, Run's error holds   *)
(* the error of every goroutine that failed and of every server that was   *)
(* cut, and nothing is recorded after it was taken.  An error handler that *)
(* calls Goexit takes the error with it: that goroutine is not counted.    *)
NoErrorLost ==
    run \in {"close", "end"} /\ ~budget /\ (\A c \in Callers : caller[c] # "panicked") =>
        /\ runErr = errs
        /\ \A p \in Procs : ret[p] = "fail" => [what |-> "returned", by |-> p] \in ToSet(errs)
        /\ \A s \in Servers : srv[s] = "cut" => [what |-> "drain", by |-> s] \in ToSet(errs)

(* Ready: every goroutine registered before Run has been spawned, and none *)
(* is ever left behind in the pending list of a running group.             *)
ReadyMeansSpawned ==
    /\ ready => \A p \in Procs : pc[p] \notin {"pending", "taken"}
    /\ run # "idle" => \A p \in Procs : pc[p] # "pending"

(* wg counts the goroutines that were started and have not ended.          *)
WgCounts == wg = Cardinality({p \in Procs : pc[p] \in LivePC})

(* Once run waits on wg no goroutine is added to it: register's "wg.Add    *)
(* under the mutex prevents a WaitGroup race".                             *)
NoAddAfterWait ==
    [][(run \in {"join", "close", "end"}) => (wg' <= wg)]_vars

(* The cause and the result are stable: whatever wins shutdown stays the   *)
(* cause, and once done is closed every caller of Run reads the same error.*)
StableOutcome ==
    [][ /\ once # "idle" => cause' = cause
        /\ done => runErr' = runErr /\ done' ]_vars

(* Once something asks a group to stop (a call of shutdown, the end of the *)
(* parent context, a goroutine whose fn has returned nil or whose error    *)
(* the handler has let go), Run returns to every caller or is held by a    *)
(* callback that has not returned.  A callback starts once, so a caller is *)
(* kept for ever only by one that never returns (WithGracefulTimeout: "a   *)
(* callback that ignores its context holds Run past the budget"), never by *)
(* an fn, a server or an error handler that hangs, nor by a callback that  *)
(* panics.                                                                 *)
Triggered ==
    \/ stopped \/ parentErr
    \/ \E p \in Procs : pc[p] \in {"record", "check"} \/ (pc[p] = "returned" /\ ret[p] = "nil")

ShutdownCompletes ==
    \A c \in Callers :
        (caller[c] \in {"running", "waiting"} /\ Triggered) ~>
            (caller[c] \in {"returned", "panicked"} \/ run = "incallback")

----------------------------------------------------------------------------
(* What the documentation says and the code does not do. *)

(* WithContext: "When the parent context is cancelled, shutdown is         *)
(* triggered and ShutdownCause returns the parent's cause".  A goroutine   *)
(* whose context error counts as a clean stop only because the parent is   *)
(* cancelled is not the cause of the shutdown.                             *)
CleanStopIsNotTheCause ==
    cause.why = "exit" => ret[cause.who] # "ctx"
=============================================================================
