# albstractions: TLA+ models, checks and proofs

This directory holds TLA+ specifications of the packages of albstractions that
keep state between calls or depend on the order of their steps: the lifecycle
group, the caches, the throttle and the retry loop with their schedules, and the
loading and making of certificates. Every action is translated from the Go
source; `PROJECT.json` maps each definition to its lines. The specifications are
checked with TLC on small instances and, where marked, proved with TLAPS for
every value of the constants.

## The system and its parts

albstractions is a set of independent Go modules. They share no state; where
one uses another it does so through a small interface (a `Cache` wraps a
`Cache`, a `Throttle` and a `Retry` take a `Schedule`).

| Part | State | Operations | What is hard |
|---|---|---|---|
| `lifecycle.Group` | flags `started`, `stopped`; lists of pending goroutines, server teardowns, callbacks and errors; `cause`; a WaitGroup; the channels `ready`, `done` | `Require`, `Serve`, `Defer`, `Shutdown`, `Run`, the watchers of a parent context and of signals | registration racing shutdown, several causes at once, goroutines, servers and callbacks that do not stop, panics |
| `cache.WriteThrough` | the front, the backing store, a table of per-key locks with reference counts | `SetContext`, `DeleteContext`, reads of the front | lock objects created and removed while others wait for them, cancelled waiters, a failure between store and front |
| `cache.ReadThrough` | the front, the map of loads in flight | `GetContext`, pass-through writes | shared loads whose leader fails, panics, calls Goexit or is cancelled |
| `cache.Memory`, `ttl.go` | a map of entries with expiries, two background loops | `Get`, `Set`, `Delete`, `Items`, `Close`, janitor, rebuild | clock readings taken before the lock is held; saturating time arithmetic; clamping |
| `cache.Sharded` | the shards | routing, `ItemsContext`, `Close` | an iteration over shards that change meanwhile |
| `throttle.Throttle`, `RoundTripper` | a semaphore, `nextAllowed` | `Do`, `RoundTrip` | cancellation in the queue, in the paced wait and in the selects; slots and request bodies on every path |
| `retry.Retry`, `stop.go` | none of its own; the schedule's | `Do`, the stop functions | reuse and sharing of a stateful schedule, cancellation in the wait |
| `schedule.*` | the current backoff; a limiter's tokens | `Next`, `Reset`, `Wait` | rounding and truncation, reservations of cancelled callers, opaque errors |
| `certkit/keyloader`, `mock`, `mtls` | slices that hold a key, free functions; the mock's files | `FromEnv`, `FromFile`, `NewTLSConfig` | which slices are cleared on which path, files rotated between two reads |
| `certkit/pki` | none; the clock | `GenerateCA`, the three leaf generators | a check of the clock before a slow step |

What each must guarantee is the list of properties below; the places in the
code where they could fail are the `hazards` of `PROJECT.json`.

## Modules

| Module | Models | Uses |
|---|---|---|
| `Lifecycle` | `lifecycle/lifecycle.go` | |
| `WriteThrough` | `cache/writethrough.go` | `KeyedStore`, which it implements |
| `KeyedStore` | what `WriteThrough` promises | |
| `ReadThrough` | `cache/readthrough.go` | |
| `Expiry` | `cache/ttl.go`, and `expired` of `memory.go` | |
| `Memory` | `cache/memory.go` | extends `Expiry` |
| `Sharded` | `cache/sharded.go` over backends that are `Memory` | extends `Memory` |
| `Throttle` | `throttle/throttle.go`, `throttle/roundtripper.go`, for any schedule and any `Waiter` | |
| `TokenBucket` | `schedule/tokenbucket.go` as the `Waiter` of `Throttle` | extends `Throttle` |
| `Schedules` | `schedule/constant.go`, `uniform.go`, `exponential.go` | |
| `Retry` | `retry/retry.go`, `retry/stop.go` over those schedules | extends `Schedules` |
| `Keyloader` | `certkit/keyloader`, its `mock`, `certkit/mtls` | |
| `Pki` | `certkit/pki/pki.go` | |

The theorems are in `LifecycleProofs`, `WriteThroughProofs`, `ReadThroughProofs`,
`MemoryProofs` (`Expiry`, `Memory`, `Sharded`), `ThrottleProofs` (`Throttle`,
`TokenBucket`), `RetryProofs` (`Schedules`, `Retry`) and `CertkitProofs`
(`Keyloader`, `Pki`); `NaturalFacts` has the facts about natural numbers that the
last three share. `MC<M>` and its cfg files (`MC<M>.cfg`, or
`MC<M>_<name>.cfg` where there are several) are the instances for TLC;
`MCCertkit` is one for both modules of certkit, which share no state: each of its
behaviours works in one of them. Definitions whose comment starts with "Mutant"
are plausible bugs of the definition that follows them; they are not part of a
specification.
Putting one in place of the definition makes TLC report the property that is
listed with it in `PROJECT.json`, which shows that the property can fail.

### How code becomes actions

A goroutine has a control state in `pc`. A critical section of a mutex is one
action; so is a call of a user's function, split into the call and the return
where others may act in between. Reads of a context, a clock or a flag outside
the mutex are actions of their own when their result is used later. A `select`
is one action per case; when several are ready any may be taken, as in Go. A
goroutine that is in front of a `select` may reach it late, so a case that
became ready second may still win. Contexts are sets of callers whose context
has ended (`ctxDone`); `CtxEnds` may happen at any time during a call. Clocks
advance by an environment action, `Advance`.

**Lifecycle.** `register`, `Require`, `ServeTeardown` and `ServeRequire` (the two
critical sections of `Serve`) and `Defer` are the registration. `ShutdownRecord`,
`ShutdownCancel` and `ShutdownJoin` are `shutdown`: the winner of `shutdownOnce`
records, then cancels, and the others wait for it. `FnReturn`, `Judge`,
`HandlerReturn`, `collectError`, `CheckExit` and `WgDone` are a goroutine's body
in `requireNamed`. `Goexit` is the way out that skips it: `fn`, or the error
handler, calls `runtime.Goexit`, only the deferred `Done` of the WaitGroup runs,
and the group is not told. `RunCall` to `RunReturn` are `Run` and `run`, one
action per critical section or blocking point. `http.Server` is external:
`Shutdown` returns drained, or cut when the budget is spent.

**WriteThrough.** `LockRef` (the map under `mu`), `LockTry` and `LockWait` (the
two selects), `LockGiveUp`, `Write`, `Front`, `Unlock`, `Release`. A lock object
is an element of `LockIds`, taken again only when nothing refers to it, so an
object that was removed too early shows up as a second lock for its key. `Write`
and `Front` may fail or panic, before or after they had their effect. `behind`
records the keys whose front a failed call left behind the store.

**ReadThrough.** `Get`, `Do`, `Wake`, `GiveUp`, `Load`, `Put`, `Lead`, `Drop`,
`Close`: the lookup in the front, the head of `flightGroup.Do`, its two ways out
of the wait, the loader, the front's Set, and the three steps of `lead`. Values
are represented by the key they belong to: a hit is right or wrong, not old or
new.

**Memory and Expiry.** An entry is its expiry, in ticks, with 0 for the zero
time. `Start` reads the clock; `Read`, `Recheck`, `Store`, `Snap`, `Yield`,
`cleanup` and `rebuild` run under the lock with that earlier reading.
An iteration whose context has ended before it begins changes nothing and is a
stuttering step. `resolveExpiry`, `clampNever`, `clampLifetime` and `resolveDefault` are
operators with the structure of the Go functions; `Sub` saturates at
`MaxDuration`, standing for the 292 years of `time.Duration`.

**Sharded.** The maps of the backends together are the map of `Memory`, since a
key is in one of them, so the operations on a key are `Memory`'s. `Visit` is the
head of `ItemsContext`'s loop, `SnapShard` and `YieldShard` the iteration of one
backend, `Report` the call of the terminal accessor. The histories `began`,
`steady` and `ever` follow when an iteration began, which keys stayed during it,
and which had an entry that was not expired when it began. The backends have no
janitor here; `memory_rules` and the proofs of `Memory` have.

**Throttle.** `Acquire`, `GiveUp` (the select for a slot), `Refuse`, `Pace`
(the check of the context, then `Next` or the `Waiter`), `nextSlot`, `Wake` and
`Cut` (`sleep`), `Granted` and `Denied` (the `Waiter`), `Return`. The variable
`waiter` says whether the schedule is a `Waiter`; it is chosen once, by `Init`. A
body is followed through `RoundTrip`: closed there, or by the inner transport.
The flag `forwarded` is not a variable: it is set exactly when `fn` is called, so
each step that returns without that closes the body. A panic of `Next` or of the
`Waiter`, which would leave the body open, is not modelled. Two
history variables state the properties: `owed` sums the delays of all turns,
`before` remembers that sum for each turn.

**TokenBucket.** The limiter is external, with or without a `Wait`, a `Cancel` and
a `Burst` method. It hands out claims, told apart by when they are due, an
interval apart: that is a limiter whose burst is 1 or is spent. A larger burst
would only make claims due sooner, and `burst` serves to tell one that refuses.
`Check` is the first test of `Wait`, `Reserve` and `Refused` the limiter's
answer, `Fire` and `Abandon` the select; with a limiter that has its own `Wait`
the same steps stand for it, and the errors go through `waitErr`. Each return is
`Granted` or `Denied` of `Throttle`, so the composition is an instance of what
`Throttle` says of any `Waiter`. `TakeNext` is a call of `Next` by another user.

**Schedules and Retry.** `Do` (with `Reset`), `Succeed`, `Halt`, `Fail`,
`Backoff` (`Next`), `Wake`, `Cut`. The schedule is chosen by `Init` and shared by
all callers. `Grow` is the body of `Exponential.Next`: `Float` rounds an integer
to `Precision` significant bits, half to even, as a `float64` does to 53
(`Exponent` finds the unit, `Rounded` the nearest multiple of it), and integers
have `Width` bits. `Pow2` is 2^n as a recursive function, which can be reasoned
about. A stop function is a predicate of (attempt, elapsed,
err). The hook only observes an attempt, and is left out.

**Keyloader.** One goroutine calls `NewTLSConfig` again and again while files and
variables are rewritten: `Stat`, `Read` and `processKey` of each role, then
`Pair` and `Pool`. What a file or a slice holds is one of eight forms, with the
bundle it comes from; `slice` has the up to three slices of a load and `held`
says which of them `free` will clear. `Deferred` is what the `defer`s of
`processKey` clear, with their arguments as they stood at the `defer`. A slice
read from the mock's file system is the file: clearing it clears that.

**Pki.** `GenerateCA` and `generateCert` are split at the key generation, which
takes any time: `Prepared` is what is fixed before it, `Returned` the rest. The
clock is read on both sides, and a certificate keeps whole seconds (`Encoded`).
`ForeignCA` brings in a CA made elsewhere, with any times: `parseCA` takes every
bundle that holds a CA.
The three leaf generators differ in the usages they pass.

## Runs

Sizes are distinct states. "viol." marks a run in which the code is shown not to
do what a comment says (see Findings).

| Run | Instance | Checks | States |
|---|---|---|---|
| `lifecycle_group` | 1 task, 1 server, 2 callbacks, Shutdown and parent | `CauseBeforeCancel`, `NoSilentExit`, `NoOrphanServer`, `TeardownOrder`, `NoErrorLost`, `NoAddAfterWait` | 2,800,000 |
| `lifecycle_live` | 1 server, 1 callback, 2 callers of Run, parent and signal | `ShutdownCompletes` | 66,000 |
| `lifecycle_parent_cause` | 1 task, parent | `CleanStopIsNotTheCause` | viol. |
| `writethrough` | 2 clients that set and delete, 1 ordinary key and a NaN, 2 lock objects | `Exclusion`, `LockTable`, `FrontAgrees`, `Refines`, `CallsReturn` | 190,000 |
| `readthrough` | 2 callers, 1 key, 2 call objects | `SingleLoad`, `NoOrphanFlight`, `HitIsReal`, `OwnContextOnly`, `ResultIsFinal`, `CallsReturn` | 139,000 |
| `readthrough_nan` | a NaN | `EntriesAreRemoved` | viol. |
| `sharded` | 1 reader that gets and iterates, 1 writer, 2 keys in 2 backends, maximum 2, times past the saturation, clock to 2 | `LiveIsKept`, `SetHonours`, `LifeIsBounded`, `ScanIsFaithful` | 581,000 |
| `memory_rules` | 1 client, both loops, every kind of expiry, default 2, minimum 1, no maximum, past the saturation, clock to 3 | `SetHonours`, `IsSwept`, `LoopsStop` | 216,000 |
| `memory_keep` | 1 client, the janitor, every kind of expiry, default 2 | `KeepNeverStale` | viol. |
| `throttle` | 3 callers, 2 slots; a schedule with delays 1 and 2, or a bucket over one of five limiters, one caller with a deadline, one other user | `SlotsAreHeld`, `RateIsKept`, `BodyClosedOnce`, `ClaimsAreSettled`, `FailsClosed`, `ErrorsAreTrue`, `CallsReturn` | 276,000 |
| `retry` | 2 callers, 2 errors, a stop function nested from all five, each of the three schedules | `OutcomeIsJust`, `RetryIsDue`, `BackoffRestarts`, `DelayInRange`, `DoReturns` | 443,000 |
| `certkit` | every provider for the key, 2 for the certificate, 3 for the CA, 2 bundles, 2 rewrites; or 1 issuer, 2 certificates, CAs made elsewhere with times 0 and 6, seconds of 2 ticks, clock to 6 | `KeyMaterialCleared`, `ConfigIsJust`, `LeafInsideCA` | 2,200,000 |

What some of these say that no single step does:

- `NoSilentExit`: a goroutine whose `fn` returned is past its last check only in a
  group that is stopping. It exempts `runtime.Goexit`: a goroutine that ends that
  way leaves a running group, and a group whose goroutines all do so waits for
  ever unless something else stops it.
- `ShutdownCompletes`: a trigger (an error, a return, `Shutdown`, a parent, a
  signal) leads to the end of `Run` for each of its callers, or to a callback
  that never returns. That is the one thing that may hold `Run` past its budget
  (`lifecycle.go:78`, `lifecycle.go:193`).
- `SetHonours`: a Set stores what its request and the bounds ask for at its
  reading of the clock, however late it gets the lock. `Keep` preserves the expiry
  of an entry that is still live and replaces one that was past at the reading;
  of an entry that expired in between nothing is said, see Findings.
- `ScanIsFaithful`: an iteration that its consumer did not break off and that
  reports no error has yielded every entry that was live and unchanged
  throughout it, and none that had expired before it began. It is not a snapshot:
  entries written meanwhile may or may not appear, shard by shard.
- `ClaimsAreSettled`: a limiter holds no claim of the future for a caller that
  has gone away. `FailsClosed`: whoever runs has a claim of its own that is due.
  `ErrorsAreTrue` exempts a limiter with a `Wait` and no `Burst` of its own: one
  that refuses for good is then reported as a missed deadline
  (`tokenbucket.go:135`), though the documentation of `Wait` distinguishes the two
  (`tokenbucket.go:92`).
- `KeyMaterialCleared`: of the slices a call made none holds key bytes after it
  returned, by whatever path. Exempt are the copies the code cannot reach:
  the string passed to a decoder, the output of a decoder that failed, and the
  parsed key.
- `ConfigIsJust`: without a rotation a call succeeds exactly when its files suit
  its providers; with one, certificate and key still belong together. The pair
  is checked by `X509KeyPair`; the CA is not checked against them.
- `LeafInsideCA`: a leaf ends no later than its CA, whoever made that one,
  although the check is made before a key generation of any length. It may well
  have expired by the time it is returned, and it may begin before its CA: the
  code does not compare the two.

### Why the bounds are enough

Two processes suffice for each race of the caches: one that holds a lock, leads a
load or is between two critical sections, and one that acts meanwhile. Every
safety property of a passing run is also proved for any number of processes, so
the runs are where they were found to hold before they were proved, where their
mutants are caught, and where liveness is checked. There are as many lock and call
objects as processes, so one is always free. `throttle` has three callers for two
slots, so that one must queue. Two callbacks tell the order of teardown; the live
run of the group has none of the tasks, whose body is that of a server's
goroutine, to make room for a second caller of `Run`.

In `memory_rules` expiries run from an absolute time before the clock to one past
the saturation point, with durations that are negative, zero, one and the
largest, under a minimum. A maximum is set in `sharded`, where `At`, `Never` and
the default reach beyond it; that a minimum and a maximum are honoured together
is `ResolutionHonours`, proved for all values.

`MaxClock` stops the clock of `Throttle` and `Retry` only while no timer is
pending, so no sleeper is left asleep by the bound; callers make `MaxCalls` calls
and then stop, which is why these runs do not check for deadlock: `CallsReturn`
and `DoReturns` do instead.

In `retry` an integer has two bits beside its sign and a significand one, so that
growth meets rounding and the limit within three attempts. In `certkit` two
rewrites let a rotation replace certificate and key around any two reads; there is
one issuer because calls share nothing, and there are two certificates because the
property relates a leaf to its CA; ticks are half seconds, so a time and what is
kept of it differ. The times of a CA made elsewhere are the first and the last
instant of the clock.

### Fairness

Weak fairness of each goroutine's own steps: the Go scheduler runs every
goroutine that can run. User functions (the loader, the writer, the front, the
retried function) are taken to return in `ReadThrough`, `WriteThrough` and
`Retry`. They are not in `Lifecycle`: goroutines, error handlers and servers may
never return, and `Run` must return all the same when the budget expires (the
timer does expire). A callback may never return either, and then `Run` does not:
`ShutdownCompletes` names that outcome instead of assuming it away. Nor are they in
`Throttle`, where a cancelled caller must return beside a function that never
returns and the rest of `CallsReturn` states its premise.
The steps of `TokenBucket.Wait` are fair like those of its caller, and its timers
run. `Sharded`, `Keyloader` and `Pki` have no loop that waits: only safety is
checked.

Strong fairness in two places. `LockWait`: goroutines blocked sending on a
channel are served in order, so a waiter is not passed over for ever. `Stop` of
the loops of `Memory`: a `select` with two ready cases picks at random, so it
does not choose the tick for ever once `done` is closed.

## Proofs

TLAPS checks the proofs, for sets of goroutines, keys, lock objects, backends and
so on of any size. Each follows the same line: an inductive invariant is proved
of the initial states, then of every step, one lemma per conjunct or per action;
the properties follow from it. TLC checked each of the new invariants on the
instance of a run before it was proved.

**LifecycleProofs.** Proved: type correctness, `CauseBeforeCancel`,
`NoSilentExit`, `NoOrphanServer`, `ReadyMeansSpawned`, `WgCounts`,
`NoErrorLost`, `TeardownOrder`, `NoAddAfterWait`, `StableOutcome`. The
strengthening relates the once, the flags and the cause (`OnceInv`), the flags
and the control state of `run` (`RunInv`), what is pending to whether `run` has
started (`SpawnInv`), and gives a server that may still be admitted its place in
the list (`ServerInv`): without the last, `Serve` between its two critical
sections would lose its teardown. The counting lemmas of the WaitGroup need
`Procs` to be finite.

**WriteThroughProofs.** Proved: type correctness, `Exclusion`, `LockTable`,
`FrontAgrees`, `FrontFollows`, and `Refines`, that `WriteThrough` implements
`KeyedStore`: the holder of a key in the abstract specification is the client
between `lock` and `unlock`. `Exclusion` by itself is not inductive: it needs
that clients in a turn on one key use one object (`TableInv`) and that a full
lock has one holder (`FullInv`); `FrontAgrees` needs to know what the store
holds while its writer is between store and front (`AgreeInv`).

**ReadThroughProofs.** Proved: type correctness, `SingleLoad`,
`NoOrphanFlight`, `HitIsReal`, `OwnContextOnly`, `ResultIsFinal`. `LeadInv` says
that each call has one leader, and that the map holds a call from its
registration to `Drop`; the results in calls and callers are shown to belong to
the key.

**MemoryProofs.** Proved: type correctness, `LiveIsSeen`, `LiveIsKept`,
`LifeIsBounded`, `SetHonours`, `ReturnedReapplies`, and `ResolutionHonours`, that
`resolveExpiry` gives what a request and the bounds ask for, whatever the times
and the bounds. The strengthening is that a clock reading is never in the future
(`NowInv`): it is why a sweep or a lookup with an old reading removes nothing that
is live.

For `Sharded` (any number of backends, any hash): `ScanIsFaithful`, and again
`SetHonours`, `LifeIsBounded` and `LiveIsKept`. `ScanInv` follows an iteration: a
key that has been steady so far is yielded already, in the snapshot of the current
backend, or in a backend with an index still to come; and whatever was yielded or
is in the snapshot had, since the iteration began, an entry that had not expired
then. The step that needs more is the snapshot: its clock reading is not in the
future (`NowInv`), so it skips no steady key, and not before the iteration began,
so it takes no key that had expired by then. The facts about one key are those of
`Memory`, restated without its control states (`DataInv`).

**ThrottleProofs.** For any cap, delays, callers and any `Waiter`: `SlotsAreHeld`,
`RateIsKept`, `BodyClosedOnce`. `RateIsKept` is not inductive: `CadenceInv` says
that `nextAllowed` is at least the sum of all delays drawn and as far beyond the
due time of every turn under way as the delays drawn since, and `DueInv` that
nobody runs before the turn is due. `SlotsAreHeld` counts the calls past the
queue, which needs `Callers` to be finite; `BodyInv` follows the body through the
control states. `BucketIsAWaiter` shows that `Throttle` over a `TokenBucket` takes
only the steps that `Throttle` allows with any `Waiter`, so the three properties
carry over (`BucketKeepsThrottle`) instead of being proved again. Of
`TokenBucket`: `ClaimsAreSettled`, `FailsClosed`, `ErrorsAreTrue`. `OwnInv` says
that no two calls share a claim and that a claim somebody waits for or runs on is
in the limiter; without it `Abandon` of one caller could take away the claim
another runs on.

**RetryProofs.** `OutcomeIsJust`, `RetryIsDue`, `BackoffRestarts`, `DelayInRange`,
type correctness, and `GrowInRange`: for every width, precision, factor, base and
maximum, `Exponential.Next` makes no conversion that is out of range. The argument
is about floating point: rounding is monotone (`FloatMonotone`), idempotent
(`FloatIdempotent`) and does not depend on the scale (`FloatScaled`). So a
rounded product that is below the rounded maximum is below the maximum itself,
even where the rounded maximum exceeds it. The lemmas about powers of two, the
exponent and the recursive `Delay` are inductions over the natural numbers. The
library states induction with an operator as parameter, which the provers cannot
instantiate; `NaturalFacts` derives it for sets instead, from the principle of
the least element (`InductiveSet`), and with it that a recursive function has the
values its equation gives (`Iteration`). `FlowInv` says at each control state of
`Do` what is known of the last attempt; `BackoffRestarts` needs that a call that
is alone has the schedule at the position of its attempts (`AloneInv`).

**CertkitProofs.** Of `Pki`: `LeafInsideCA`, for any CAs made elsewhere.
`TemplateInv` keeps what `generateCert` checked while the key is generated, and a
time in a certificate is not later than the one it stands for (`EncodedFacts`). Of
`Keyloader`: `KeyMaterialCleared` and
`ConfigIsJust`, for any providers and any contents. `SliceInv` says per role which
slices may hold a key: none before its file is read, the one that was read until
`processKey`, and from then on only the one that is held. `JustInv` says that
while no file has changed a key that is held is a PEM block exactly when its file
suits its provider (`ResultSuits` compares `processKey` with `Suits`, option by
option), and that the CA is loaded only for a pair that belongs together.

The assumptions are the named `ASSUME`s of the modules: what the constructors'
panics guarantee about the options, finiteness of the set of goroutines where
they are counted, and that model values such as `None` differ from the things
they stand beside. TLC evaluates them in every run.

Some of these are stated for the proofs alone, because the invariants that the
runs check break first when the code is wrong: `WgCounts`, `ReadyMeansSpawned`,
`StableOutcome`, `FrontFollows`, `LiveIsSeen`, `ReturnedReapplies`.

Type correctness is part of every inductive invariant and needs no run.

The proofs corrected one property. `ErrorsAreTrue` used to say that a call whose
result is the context's error has a context that has ended, in every state; that
fails for a caller that has begun its next call with a live context, which the
run's bound on calls does not reach. It now speaks of the call that returned the
error.

Only model-checked: liveness (`ShutdownCompletes`, `CallsReturn` of the caches and
the throttle, `DoReturns`, `IsSwept`, `LoopsStop`), which is beyond this prover,
and the runs of the findings, whose properties are false. `Sharded` has no
background loops in its steps, so its theorems are about backends without a
janitor; that a janitor removes no live entry is the theorem of `Memory`.

## Findings

Where the code and what is written about it differ. None is an error in the
intended use; each run shows the shortest way to the difference.

1. `lifecycle_parent_cause`: after the parent is cancelled and before its
   watcher runs, a goroutine that returns the parent's context error shuts the
   group down as an "unexpected exit", and `ShutdownCause` is that.
2. `readthrough_nan`: an entry of `flightGroup.m` under a NaN key is never
   removed. (`WriteThrough` guards against this.)
3. `memory_keep`: `set` judges the existing entry by a clock reading from before it
   waited for the lock (`memory.go:185`). An entry that expires during the wait
   is found live, and `Keep` stores its past expiry again, which its comment
   rules out (`memory.go:189`); the value is stored and absent at once.

Others are visible in the models and have no run of their own:

- Two goroutines that fail together append their errors and call `shutdown` in
  separate steps (`lifecycle.go:465`), so the cause need not be "the first error
  recorded" (`lifecycle.go:287`): with two tasks and a user's context, one runs
  `collectError` up to the unlock, the other runs all of it, and the first is
  recorded first while the second is the cause.
- A goroutine whose `fn` calls `runtime.Goexit` leaves without a shutdown
  (`lifecycle.go:446`): the documentation of `Require` speaks of returns only.
- Callers cancelled in the paced wait of a throttle free their slot and keep
  their turn, so the cap does not bound how far ahead the cadence is reserved
  (`throttle.go:155`).
- `sleep` in `throttle.go:166` and `retry.go:153` picks at random when the timer
  and the context are both ready, so `fn` can be called with a context that is
  done, which the documentation of both `Do` functions rules out.
- `bytes.Map` (`keyloader.go:222`) rewrites bytes that are not UTF-8, so trimming
  a binary key does more than remove whitespace (`keyloader.go:142`).
- `Exponential` with a factor of 1 and a base above 2^53 is not constant: the
  product is rounded to a `float64`.

## Not modelled

- `schedule.Sine`: floating-point trigonometry of the time since its first call;
  `Throttle` takes any choice of delays.
- `cache.go`, `options.go`: an interface and assignments of options.
- `cache/mock`: a test double that forwards to functions of the test.
- Key generation, signing, PEM and DER in `certkit/pki`, TLS itself in
  `certkit/mtls`, and the limiter in `schedule/tokenbucket.go`: libraries, present
  as what the code relies on.
- Everywhere: the text of errors, panics on invalid arguments to constructors
  (the constants satisfy what they check), and the values of cache entries
  beyond what the properties tell apart.

## Plan

The order is by how much concurrent behaviour a part has.

1. Done: every package has a model, and every safety property that a passing run
   checks is a theorem.
2. Next, in the proofs: an abstract specification of the lifecycle group (a group
   runs, is stopped once with one cause, tears down, returns) and the proof that
   `Lifecycle` implements it; `SingleLoad` and its companions as the refinement of
   a store with one load per key.
3. A composition of `ReadThrough` over `Memory` with versions of values, for the
   window between a load and its Set.
