# NetWay OPC UA client: TLA+ models and proofs

NetWay wraps the C library open62541 in a thread-safe C++ client,
`OPC_UA_Client`. Nearly all of its logic is in `src/OPCUAPacking/ua.cpp`
(paths are relative to the repository root; line numbers without a file are of
that one): a facade that applications call from many threads, an `Impl` per SDK
client with a watchdog thread that repairs the connection, and the rules by
which Impls are replaced and destroyed while calls are running. Around it are
the configuration, the conversion of values, and the `Result` type in which
everything is returned. This project models them, checks them with TLC and
proves the central properties with TLAPS.

## 1. Inventory

| Component | State | Operations | Interacts with | Modelled in |
|---|---|---|---|---|
| `Impl` (486-705) | `m_lifeState`, `m_connState`, `connectionLost`, `m_lastBadStatusMs`, `m_running`, `m_shutdown`, `m_taskCounter` | `connect`, `disconnect`, `isConnected`, `batchRead`, `batchWrite`, `setGiveUpSignal`, `shutdown` | called by facade threads and its watchdog; calls the SDK under `m_sdkMutex` | `ClientImpl` |
| Watchdog (1721-1939) | retry counter, last decision time | `runWatchdog`, `doWatchdogDecision`, `delayFunction` | uses the Impl's operations; joined by `shutdown` | `ClientImpl`, its lifetime in `ClientLifecycle` |
| Packed state cache (15-53, 2933-2961) | `state_packed`: version, status, channel, session | `updatePacked` (callback), `tryPublishIfUnchanged` (poller) | written inside SDK calls and by `isConnected`, read everywhere | `StateCache`, `SnapshotCache` |
| SDK callbacks (1575-1610) | none of their own | `stateCallback`, `inactivityCallback` | run inline in the thread that is inside the SDK | `ClientImpl`, `StateCache` |
| Facade (2066-2833) | `pImpl` and the shared `RecreateSync` block: two mutexes, `m_recreating`, `m_terminated`, `m_inFlight`, `m_shutdownInFlight` | `create`, `createWithSdk`, the API functions behind an `ApiLease`, `shutdown`, `recreateGiveUpClient`, destructor | owns Impls through `shared_ptr`s | `ClientLifecycle` |
| `ClientConfig` (`include/OPCUAPacking/Types.h`) | configuration values | `check`, profiles, `applyDefaultIfInvalid` | `configureClient`; read by every timed operation | `ClientConfig`, `RetryBudget` |
| Retries and backoff (826-938, 1667-1719) | loop counter, clock | `batchRead`'s loop, `calculateBackoff`, `delayFunction` | configuration, stop signal | `RetryBudget` |
| Batch requests and conversion (733-1110, 3020-3064, `detail/ConversionDispatcher.h`, `TypeTraits.h`) | request, response, what they allocate | building, `dispatch` both ways, guards, per-item results | server | `BatchIO` |
| Error mapping (402-478) | none | `toRichErrorCode`, texts | facade | `ResultChain` |
| `Result`, `RichError` (`include/Rust_error_deal/error_deal.h`) | a `std::variant` per object | combinators in four value categories | returned by every call | `ResultChain`, `PureResult` |
| SDK seam (`detail/Isdk.h`, `RealSdk.h`) | the SDK client | forwards to open62541 | `Impl` | environment |
| thread-pool headers, `concurrentqueue`, bench, scripts, demo | | | | not modelled (section 8) |

What is hard here: calls of many threads, the watchdog and callbacks interleave
on atomics without a common lock; a result is read before a lock is released
and used after it; GIVEN_UP, shutdown, recreate and destruction race with each
other; the watchdog keeps its own Impl alive; each wait is bounded or must be
woken; responses can be malformed and answers lost; times are sums in
`uint32_t`. `PROJECT.json` lists these hazards at their lines with the
properties aimed at them. Properties that make the components correct:

* Impl: one connection operation at a time; GIVEN_UP is final; a drained
  shutdown is quiet; the life state agrees with the cache after a recovery;
  an unready client gives up; shutdown returns.
* State cache: it never goes back to an older state of the SDK, and catches up.
* Facade: no use after free; no abandoned watchdog, no leaked SDK client; an
  SDK client is deleted only after the join; a swap needs a quiet, given-up
  client; the destructor returns.
* Configuration and retries: no client runs on a refused configuration; a read
  blocks within a bound; an accepted budget is enough; a stop is noticed.
* Batches: no leak, no null pointer followed, entries match items, conversions
  are inverse, a write is executed at most once.
* Results: they behave as values and keep their cause.

## 2. Modules

`ClientImpl` is one Impl and all threads in it. A thread has three program
counters, one per layer of the call stack: `sub` (`isConnected` and the `TurnTo`
functions), `op` (`connect`, `disconnect`, `batchRead`, `batchWrite`) and `dec`
(`runWatchdog`, `doWatchdogDecision`). A layer that is not `"off"` is running
or waiting for the one below. Every store and CAS on a shared atomic is a
step; so is a load on which a later CAS depends. A thread inside an SDK call
holds `sdkMutex`; meanwhile the SDK may change its triple, with `stateCallback`
(`StateCallback`) or without (`SdkSilentChange`), and may report inactivity.
Its abstractions: status, channel and session are reduced to the values the code
compares with; `m_lastBadStatusMs` is an age in ticks, `badAge`, capped at the
threshold, because the code only tests whether the threshold is reached; the
state cache is the abstract one of `SnapshotCache`, with the set `current` of
threads whose snapshot would pass the CAS; deadlines may pass at any poll. The weak
CAS of `TurnToRecovring` does not fail spuriously: the code would load and try again,
which is one more way to the step that `RecoveringCas` takes. The watchdog's backoff
is a location of its own (`w_backoff`, and `w_caught` in the handler of an exception)
that it leaves in one step; the segments of the wait are `RetryBudget`'s. With
`WatchdogFaults` an exception may leave an iteration at any point of `runWatchdog` and
`doWatchdogDecision` between their calls (`ThrowPoints`): a `bad_alloc` or
`system_error` gives up and ends the loop, any other backs off and goes on. Two
variables are auxiliary: `inFlight` and `casGuards` name the owners of live
guards and no guard of an action reads them. Variables of a finished call are
reset, so that states differ only in what still matters.

`StateCache` is `state_packed` with its version: the CAS loop of `updatePacked`
under `m_sdkMutex`, and load, `getState` and single CAS of `isConnected`
outside it, each its own step. The version has `VerMod` values (2^16 in the
code) and wraps. `epoch`, `wordEpoch`, `sawEpoch` and `age` are history
variables: they say which state of the SDK a triple is and how many publications
a snapshot has missed. `HeldBriefly` is the assumption the code makes without
saying so: no thread sits between its load and its CAS while `VerMod`
publications go by.

`SnapshotCache` is what the cache promises, without words and versions.
`StateCache` implements it (`KeepsSnapshotPromise`; `current` is the set of
holders of age 0), and `ClientImpl` uses nothing else (`UsesSnapshotCache`), so
the two refinements compose: what holds of `ClientImpl` holds with the real word
in the place of its cache.

`ClientLifecycle` is the facade, its `RecreateSync` block and the reference
counts: `pImpl`, and per thread `self` (the call's snapshot, doomed Impl or
candidate) and `old` (the Impl that recreate replaced). `Reap` models the
`shared_ptr`s: the step that drops the last reference deletes the SDK client. An
Impl here is its client, its watchdog and its stop flags.
`m_terminated` is written under `m_recreateLock` and tested by recreate under
`m_lock`, so test and swap are two steps (`RecreateCheck`, `RecreateSwap`).
`JoinsApi` says whether the application lets ordinary API calls return before it
destroys the object. That is the contract the code needs: the passing run assumes
it, `lifecycle_api_overlap` drops it, and the theorems other than `NotFreedInUse`
and `CleanAfterDestroy` hold for both values.

`ImplContract` is what the two modules above take each other for, over the life of
one Impl: the facade starts its watchdog at most once and shuts it down at most once,
the watchdog leaves its loop only for a stop signal or a GIVEN_UP, a GIVEN_UP stays,
and `shutdown()` passes the join only without a watchdog. `ClientLifecycle` keeps to
it with each of its Impls and `ClientImpl`, from where `create()` leaves an Impl, is
one such Impl (`KeepsImplContract` of each). So `ClientLifecycle` may treat an Impl as
a watchdog and two flags, and `ClientImpl` may model one `shutdown()`. An exit after
an exception is one step of the contract that also gives up; `ClientLifecycle` has it
as two, the give-up and then the exit, which allows more interleavings.

`ClientConfig` is the structure with its profiles and `check()` as operators;
`uint32_t` sums are modulo `UMax + 1`, and where the code goes to 64 bits the
model is exact. `RetryBudget` extends it with `configureClient()` and then the
retry loop of one `batchRead()` on the clock: time spent inside the SDK, waiting
for `m_sdkMutex` and in the 100 ms segments of the backoff are separate
sums. Who stops the client or changes its life state is the environment here and
the subject of `ClientImpl`. The tests before an attempt are one step, so a
GIVEN_UP between the first and the third of them, which changes only the error
code, is not told apart. Of `applyConfiguration()` the callbacks it registers and
its closing `isConnected()` are in `ClientImpl` and `StateCache`.

`BatchIO` is one thread's sequence of `batchRead` and `batchWrite` calls with
their data: the two dispatch tables, the conversions, the NodeId checks, what is
allocated, and the guards that release it. Of a value it keeps the alternative
and whether it is zero, another one, or (strings) holds a NUL. The server is
external: it refuses, clamps or executes writes, changes its nodes in
between, loses requests and answers, and sends responses with missing arrays.
`acked`, `served` and `touched` are history variables for the properties.

`ResultChain` is a caller with a few `Result` variables: the facade fills them,
combinators move or copy them. An object keeps its alternative when its
payload is moved out; the payload is then unspecified, the old one or `Moved`.
`givenUp` are the variables the caller passed to `std::move`, which it must not
use again. `PureResult` is the same with plain values; `ResultChain` implements it
(`ActsAsValue`), with the slots that were given up mapped to nothing.

The `MC` modules instantiate these for TLC; the `Proofs` modules hold the theorems.
Definitions named as "Mutant of X" are faulty variants of X; no specification
uses them. They are there to show that the properties are sensitive to the fault
they describe.

## 3. Runs

| Run | Checks | What it shows |
|---|---|---|
| `impl_life` | `GivenUpIsFinal`, `UsesSnapshotCache` | connect, disconnect, probes and giveUp of a caller against the watchdog, over a connection that drops |
| `impl_drain` | `TypeOK`, `SingleFlight`, `QuietAfterDrain`, `GuardsOwned` | every call of a caller, its own decisions included, against the watchdog and shutdown, over a channel that only the inactivity callback declares lost |
| `impl_branches` | `DecisionSettlesLife`, `BackOnlyWhenReady`, `KeepsImplContract`, `ShutdownReturns` | all branches of the decision, watchdog exceptions, giveUp and shutdown: what a recovery leaves behind, that the Impl is the one the facade expects, and that the join ends wherever shutdown finds the watchdog (SDK call, poll, backoff, decision, exception handler) |
| `impl_giveup` | `UnreadyGivesUp` | the give-up timer is started on every path and no failed attempt resets it |
| `lifecycle` | `NoUseAfterFree`, `OwnedWatchdogs`, `JoinedBeforeDeleted`, `DestroyedClean`, `SyncOwned`, `ImplsOwned`, `KeepsImplContract`, `SwapOnlyQuietGivenUp`, `DestructorReturns`, `ClientsReleased` | every interleaving of API calls, shutdown, recreate and destruction: no use after free, no hang, no leak, and one party that answers for each Impl |
| `cache` | `NeverBack`, `KeepsSnapshotPromise`, `Settles` | two probing threads and callbacks on one versioned word that wraps |
| `budget` | `TypeOK`, `RunsOnValidConfig`, `DefaultsHeal`, `BoundedBlocking`, `AllAttemptsRun`, `PromptStop`, `WallClockCovers`, `ReadReturns` | good, broken and extreme configurations through the factories and the retry loop |
| `batch` | `TypeOK`, `MemorySafe`, `NoLeak`, `EntriesAligned`, `RoundTrip`, `WriteOnce` | batches of all types, partial failures, malformed and lost answers; the values that round-trip are those of the two nodes (BYTE, STRING), `WrittenIsRead` has all types |
| `result` | `CauseTold`, `ActsAsValue` | chains of combinators in all value categories |

Three runs expect a violation. Each states what a document or comment of the
repository says and shows a behaviour of the code that differs:

| Run | The repository says | The code |
|---|---|---|
| `impl_running_contract` | `docs/thread-model.md:98`: RUNNING iff `isHealthyCached()` | a callback makes the cache unhealthy and leaves RUNNING until the next decision |
| `impl_giveup_window` | `Types.h:321`: gives up when the window has elapsed | a `connect()` that succeeds between `shouldTriggerGiveUp()` and `TurnToGiveup()` is undone |
| `lifecycle_api_overlap` | `docs/thread-model.md:280-282`: only recreate and the shutdown winner can outlive the object | so can an API call between its lease and its copy of `pImpl` |

Smaller differences met on the way, visible in the models without a run:
`docs/thread-model.md:218` has the open-channel branch of the decision call
`disconnect()`, which 1860-1886 do not; `ua.h:97` says that shutdown, like
recreate, waits for `m_inFlight == 0`, and `shutdownInternal()` does not look at
it; `docs/limitations.md:79-81` gives the worst blocking time of a read as budget
plus one call, where `BoundedBlocking` has to add a backoff and a wait for
`m_sdkMutex`; comments in `applyProfile` (`Types.h`) list
`giveUpThresholdMs >= maxTotalWaitMs` as a constraint that `check()` does not
test.

### Bounds

* `ClientImpl`: one caller and the watchdog. Both run every operation, so each
  race between two threads occurs; the safety properties are proved for any number of
  callers. `GiveUpThreshold = 1` separates "not reached" and "reached";
  `MaxRetries = 1` has a retry and an exhausted budget. `SteadyStates` is a ready
  connection alone: only `connectionLost` makes it unhealthy, and the instance is
  small enough for every call at once, a second decider included. `DropStates` is a
  ready and a closed connection; `BranchStates` adds a half-closed one and a bad status
  over an open channel, so that each branch of the decision is taken.
  `DecisionSettlesLife` and `BackOnlyWhenReady` are checked with commands that do not
  enter the SDK: with a second thread in it a callback may arrive between the last
  test and the end of the decision, which the next decision repairs. In that run
  `ShutdownReturns` meets no other thread either: that a watchdog waiting for
  `m_sdkMutex` gets it is what the fairness assumes, and promptness within a backoff
  is `PromptStop` of `RetryBudget`. `QuietAfterDrain` speaks of the four operations
  that hold an `InFlightGuard`; probes and decisions of a caller hold none.
* `ClientLifecycle`: two workers and the owner, which can be an API call, a
  recreation and a destruction at once, and three Impls (the first, and two
  recreations, or one that failed and one that succeeded).
* `StateCache`: two threads, a version of three values (it wraps within a run), two
  states, and `MaxEpoch = 3` changes of the SDK, of which the last one is followed
  by silence, so that `Settles` has something to settle to.
* `RetryBudget`: `UMax = 2^20 - 1` stands for the largest `uint32_t`: it is above
  every constant of the profiles, and the configurations at its end wrap as those
  at the end of 32 bits do. One short configuration has three retries; durations
  include 0, the timeout and twice the timeout.
* `BatchIO`: a numeric and a string node, single items of every type and pairs: both
  fine, the second refused by its id or its value, the same node twice.
  `MaxRetries = 1`.
* `ResultChain`: two variables, which suffices for every source and target of an
  operation, source and target the same included. They are interchangeable:
  symmetry is used, with safety properties only.
* Initial states are those the program starts in: for `ClientImpl` the one `create()`
  leaves (connected, RUNNING, watchdog started), for the others the empty object or
  the fresh Impl, `create()` being a call.
* `CHECK_DEADLOCK FALSE` only where the system may stop: after a shutdown whose
  callers make no more calls, and after the object is destroyed.

### Fairness

Each is weak fairness of a thread's own steps (the OS runs threads that can run),
with strong fairness where the code relies on progress that a race can delay:
acquiring `m_sdkMutex`, which each holder releases after one SDK call; a polling
loop passing its deadline, since clocks advance and `connect`/`disconnect`
carry a wall-clock bound beside the SDK's clock (1213-1215); the watchdog
reaching its decision interval; and the weak CAS of `updatePacked`, which does not
fail for ever on a word that stays the same. SDK calls return, since open62541's
timeouts bound them. Callbacks, application calls, the start of a shutdown and the
owner's destructor call owe nothing, and no exception has to happen. `WatchdogSpec`
asks strong fairness of the watchdog only, and of a `shutdown()` under way that it
runs on, so that `UnreadyGivesUp` and `ShutdownReturns` do not depend on what the
application calls. `UnreadyGivesUp` is checked without exceptions: a watchdog whose
every iteration throws decides nothing.

## 4. Proofs

TLAPS proves, for all values of the constants that satisfy the ASSUMEs (finite sets
of threads, distinct names for absent values, bounds that are naturals,
`UMax >= 10^6`, nodes that have a UA type the converters know). Eight modules hold them:

* `ClientImplProofs`: `TypeCorrect`, `SingleFlightSafe`, `DrainIsQuiet`,
  `GuardsAreOwned` from the inductive invariant `Inv = TypeOK /\ GuardsOwned /\
  SingleFlight /\ QuietAfterDrain`. `SingleFlight` alone is not inductive because
  ~CASGuard resets a flag whoever owns it, and `QuietAfterDrain` is not because a
  thread may have taken its guard and not yet tested the stop signal. `GuardsOwned`
  says at which locations each guard lives, that `m_taskCounter` counts the live
  ones, and that once a drain succeeded nobody is between the stop test and the CAS.
  `GivenUpFinal` goes action by action: each write of `life` either is a CAS from
  another value or writes GIVEN_UP. `ClientUsesCache` maps every step to a step of
  `SnapshotCache` or a stutter; it needs that a thread outside `isConnected()` holds
  no result of `getState()`. `ImplKeepsContract` does the same for `ImplContract`. Its
  invariant `ExitInv`: the stop flags are clear until `shutdown()` sets them, so the
  loop's test tells the truth, and a watchdog on its way out of the loop does nothing
  but give up, so it cannot come back from there.
* `DecisionProofs`: `DecisionSettles`, `ReturnsWhenReady` and `GivesUpInTime`, all under
  `WatchdogAlone` (the application gives up and shuts down and leaves the connection
  to the watchdog), for every set of SDK states and any threshold. Without
  it they are false: a callback that another thread delivers lands between a test and
  its use. `SettleInv` follows the watchdog's three layers: which helper may be
  running under which caller (`Nested`), and what each has established of the cache
  that no step since can have undone (`Established`), since the cache changes only
  inside the watchdog's own SDK calls. `GivesUpInTime` delimits the finding of
  `impl_giveup_window`: with one thread, what `Types.h` says is true.
* `ClientLifecycleProofs`: `TypeCorrect`, `CountersSafe`, `NotFreedInUse` and
  `SwapSafe` from `Inv = TypeOK /\ SyncOwned`. `NoUseAfterFree` needs that the
  destructor's wait sees what it stands for: that `m_recreating` and
  `m_shutdownInFlight` cover their calls to the end (`OneRecreation`,
  `OneShutdown`), and that the lease count is exact (`LeasesCounted`). `SwapSafe`
  needs `RecreationQuiet`: between drain and swap no lease is given and no
  shutdown takes the Impl. `NotFreedInUse` assumes `JoinsApi`; without it the
  statement is false, which is what `lifecycle_api_overlap` shows.
* `ImplOwnershipProofs`: `OneOwner`, `WatchdogsOwned`, `DeletedAfterJoin`,
  `CleanAfterDestroy` and `FacadeKeepsContract`. None of the first four properties is
  inductive: that a dropped reference was not the last one before the join depends on
  who else has one. `ImplsOwned` says it: an Impl that is not shut down is in `pImpl`
  or with exactly one call that is going to shut it down (`OneHolder`, `Handled`), every
  other `shared_ptr` is a plain reference (`FrameRefs`), a client lives as long as
  somebody refers to it, and who refers to an Impl nobody answers for refers to one
  that is shut down (`ShutBeforeDropped`). `CleanAfterDestroy` assumes `JoinsApi`: an
  API call that outlives the object may keep an SDK client alive. The refinement of
  `ImplContract` adds how far each holder has come (`StopPhases`); that two holders
  never share an Impl is what makes `Impl::shutdown()` happen once.
* `StateCacheProofs`: `TypeCorrect`, `CacheNeverGoesBack` and `WordImplementsCache`,
  for any number of versions above one. The invariant dates every held snapshot: the
  word's version is the snapshot's plus its age, up to one wrap. With `HeldBriefly`
  the CAS then succeeds exactly at age 0 (`CurrentIffUnaged`), from which both the
  refinement and the order of epochs follow.
* `RetryBudgetProofs`: all invariants of the run, for every configuration and all
  durations. `OverrunInv` says how far past the budget the clock can be at each place
  of the loop, `QuickInv` and `CallInv` what the attempts so far have cost if
  none was slow, and inside the SDK; `AcceptedBudget` turns `check()` into the
  arithmetic these need, `BackoffCapped` bounds a backoff by its cap.
  `LocalProfileAccepted` is why the repair works.
* `BatchIOProofs`: `ConversionsInverse`, and `NothingLeaks`, `ResponsesSafe`,
  `WrittenOnce` for every set of batches and any server. The heap is always owned by
  the request or the response in hand (`HeapInv`), whose guards release exactly that.
  `TypeCorrect`, `OneEntryPerItem` and `WrittenIsRead` rest on `DataInv`, which carries
  the data through a call and from one call to the next: what is sent is the
  conversion of what the caller gave, item by item (`SentInv`), what the server said
  Good to is what it stores for the last item of each node (`WriteInv`), an
  acknowledged value stays in the store as its image (`StoreInv`), and a good answer
  to a read carries that image (`ReadInv`).
* `ResultChainProofs`: `TypeCorrect`, `ResultIsAValue`, `CauseSurvives`. The
  invariant: an object that was not given up is whole, and its error, if it has a
  cause, carries the code of that cause. The refinement maps each combinator to one
  step of `PureResult`.

The inductive invariants of the runs (`GuardsOwned`, `SyncOwned`, `ImplsOwned`) are
checked by TLC as well; the others live beside their proofs.

Only model-checked: liveness (`UnreadyGivesUp`, `ShutdownReturns`,
`DestructorReturns`, `ClientsReleased`, `Settles`, `ReadReturns`), which is beyond
this prover. Every invariant and every action property of a passing run is a theorem,
and so is every type invariant, those of the three modules whose run leaves it out too
(`ClientLifecycle`, `StateCache`, `ResultChain`).

## 5. Running

`tlc -config <run>.cfg <module>` and `tlapm <module>.tla` in this directory. On an
idle machine `impl_life` and `impl_giveup` take one to two minutes, the other
runs less than a minute each; each proof module takes from one to a few minutes.

## 6. Plan

Done: `ClientImpl` and `ClientLifecycle`, joined by `ImplContract`; `StateCache` with the
refinement that joins it to `ClientImpl`; `ClientConfig` and `RetryBudget`; `BatchIO`;
`ResultChain`; the proofs of all their safety properties. Left: `createWithSdk`
without a watchdog in `ClientImpl`, and exceptions inside `connect()` and
`disconnect()` of the watchdog.

## 7. Assumptions on the environment

Callbacks run inside SDK calls, in the calling thread, and only touch atomics, as
the comment at 522-525 demands. `clientNew` may fail; `clientDelete` does not
throw. `Impl::shutdown()` is called once per Impl by the facade, as
`FacadeKeepsContract` shows. `m_impl` is never null while an Impl can be reached, so
the NULLPTR results have no step in `ClientImpl`. A service call takes at most
`2 * timeoutMs` (the comment at 841). `UA_Variant_setScalarCopy`, `UA_Array_new`
and `UA_NODEID_STRING_ALLOC` may fail for lack of memory. A server stores what it
acknowledges with exactly Good. A caller does not use a `Result` it moved from, and
its callables do not modify a payload through the reference they are given.

## 8. Not modelled

* `include/Thread_pool/*`: declarations without implementation.
* `concurrentqueue.h`, `blockingconcurrentqueue.h`: vendored, unused by the client.
* `bench/`, `scripts/`, `bench-results/`, the demo `main_uaPacking.cpp`.
* Logging, message texts, `RichError::codeName()`, the name tables of
  `S7TypeStruct.h`, which the client does not use.
* Exceptions thrown inside the `connect()`, `disconnect()` or `isConnected()` that a
  decision calls, as opposed to between these calls;
  the watchdog's self-detach in `joinWatchdog()` (no path calls `shutdown` there
  while the thread is joined by another).
* The swallowed `inactivityCallback` between the CAS of `TurnToRunning()` and its
  `connectionLost.store(false)` happens in the model; whether it matters depends on
  the SDK repeating the callback, so no property claims anything about it.
* A clock that shows 0: `m_lastBadStatusMs` uses 0 for "no bad status", so a bad
  status recorded at time 0 does not start the give-up timer. Only an `ISdk` with
  a clock of its own can show that.
* A version that wraps while a snapshot is held (`HeldBriefly`), and a `timeoutMs`
  so close to the maximum that the budget itself is within 500 ms of it, where the
  wall-clock deadline of 1215 does wrap.
