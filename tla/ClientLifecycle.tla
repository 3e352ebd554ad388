--------------------------- MODULE ClientLifecycle ---------------------------
(***************************************************************************)
(* OPC_UA_Client (src/src/OPCUAPacking/ua.cpp): the facade object, the     *)
(* RecreateSync block that outlives it, and the lifetime of the Impls it   *)
(* owns through shared_ptrs.  The owner creates and destroys the object;   *)
(* workers call the API, shutdown() and recreateGiveUpClient().            *)
(*                                                                         *)
(* What a call does inside an Impl is ClientImpl's subject.  Here an Impl  *)
(* is its SDK client, its watchdog thread, its stop flags and whether it   *)
(* gave up, and what matters is who still holds it, and who still touches  *)
(* the facade, when something is torn down.                                *)
(*                                                                         *)
(* A critical section of m_recreateLock or m_lock is one step, except the  *)
(* one of the swap in recreateGiveUpClient(): m_terminated can change, by  *)
(* the other lock, between its test and the assignment of pImpl.           *)
(* A call that is rejected at its entry changes nothing and has no action. *)
(***************************************************************************)
EXTENDS Naturals, FiniteSets

CONSTANTS
  Owner,        \* the thread that owns the unique_ptr to the facade
  Workers,      \* the other threads of the application
  Impls,        \* Impl instances; their number bounds the recreations
  JoinsApi      \* the owner lets ordinary API calls return before it destroys

ASSUME PartiesAssumption == Owner \notin Workers /\ IsFiniteSet(Workers)
ASSUME JoinsAssumption == JoinsApi \in BOOLEAN

Threads == Workers \cup {Owner}
None == "null"

ASSUME NoneAssumption == None \notin Impls /\ None \notin Threads

Calls == {"none", "create", "destroy", "api", "shutdown", "recreate"}
Labels ==
  {"idle", "new", "configure", "connect", "watch", "begin", "wait", "take",
   "signal", "join", "release", "done", "snap", "use", "unlease", "drop",
   "drain", "life", "check", "swap", "reset", "tail"}

VARIABLES
  obj,              \* the facade: "new", "live", "destroying", "freed"
  recreating,       \* m_recreating
  terminated,       \* m_terminated
  inFlight,         \* m_inFlight
  shutdownInFlight, \* m_shutdownInFlight
  lock,             \* thread that holds m_lock across steps
  pImpl,            \* the facade's shared_ptr
  client,           \* UA_Client of an Impl: "none", "live", "deleted"
  wdog,             \* its watchdog thread: "none", "starting", "running", "exited"
  givenUp,          \* m_lifeState = GIVEN_UP
  stop,             \* "up", "signalled" (m_shutdown), "stopped" (m_stop)
  call, pc,         \* the public function a thread is in, and where
  self,             \* its shared_ptr ImplPtr, doomed or newImpl
  old               \* recreateGiveUpClient()'s shared_ptr old

syncVars == <<recreating, terminated, inFlight, shutdownInFlight>>
implVars == <<wdog, givenUp, stop>>
vars == <<obj, recreating, terminated, inFlight, shutdownInFlight, lock, pImpl,
          client, wdog, givenUp, stop, call, pc, self, old>>

-----------------------------------------------------------------------------
At(t, c, l) == call[t] = c /\ pc[t] = l
Goto(t, l) == pc' = [pc EXCEPT ![t] = l] /\ UNCHANGED call
Enter(t, c, l) == pc' = [pc EXCEPT ![t] = l] /\ call' = [call EXCEPT ![t] = c]
Return(t) == Enter(t, "none", "idle")

\* A shared_ptr of the facade or of a call frame refers to the Impl.
Owned(i) == pImpl = i \/ \E t \in Threads : self[t] = i \/ old[t] = i

\* runWatchdog() holds shared_from_this() while it runs.
Referenced(i) == Owned(i) \/ wdog[i] = "running"

\* ~Impl and UA_ClientDeleter: the step that drops the last reference deletes
\* the SDK client.
Reap ==
  client' = [i \in Impls |->
               IF client[i] = "live" /\ ~Referenced(i)' THEN "deleted" ELSE client[i]]

-----------------------------------------------------------------------------
(* create() / createWithSdk(), by the owner.                               *)

\* The constructor: clientNew() and the first Impl, or bad_alloc.
CreateNew ==
  /\ obj = "new" /\ At(Owner, "create", "new")
  /\ \/ \E i \in Impls :
          /\ client' = [client EXCEPT ![i] = "live"]
          /\ pImpl' = i
          /\ Goto(Owner, "configure") /\ UNCHANGED obj
     \/ obj' = "freed" /\ Return(Owner) /\ UNCHANGED <<client, pImpl>>
  /\ UNCHANGED <<syncVars, lock, implVars, self, old>>

\* configureClient(), then connect(); a failure destroys the new facade.
CreateStage ==
  /\ \/ At(Owner, "create", "configure") /\ Goto(Owner, "connect")
     \/ At(Owner, "create", "connect") /\ Goto(Owner, "watch")
     \/ (\E l \in {"configure", "connect"} : At(Owner, "create", l)) /\ Enter(Owner, "destroy", "begin")
  /\ UNCHANGED <<obj, syncVars, lock, pImpl, client, implVars, self, old>>

\* startWatchdog(), skipped without enableWatchDog; it may fail.
CreateWatch ==
  /\ At(Owner, "create", "watch")
  /\ \/ /\ \/ wdog' = [wdog EXCEPT ![pImpl] = "starting"]
           \/ UNCHANGED wdog
        /\ obj' = "live" /\ Return(Owner)
     \/ Enter(Owner, "destroy", "begin") /\ UNCHANGED <<obj, wdog>>
  /\ UNCHANGED <<syncVars, lock, pImpl, client, givenUp, stop, self, old>>

-----------------------------------------------------------------------------
(* The watchdog thread of Impl i.                                          *)

\* The thread begins: shared_from_this().
WatchdogStarts(i) ==
  /\ wdog[i] = "starting"
  /\ wdog' = [wdog EXCEPT ![i] = "running"]
  /\ UNCHANGED <<obj, syncVars, lock, pImpl, client, givenUp, stop, call, pc, self, old>>

WatchdogGivesUp(i) ==
  /\ wdog[i] = "running"
  /\ givenUp' = [givenUp EXCEPT ![i] = TRUE]
  /\ UNCHANGED <<obj, syncVars, lock, pImpl, client, wdog, stop, call, pc, self, old>>

\* getEffectiveStopSignal() ends the loop and the thread drops its reference.
WatchdogExits(i) ==
  /\ wdog[i] = "running" /\ (stop[i] # "up" \/ givenUp[i])
  /\ wdog' = [wdog EXCEPT ![i] = "exited"]
  /\ UNCHANGED <<obj, syncVars, lock, pImpl, givenUp, stop, call, pc, self, old>>
  /\ Reap

-----------------------------------------------------------------------------
(* The ordinary API functions: batchRead, batchWrite, connect, disconnect, *)
(* checkConnected, isHealthy, checkLifeState, setGiveUpSignal and          *)
(* pumpWatchdogForTest are all built this way.                             *)

\* ApiLease
ApiBegin(t) ==
  /\ obj = "live" /\ pc[t] = "idle"
  /\ ~terminated /\ ~recreating
  /\ inFlight' = inFlight + 1
  /\ Enter(t, "api", "snap")
  /\ UNCHANGED <<obj, recreating, terminated, shutdownInFlight, lock, pImpl, client, implVars, self, old>>

\* ImplPtr = pImpl under m_lock; a concurrent shutdown() may have emptied it.
ApiSnap(t) ==
  /\ At(t, "api", "snap") /\ lock = None
  /\ self' = [self EXCEPT ![t] = pImpl]
  /\ Goto(t, IF pImpl = None THEN "unlease" ELSE "use")
  /\ UNCHANGED <<obj, syncVars, lock, pImpl, client, implVars, old>>

\* The Impl's function; some of them make the Impl give up.
ApiUse(t) ==
  /\ At(t, "api", "use")
  /\ \/ givenUp' = [givenUp EXCEPT ![self[t]] = TRUE]
     \/ UNCHANGED givenUp
  /\ Goto(t, "unlease")
  /\ UNCHANGED <<obj, syncVars, lock, pImpl, client, wdog, stop, self, old>>

\* ~ApiLease runs before the destructor of ImplPtr, which is declared first.
ApiUnlease(t) ==
  /\ At(t, "api", "unlease")
  /\ inFlight' = inFlight - 1
  /\ Goto(t, "drop")
  /\ UNCHANGED <<obj, recreating, terminated, shutdownInFlight, lock, pImpl, client, implVars, self, old>>

ApiDrop(t) ==
  /\ At(t, "api", "drop")
  /\ self' = [self EXCEPT ![t] = None]
  /\ Return(t)
  /\ UNCHANGED <<obj, syncVars, lock, pImpl, implVars, old>>
  /\ Reap

-----------------------------------------------------------------------------
(* Impl::shutdown(), called by shutdownInternal(), by CandidateGuard and   *)
(* on the Impl that recreateGiveUpClient() replaced.                       *)

Target(t) == IF old[t] # None THEN old[t] ELSE self[t]

ImplSignal(t) ==
  /\ pc[t] = "signal"
  /\ stop' = [stop EXCEPT ![Target(t)] = "signalled"]
  /\ Goto(t, "join")
  /\ UNCHANGED <<obj, syncVars, lock, pImpl, client, wdog, givenUp, self, old>>

\* joinWatchdog(), m_stop and the bounded wait for m_taskCounter.
ImplJoin(t) ==
  /\ pc[t] = "join"
  /\ wdog[Target(t)] \in {"none", "exited"}
  /\ stop' = [stop EXCEPT ![Target(t)] = "stopped"]
  /\ Goto(t, "release")
  /\ UNCHANGED <<obj, syncVars, lock, pImpl, client, wdog, givenUp, self, old>>

\* doomed.reset(), old.reset(), or the end of the candidate's scope.
ImplRelease(t) ==
  /\ pc[t] = "release"
  /\ \/ old[t] # None /\ old' = [old EXCEPT ![t] = None] /\ UNCHANGED self
     \/ old[t] = None /\ self' = [self EXCEPT ![t] = None] /\ UNCHANGED old
  /\ Goto(t, IF call[t] = "recreate" THEN "reset" ELSE "done")
  /\ UNCHANGED <<obj, syncVars, lock, pImpl, implVars>>
  /\ Reap

-----------------------------------------------------------------------------
(* shutdown() and the destructor; both end in shutdownInternal().          *)

\* The call that wins m_terminated.
ShutdownBegin(t) ==
  /\ obj = "live" /\ pc[t] = "idle"
  /\ ~recreating /\ ~terminated
  /\ terminated' = TRUE
  /\ shutdownInFlight' = shutdownInFlight + 1
  /\ Enter(t, "shutdown", "take")
  /\ UNCHANGED <<obj, recreating, inFlight, lock, pImpl, client, implVars, self, old>>

\* Mutant of TakeImpl: pImpl is copied, not moved from.
TakeImplCopying(t) ==
  /\ pc[t] = "take" /\ lock = None
  /\ self' = [self EXCEPT ![t] = pImpl]
  /\ Goto(t, IF pImpl = None THEN "done" ELSE "signal")
  /\ UNCHANGED <<obj, syncVars, lock, pImpl, client, implVars, old>>

\* doomed = std::move(pImpl), under m_lock.
TakeImpl(t) ==
  /\ pc[t] = "take" /\ lock = None
  /\ self' = [self EXCEPT ![t] = pImpl]
  /\ pImpl' = None
  /\ Goto(t, IF pImpl = None THEN "done" ELSE "signal")
  /\ UNCHANGED <<obj, syncVars, lock, client, implVars, old>>

\* ~ShutdownCallGuard
ShutdownDone(t) ==
  /\ At(t, "shutdown", "done")
  /\ shutdownInFlight' = IF shutdownInFlight > 0 THEN shutdownInFlight - 1 ELSE 0
  /\ Return(t)
  /\ UNCHANGED <<obj, recreating, terminated, inFlight, lock, pImpl, client, implVars, self, old>>

\* ~OPC_UA_Client, by the owner or by a create() that failed.  JoinsApi: the
\* owner waits for ordinary calls, not for shutdown() or recreate.
DestroyBegin ==
  /\ \/ /\ obj = "live" /\ pc[Owner] = "idle"
        /\ JoinsApi => \A t \in Threads : call[t] # "api"
     \/ At(Owner, "destroy", "begin")
  /\ obj' = "destroying"
  /\ terminated' = TRUE
  /\ Enter(Owner, "destroy", "wait")
  /\ UNCHANGED <<recreating, inFlight, shutdownInFlight, lock, pImpl, client, implVars, self, old>>

\* Mutant of DestroyWait: a recreation under way is not waited for.
DestroyWaitShutdownOnly ==
  /\ At(Owner, "destroy", "wait")
  /\ shutdownInFlight = 0
  /\ Goto(Owner, "take")
  /\ UNCHANGED <<obj, syncVars, lock, pImpl, client, implVars, self, old>>

DestroyWait ==
  /\ At(Owner, "destroy", "wait")
  /\ ~recreating /\ shutdownInFlight = 0
  /\ Goto(Owner, "take")
  /\ UNCHANGED <<obj, syncVars, lock, pImpl, client, implVars, self, old>>

DestroyDone ==
  /\ At(Owner, "destroy", "done")
  /\ obj' = "freed"
  /\ Return(Owner)
  /\ UNCHANGED <<syncVars, lock, pImpl, client, implVars, self, old>>

-----------------------------------------------------------------------------
(* recreateGiveUpClient().                                                 *)

RecreateFrame == UNCHANGED <<obj, terminated, inFlight, shutdownInFlight, givenUp, stop>>

\* Mutant of RecreateBegin: a recreation under way is not noticed.
RecreateBeginUntested(t) ==
  /\ obj = "live" /\ pc[t] = "idle"
  /\ ~terminated
  /\ recreating' = TRUE
  /\ Enter(t, "recreate", "drain")
  /\ UNCHANGED <<lock, pImpl, client, wdog, self, old>> /\ RecreateFrame

RecreateBegin(t) ==
  /\ obj = "live" /\ pc[t] = "idle"
  /\ ~recreating /\ ~terminated
  /\ recreating' = TRUE
  /\ Enter(t, "recreate", "drain")
  /\ UNCHANGED <<lock, pImpl, client, wdog, self, old>> /\ RecreateFrame

\* Mutant of RecreateDrain: a timed-out wait goes on like a drained one.
RecreateDrainIgnored(t) ==
  /\ At(t, "recreate", "drain")
  /\ Goto(t, "life")
  /\ UNCHANGED <<recreating, lock, pImpl, client, wdog, self, old>> /\ RecreateFrame

\* Mutant of RecreateDrain: the timeout returns without a RecreateGuard.
RecreateDrainUnguarded(t) ==
  /\ At(t, "recreate", "drain")
  /\ Goto(t, IF inFlight = 0 THEN "life" ELSE "tail")
  /\ UNCHANGED <<recreating, lock, pImpl, client, wdog, self, old>> /\ RecreateFrame

\* Wait for the leases, or time out after 2 s.
RecreateDrain(t) ==
  /\ At(t, "recreate", "drain")
  /\ Goto(t, IF inFlight = 0 THEN "life" ELSE "reset")
  /\ UNCHANGED <<recreating, lock, pImpl, client, wdog, self, old>> /\ RecreateFrame

RecreateLife(t) ==
  /\ At(t, "recreate", "life") /\ lock = None
  /\ Goto(t, IF pImpl # None /\ givenUp[pImpl] THEN "new" ELSE "reset")
  /\ UNCHANGED <<recreating, lock, pImpl, client, wdog, self, old>> /\ RecreateFrame

\* clientNew() and the candidate Impl.
RecreateNew(t) ==
  /\ At(t, "recreate", "new")
  /\ \/ \E i \in Impls :
          /\ client[i] = "none"
          /\ client' = [client EXCEPT ![i] = "live"]
          /\ self' = [self EXCEPT ![t] = i]
          /\ Goto(t, "configure")
     \/ Goto(t, "reset") /\ UNCHANGED <<client, self>>
  /\ UNCHANGED <<recreating, lock, pImpl, wdog, old>> /\ RecreateFrame

\* Mutant of RecreateStage: a failed candidate is dropped, not shut down.
RecreateStageUnguarded(t) ==
  /\ \/ At(t, "recreate", "configure") /\ (Goto(t, "connect") \/ Goto(t, "release"))
     \/ At(t, "recreate", "connect") /\ (Goto(t, "watch") \/ Goto(t, "release"))
  /\ UNCHANGED <<recreating, lock, pImpl, client, wdog, self, old>> /\ RecreateFrame

\* A candidate that is not adopted is shut down by CandidateGuard.
RecreateStage(t) ==
  /\ \/ At(t, "recreate", "configure") /\ (Goto(t, "connect") \/ Goto(t, "signal"))
     \/ At(t, "recreate", "connect") /\ (Goto(t, "watch") \/ Goto(t, "signal"))
  /\ UNCHANGED <<recreating, lock, pImpl, client, wdog, self, old>> /\ RecreateFrame

RecreateWatch(t) ==
  /\ At(t, "recreate", "watch")
  /\ \/ wdog' = [wdog EXCEPT ![self[t]] = "starting"] /\ Goto(t, "check")
     \/ Goto(t, "signal") /\ UNCHANGED wdog
  /\ UNCHANGED <<recreating, lock, pImpl, client, self, old>> /\ RecreateFrame

\* Mutant of RecreateCheck: the candidate is dropped, not shut down (T169).
RecreateCheckUnguarded(t) ==
  /\ At(t, "recreate", "check") /\ lock = None
  /\ \/ terminated /\ Goto(t, "release") /\ UNCHANGED lock
     \/ ~terminated /\ lock' = t /\ Goto(t, "swap")
  /\ UNCHANGED <<recreating, pImpl, client, wdog, self, old>> /\ RecreateFrame

\* Under m_lock: the facade may be terminated by now ...
RecreateCheck(t) ==
  /\ At(t, "recreate", "check") /\ lock = None
  /\ \/ terminated /\ Goto(t, "signal") /\ UNCHANGED lock
     \/ ~terminated /\ lock' = t /\ Goto(t, "swap")
  /\ UNCHANGED <<recreating, pImpl, client, wdog, self, old>> /\ RecreateFrame

\* Mutant of RecreateSwap: the end is published before old->shutdown() (T153).
RecreateSwapPublishing(t) ==
  /\ At(t, "recreate", "swap")
  /\ old' = [old EXCEPT ![t] = pImpl]
  /\ pImpl' = self[t]
  /\ lock' = None /\ recreating' = FALSE
  /\ Goto(t, IF pImpl = None THEN "reset" ELSE "signal")
  /\ UNCHANGED <<client, wdog, self>> /\ RecreateFrame

\* ... or the candidate is adopted, and the old Impl shut down.
RecreateSwap(t) ==
  /\ At(t, "recreate", "swap")
  /\ old' = [old EXCEPT ![t] = pImpl]
  /\ pImpl' = self[t]
  /\ lock' = None
  /\ Goto(t, IF pImpl = None THEN "reset" ELSE "signal")
  /\ UNCHANGED <<recreating, client, wdog, self>> /\ RecreateFrame

\* recreateGuard.reset(), or ~RecreateGuard on the way out of a failure.
RecreateReset(t) ==
  /\ At(t, "recreate", "reset")
  /\ recreating' = FALSE
  /\ Goto(t, "tail")
  /\ UNCHANGED <<lock, pImpl, client, wdog, self, old>> /\ RecreateFrame

\* newImpl and candidate leave their scope after the guard's reset.
RecreateTail(t) ==
  /\ At(t, "recreate", "tail")
  /\ self' = [self EXCEPT ![t] = None]
  /\ Return(t)
  /\ UNCHANGED <<recreating, lock, pImpl, wdog, old>> /\ RecreateFrame
  /\ Reap

-----------------------------------------------------------------------------
Init ==
  /\ obj = "new"
  /\ recreating = FALSE /\ terminated = FALSE
  /\ inFlight = 0 /\ shutdownInFlight = 0
  /\ lock = None /\ pImpl = None
  /\ client = [i \in Impls |-> "none"]
  /\ wdog = [i \in Impls |-> "none"]
  /\ givenUp = [i \in Impls |-> FALSE]
  /\ stop = [i \in Impls |-> "up"]
  /\ call = [t \in Threads |-> IF t = Owner THEN "create" ELSE "none"]
  /\ pc = [t \in Threads |-> IF t = Owner THEN "new" ELSE "idle"]
  /\ self = [t \in Threads |-> None]
  /\ old = [t \in Threads |-> None]

Create == CreateNew \/ CreateStage \/ CreateWatch

Api(t) == ApiSnap(t) \/ ApiUse(t) \/ ApiUnlease(t) \/ ApiDrop(t)

ImplShutdown(t) == ImplSignal(t) \/ ImplJoin(t) \/ ImplRelease(t)

Destroy == DestroyWait \/ DestroyDone

Recreate(t) ==
  \/ RecreateDrain(t) \/ RecreateLife(t) \/ RecreateNew(t) \/ RecreateStage(t)
  \/ RecreateWatch(t) \/ RecreateCheck(t) \/ RecreateSwap(t) \/ RecreateReset(t)
  \/ RecreateTail(t)

\* What a thread does on its own inside a call.
Step(t) ==
  Api(t) \/ ImplShutdown(t) \/ TakeImpl(t) \/ ShutdownDone(t) \/ Recreate(t)

Begin(t) == ApiBegin(t) \/ ShutdownBegin(t) \/ RecreateBegin(t)

Next ==
  \/ Create \/ DestroyBegin \/ Destroy
  \/ \E t \in Threads : Step(t)
  \/ \E t \in Workers : Begin(t)
  \/ \E i \in Impls : WatchdogStarts(i) \/ WatchdogGivesUp(i) \/ WatchdogExits(i)

Spec == Init /\ [][Next]_vars

\* The OS runs every thread that can run: calls that were begun and watchdogs
\* go on.  Nobody owes a new call, and the owner need not destroy the object.
FairSpec ==
  /\ Spec
  /\ \A t \in Threads : WF_vars(Step(t))
  /\ WF_vars(Destroy)
  /\ \A i \in Impls : WF_vars(WatchdogStarts(i)) /\ WF_vars(WatchdogExits(i))

-----------------------------------------------------------------------------
(* Properties.                                                             *)

\* Every variable has its type (the members of the facade, of RecreateSync
\* and of the call frames).
TypeOK ==
  /\ obj \in {"new", "live", "destroying", "freed"}
  /\ recreating \in BOOLEAN /\ terminated \in BOOLEAN
  /\ inFlight \in Nat /\ shutdownInFlight \in Nat
  /\ lock \in Threads \cup {None}
  /\ pImpl \in Impls \cup {None}
  /\ client \in [Impls -> {"none", "live", "deleted"}]
  /\ wdog \in [Impls -> {"none", "starting", "running", "exited"}]
  /\ givenUp \in [Impls -> BOOLEAN]
  /\ stop \in [Impls -> {"up", "signalled", "stopped"}]
  /\ call \in [Threads -> Calls]
  /\ pc \in [Threads -> Labels]
  /\ self \in [Threads -> Impls \cup {None}]
  /\ old \in [Threads -> Impls \cup {None}]

Leased(t) == call[t] = "api" /\ pc[t] \in {"snap", "use", "unlease"}
Recreates(t) == call[t] = "recreate" /\ pc[t] # "tail"

\* Every call is at one of its own locations; creating and destroying is the
\* owner's.
FrameShape ==
  \A t \in Threads :
    \/ At(t, "none", "idle")
    \/ t = Owner /\ call[t] = "create" /\ pc[t] \in {"new", "configure", "connect", "watch"}
    \/ /\ t = Owner /\ call[t] = "destroy"
       /\ pc[t] \in {"begin", "wait", "take", "signal", "join", "release", "done"}
    \/ t \in Workers /\ call[t] = "api" /\ pc[t] \in {"snap", "use", "unlease", "drop"}
    \/ /\ t \in Workers /\ call[t] = "shutdown"
       /\ pc[t] \in {"take", "signal", "join", "release", "done"}
    \/ /\ t \in Workers /\ call[t] = "recreate"
       /\ pc[t] \in {"drain", "life", "new", "configure", "connect", "watch", "check",
                    "swap", "signal", "join", "release", "reset", "tail"}

\* m_inFlight counts the leases.
LeasesCounted == inFlight = Cardinality({t \in Threads : Leased(t)})

\* m_recreating is set exactly while a recreation is under way, and at most one
\* is.
OneRecreation ==
  /\ recreating <=> \E t \in Threads : Recreates(t)
  /\ \A a, b \in Threads : Recreates(a) /\ Recreates(b) => a = b

\* The shutdown() that won m_terminated is the only one, and it is counted.
OneShutdown ==
  /\ \A t \in Threads : call[t] = "shutdown" => terminated /\ shutdownInFlight > 0
  /\ \A a, b \in Threads : call[a] = "shutdown" /\ call[b] = "shutdown" => a = b

\* Locations of a recreation that has drained the leases, and of one that has
\* also found the Impl given up.
Drained == {"life", "new", "configure", "connect", "watch", "check", "swap"}
Chosen == Drained \ {"life"}

\* While a recreation works on its candidate, no lease exists, no shutdown()
\* takes pImpl away, and the Impl that was found given up stays in place.
RecreationQuiet ==
  \A t \in Threads : Recreates(t) =>
    /\ \A u \in Threads : call[u] # "shutdown"
    /\ pc[t] \in Drained => inFlight = 0
    /\ pc[t] \in Chosen => pImpl \in Impls /\ givenUp[pImpl]

\* The phases of the facade and of its owner agree.
OwnerPhases ==
  /\ call[Owner] = "create" => obj = "new"
  /\ At(Owner, "create", "new") => pImpl = None
  /\ obj = "new" => \A t \in Workers : call[t] = "none"
  /\ At(Owner, "destroy", "begin") => obj = "new"
  /\ call[Owner] = "destroy" /\ pc[Owner] # "begin" => obj = "destroying"
  /\ call[Owner] = "destroy" /\ pc[Owner] \notin {"begin", "wait"} =>
       ~recreating /\ shutdownInFlight = 0
  /\ obj = "freed" =>
       \A t \in Threads : call[t] \in {"none", "api"} \/ At(t, "recreate", "tail")
  /\ JoinsApi /\ obj \in {"destroying", "freed"} => \A t \in Threads : call[t] # "api"

\* The inductive strengthening of TypeOK, NoUseAfterFree and
\* SwapOnlyQuietGivenUp: the counters of RecreateSync are what the destructor's
\* and the recreation's waits take them for.
SyncOwned ==
  /\ FrameShape /\ LeasesCounted /\ OneRecreation /\ OneShutdown
  /\ RecreationQuiet /\ OwnerPhases

\* Locations from which a call still reads this->m_recreateSync or this->pImpl.
TouchesThis ==
  {"snap", "take", "drain", "life", "new", "configure", "connect", "watch", "check", "swap"}

\* The destructor does not free the facade while shutdown() or
\* recreateGiveUpClient() still works on it (T150, T153): it waits for
\* m_shutdownInFlight and m_recreating, which cover those calls to the end.
NoUseAfterFree == obj = "freed" => \A t \in Threads : pc[t] \notin TouchesThis

\* Nobody abandons a watchdog thread (T169): its Impl is in pImpl or held by a
\* call that will join it.  The thread's own reference does not count; without
\* another one, a thread that is starting finds its Impl destroyed.
OwnedWatchdogs == \A i \in Impls : wdog[i] \in {"starting", "running"} => Owned(i)

\* Every path that destroys an Impl has called Impl::shutdown() on it before,
\* so the UA_Client is deleted after its watchdog is gone (comment at ~Impl).
JoinedBeforeDeleted ==
  \A i \in Impls :
    client[i] = "deleted" => stop[i] = "stopped" /\ wdog[i] \in {"none", "exited"}

\* After ~OPC_UA_Client no watchdog runs, and an SDK client lives on only in
\* the tail of a recreateGiveUpClient() that has published its end.
DestroyedClean ==
  obj = "freed" =>
    \A i \in Impls :
      /\ wdog[i] \in {"none", "exited"}
      /\ client[i] = "live" => \E t \in Threads : At(t, "recreate", "tail") /\ self[t] = i

\* Locations of Impl::shutdown(), and of a recreation that works on a candidate.
ShuttingDown == {"signal", "join", "release"}
OnCandidate == {"configure", "connect", "watch", "check", "swap"}

\* The call answers for Target(t): it will shut it down or hand it to pImpl.
Holding(t) ==
  pc[t] \in ShuttingDown \/ (call[t] = "recreate" /\ pc[t] \in OnCandidate)

Handled(i) == pImpl = i \/ \E t \in Threads : Holding(t) /\ Target(t) = i

\* Impl::shutdown() is through with it.
Stopped(i) == stop[i] = "stopped" /\ wdog[i] \in {"none", "exited"}

\* Where a call frame has its shared_ptrs.
FrameRefs ==
  \A t \in Threads :
    /\ Holding(t) => self[t] \in Impls
    /\ self[t] # None =>
         \/ Holding(t)
         \/ call[t] = "api" /\ pc[t] # "snap"
         \/ call[t] = "recreate" /\ pc[t] \in {"reset", "tail"}
    /\ old[t] # None =>
         /\ call[t] = "recreate" /\ pc[t] \in ShuttingDown
         /\ pImpl = self[t]

\* No two parties answer for the same Impl.
OneHolder ==
  \A t \in Threads : Holding(t) =>
    /\ Target(t) # pImpl
    /\ \A u \in Threads : Holding(u) /\ Target(u) = Target(t) => u = t

\* The SDK client lives exactly as long as somebody refers to its Impl.
LiveIffOwned == \A i \in Impls : client[i] = "live" <=> Owned(i)

\* An Impl nobody answers for any more has been shut down.
ShutBeforeDropped ==
  /\ \A i \in Impls : Owned(i) => Handled(i) \/ Stopped(i)
  /\ \A t \in Threads : pc[t] = "release" => Stopped(Target(t))

\* The destructor has emptied pImpl for good.
EmptiedByDestroy ==
  obj = "freed" \/ (call[Owner] = "destroy" /\ pc[Owner] \notin {"begin", "wait", "take"}) =>
    pImpl = None

\* The inductive strengthening of OwnedWatchdogs, JoinedBeforeDeleted and
\* DestroyedClean: an Impl that is not shut down yet is in pImpl or with exactly
\* one call that will shut it down (shutdownInternal(), CandidateGuard, the end
\* of recreateGiveUpClient()); every other shared_ptr is a plain reference.
ImplsOwned ==
  /\ FrameRefs /\ OneHolder /\ LiveIffOwned /\ ShutBeforeDropped
  /\ OwnedWatchdogs /\ JoinedBeforeDeleted /\ EmptiedByDestroy

\* recreateGiveUpClient() replaces an Impl only if that Impl gave up, and with
\* no API call inside: the leases were drained and none was handed out since.
SwapOnlyQuietGivenUp ==
  [][pImpl # None /\ pImpl' \notin {pImpl, None} =>
       /\ givenUp[pImpl]
       /\ \A t \in Threads : call[t] = "api" => pc[t] = "drop"]_vars

Contract(i) ==
  INSTANCE ImplContract WITH wdog <- wdog[i], givenUp <- givenUp[i], stop <- stop[i]

\* The facade keeps to the contract with each Impl, whichever of create(),
\* recreateGiveUpClient(), shutdown() and the destructor gets hold of it: one
\* watchdog and one Impl::shutdown(), in that order, and a join before it ends.
KeepsImplContract ==
  /\ \A i \in Impls : Contract(i)!Init
  /\ [][\A i \in Impls : [Contract(i)!Next]_(Contract(i)!vars)]_vars

\* A destructor that was entered returns.
DestructorReturns == obj = "destroying" ~> obj = "freed"

\* No SDK client is leaked, by no failure of create() or recreate and by no
\* race of them with shutdown() and the destructor.
ClientsReleased == obj = "freed" ~> \A i \in Impls : client[i] # "live"

-----------------------------------------------------------------------------
(* What the repository says of the program, and the code does not do.      *)

\* docs/thread-model.md:280: recreate and the winning shutdown() are the only
\* paths that may still access this->pImpl once the object is destroyed; the
\* lease keeps ordinary API calls out.
OnlyTwoPathsOutlive ==
  obj = "freed" => \A t \in Threads : ~At(t, "api", "snap")
=============================================================================
