----------------------------- MODULE ClientImpl -----------------------------
(***************************************************************************)
(* OPC_UA_Client::Impl (src/src/OPCUAPacking/ua.cpp): one SDK client, its  *)
(* cached connection state, the RUNNING / RECOVERING / GIVEN_UP machine,   *)
(* the watchdog thread, and the threads that call into the Impl.           *)
(*                                                                         *)
(* A thread runs at the deepest of three layers that is not "off":         *)
(*   sub  isConnected() and the TurnTo...() helpers,                       *)
(*   op   connect(), disconnect(), batchRead(), batchWrite(),              *)
(*   dec  runWatchdog() and doWatchdogDecision().                          *)
(* A layer that finishes becomes "off" and the layer above it goes on,     *)
(* reading the callee's result in ret (of isConnected) or res (of an op).  *)
(*                                                                         *)
(* Every store and every CAS on a shared atomic is a step of its own, and  *)
(* so is the load that a CAS depends on.  Loads that only feed one test or *)
(* one row of early returns (isHealthyCached(), getEffectiveStopSignal(),  *)
(* the checks of a batch) are one step.                                    *)
(* m_impl is never reset between construction and destruction, so the      *)
(* NULLPTR returns, which need a null m_impl, have no counterpart here.    *)
(***************************************************************************)
EXTENDS Integers, FiniteSets

CONSTANTS
  Callers,          \* threads of the application
  Watchdog,         \* the thread started by startWatchdog()
  Commands,         \* which calls the application makes
  SdkStates,        \* (status, channel, session) triples the SDK can be in
  InitialSdk,       \* the triple create() leaves behind: it connects first
  GiveUpThreshold,  \* giveUpThresholdMs in clock ticks
  MaxRetries,       \* ClientConfig::maxRetries
  WatchdogFaults    \* whether a watchdog iteration may throw

Threads == Callers \cup {Watchdog}
Statuses == {"Good", "Uncertain", "Bad"}
Channels == {"CLOSED", "OPENING", "OPEN"}
Sessions == {"CLOSED", "ACTIVATED"}
Triples == [status : Statuses, channel : Channels, session : Sessions]
AllCommands ==
  {"connect", "disconnect", "read", "write", "check", "giveUp", "pump", "shutdown"}

ASSUME ThreadsAssumption == Watchdog \notin Callers /\ IsFiniteSet(Callers)
ASSUME SdkAssumption == SdkStates \subseteq Triples /\ InitialSdk \in SdkStates
ASSUME CommandsAssumption == Commands \subseteq AllCommands
ASSUME BoundsAssumption ==
  GiveUpThreshold \in Nat \ {0} /\ MaxRetries \in Nat /\ WatchdogFaults \in BOOLEAN

Unset == -1         \* m_lastBadStatusMs = 0: no bad status recorded
NoThread == "free"  \* m_sdkMutex is not held

ASSUME NoThreadAssumption == NoThread \notin Threads

LifeStates == {"RUNNING", "RECOVERING", "GIVEN_UP"}
SubLabels ==
  {"off", "ic_stop", "ic_iterate", "ic_load", "ic_getState", "ic_publish",
   "ic_bad", "ic_return", "rec_test", "rec_cas", "rec_recheck", "rec_back",
   "run_cas", "run_lost", "run_timer", "gu_stamp", "gu_cas"}
OpLabels ==
  {"off", "enter", "stop", "cas", "async", "asyncFailed", "polled", "clock",
   "last", "closing", "b_stop", "b_enter", "b_check", "b_try", "b_call",
   "unguard", "leave"}
DecLabels ==
  {"off", "w_loop", "w_iterate", "w_backoff", "w_due", "w_caught", "w_exit",
   "k_enter", "k_health",
   "k_branch1", "k_branch2", "k_branch3", "k_stamp", "k_test", "k_giveUp",
   "k_iterate", "k_disconnected", "k_iterate2", "k_closed", "k_connected",
   "k_recover", "k_end"}

VARIABLES
  sdk,        \* the triple inside the SDK (external; guarded by m_sdkMutex)
  sdkMutex,   \* holder of m_sdkMutex
  packed,     \* state_packed: the cached triple
  current,    \* threads whose loaded state_packed still equals it, version included
  lost,       \* connectionLost
  life,       \* m_lifeState
  conn,       \* m_connState
  badAge,     \* ticks since m_lastBadStatusMs, capped at the threshold; Unset
  running,    \* m_running
  shutdown,   \* m_shutdown
  sd,         \* where the thread inside Impl::shutdown() is
  tasks,      \* m_taskCounter
  inFlight,   \* threads that own a live InFlightGuard
  casGuards,  \* threads that own a live CASGuard
  sub, op, dec,  \* program counters of the three layers
  cmd,        \* the op-layer function a thread is in
  saw,        \* triple returned by the thread's last getState()
  ret,        \* result of isConnected()
  res,        \* result of the op-layer function
  branch,     \* branch of doWatchdogDecision() being executed
  retry       \* retry counter of batchRead()

sdkVars == <<sdk, sdkMutex>>
cacheVars == <<packed, current, lost>>
stopVars == <<running, shutdown, sd>>
guardVars == <<conn, tasks, inFlight, casGuards>>
localVars == <<saw, ret, res, cmd, branch, retry>>
vars == <<sdk, sdkMutex, packed, current, lost, life, conn, badAge, running,
          shutdown, sd, tasks, inFlight, casGuards, sub, op, dec, cmd, saw,
          ret, res, branch, retry>>

-----------------------------------------------------------------------------
(* Predicates on the cached state.                                         *)

TripleReady(s) ==
  s.status = "Good" /\ s.channel = "OPEN" /\ s.session = "ACTIVATED"

isHealthyCached == ~lost /\ TripleReady(packed)

isChannelClosed == packed.channel = "CLOSED"

isConnectBad == packed.status = "Bad"

\* A client that gave up counts as stopped.
getEffectiveStopSignal == (shutdown /\ ~running) \/ life = "GIVEN_UP"

\* updateBadStatusTime(): only the first bad status of a window is recorded.
updateBadStatusTime == badAge' = IF badAge = Unset THEN 0 ELSE badAge

shouldTriggerGiveUp == badAge # Unset /\ badAge >= GiveUpThreshold

-----------------------------------------------------------------------------
(* Moving between the layers.                                              *)

AtSub(t, l) == sub[t] = l
AtOp(t, l) == sub[t] = "off" /\ op[t] = l
AtDec(t, l) == sub[t] = "off" /\ op[t] = "off" /\ dec[t] = l

\* A thread of the application outside the Impl, with no answer pending.
Idle(t) == t \in Callers /\ AtDec(t, "off") /\ ret[t] = "none"

GotoSub(t, l) == sub' = [sub EXCEPT ![t] = l] /\ UNCHANGED <<op, dec>>
GotoOp(t, l) == op' = [op EXCEPT ![t] = l] /\ UNCHANGED <<sub, dec>>
GotoDec(t, l) == dec' = [dec EXCEPT ![t] = l] /\ UNCHANGED <<sub, op>>

\* The op layer calls helper s and continues at l; so does the dec layer.
OpCalls(t, s, l) ==
  sub' = [sub EXCEPT ![t] = s] /\ op' = [op EXCEPT ![t] = l] /\ UNCHANGED dec
DecCalls(t, s, l) ==
  sub' = [sub EXCEPT ![t] = s] /\ dec' = [dec EXCEPT ![t] = l] /\ UNCHANGED op

\* The dec layer calls connect() or disconnect() and continues at l.
DecCallsOp(t, c, l) ==
  /\ op' = [op EXCEPT ![t] = "enter"]
  /\ dec' = [dec EXCEPT ![t] = l]
  /\ cmd' = [cmd EXCEPT ![t] = c]
  /\ UNCHANGED sub

SetRes(t, r) == res' = [res EXCEPT ![t] = r]
SetRet(t, r) == ret' = [ret EXCEPT ![t] = r]

-----------------------------------------------------------------------------
(* Calls into the SDK.  A thread inside one holds m_sdkMutex; the SDK runs *)
(* its callbacks inline, in that thread, before the call returns.          *)

InSdkCall(t) ==
  \/ AtSub(t, "ic_iterate")
  \/ \E l \in {"async", "closing", "b_call"} : AtOp(t, l)
  \/ \E l \in {"w_iterate", "k_iterate", "k_iterate2"} : AtDec(t, l)

SdkEnter(t) ==
  /\ InSdkCall(t) /\ sdkMutex = NoThread
  /\ sdkMutex' = t
  /\ UNCHANGED <<sdk, cacheVars, life, badAge, stopVars, guardVars, localVars, sub, op, dec>>

\* The SDK changes state and calls stateCallback, which always wins its CAS.
StateCallback(t, s) ==
  /\ InSdkCall(t) /\ sdkMutex = t
  /\ sdk' = s /\ packed' = s
  /\ current' = {}
  /\ UNCHANGED <<sdkMutex, lost, life, badAge, stopVars, guardVars, localVars, sub, op, dec>>

\* The SDK changes state without calling back; only getState() reveals it.
SdkSilentChange(t, s) ==
  /\ InSdkCall(t) /\ sdkMutex = t
  /\ sdk' = s
  /\ UNCHANGED <<sdkMutex, cacheVars, life, badAge, stopVars, guardVars, localVars, sub, op, dec>>

InactivityCallback(t) ==
  /\ InSdkCall(t) /\ sdkMutex = t
  /\ ~getEffectiveStopSignal
  /\ lost' = TRUE
  /\ UNCHANGED <<sdkVars, packed, current, life, badAge, stopVars, guardVars, localVars, sub, op, dec>>

\* The call returns and m_sdkMutex is released.
SdkReturns(t) ==
  sdkMutex = t /\ sdkMutex' = NoThread /\ UNCHANGED sdk

-----------------------------------------------------------------------------
(* isConnected().                                                          *)

IsConnectedStop(t) ==
  /\ AtSub(t, "ic_stop")
  /\ \/ /\ getEffectiveStopSignal
        /\ SetRet(t, "SHUTDOWN") /\ GotoSub(t, "off")
     \/ /\ ~getEffectiveStopSignal
        /\ GotoSub(t, "ic_iterate") /\ UNCHANGED ret
  /\ UNCHANGED <<sdkVars, cacheVars, life, badAge, stopVars, guardVars, saw, res, cmd, branch, retry>>

IsConnectedIterated(t) ==
  /\ AtSub(t, "ic_iterate") /\ SdkReturns(t)
  /\ GotoSub(t, "ic_load")
  /\ UNCHANGED <<cacheVars, life, badAge, stopVars, guardVars, localVars>>

\* expected = state_packed.load()
IsConnectedLoad(t) ==
  /\ AtSub(t, "ic_load")
  /\ current' = current \cup {t}
  /\ GotoSub(t, "ic_getState")
  /\ UNCHANGED <<sdkVars, packed, lost, life, badAge, stopVars, guardVars, localVars>>

IsConnectedGetState(t) ==
  /\ AtSub(t, "ic_getState") /\ sdkMutex = NoThread
  /\ saw' = [saw EXCEPT ![t] = sdk]
  /\ GotoSub(t, "ic_publish")
  /\ UNCHANGED <<sdkVars, cacheVars, life, badAge, stopVars, guardVars, ret, res, cmd, branch, retry>>

\* Mutant of IsConnectedPublish: a plain store.
IsConnectedPublishByStore(t) ==
  /\ AtSub(t, "ic_publish")
  /\ packed' = saw[t] /\ current' = {}
  /\ GotoSub(t, "ic_bad")
  /\ UNCHANGED <<sdkVars, lost, life, badAge, stopVars, guardVars, localVars>>

\* tryPublishIfUnchanged(): one CAS; a lost race drops the getState() result.
\* A won race bumps the version, so every other loaded snapshot is outdated.
IsConnectedPublish(t) ==
  /\ AtSub(t, "ic_publish")
  /\ \/ t \in current /\ packed' = saw[t] /\ current' = {}
     \/ t \notin current /\ UNCHANGED <<packed, current>>
  /\ GotoSub(t, "ic_bad")
  /\ UNCHANGED <<sdkVars, lost, life, badAge, stopVars, guardVars, localVars>>

IsConnectedBad(t) ==
  /\ AtSub(t, "ic_bad")
  /\ IF saw[t].status # "Good" THEN updateBadStatusTime ELSE UNCHANGED badAge
  /\ GotoSub(t, "ic_return")
  /\ UNCHANGED <<sdkVars, cacheVars, life, stopVars, guardVars, localVars>>

\* Mutant of IsConnectedReturn: channel and session are not looked at.
IsConnectedReturnStatus(t) ==
  /\ AtSub(t, "ic_return")
  /\ SetRet(t, IF ~lost /\ packed.status = "Good" THEN "healthy" ELSE "unhealthy")
  /\ saw' = [saw EXCEPT ![t] = InitialSdk]
  /\ GotoSub(t, "off")
  /\ UNCHANGED <<sdkVars, cacheVars, life, badAge, stopVars, guardVars, res, cmd, branch, retry>>

IsConnectedReturn(t) ==
  /\ AtSub(t, "ic_return")
  /\ SetRet(t, IF isHealthyCached THEN "healthy" ELSE "unhealthy")
  /\ saw' = [saw EXCEPT ![t] = InitialSdk]
  /\ GotoSub(t, "off")
  /\ UNCHANGED <<sdkVars, cacheVars, life, badAge, stopVars, guardVars, res, cmd, branch, retry>>

-----------------------------------------------------------------------------
(* TurnToRecovring(), TurnToRunning(), TurnToGiveup().  The load and the   *)
(* CAS of each loop are separate; a CAS that fails sees the current value. *)

LifeFrame == UNCHANGED <<sdkVars, packed, current, stopVars, guardVars, localVars>>

\* Mutant of RecoveringTest: only a bad status leaves RUNNING.
RecoveringTestIgnoringChannel(t) ==
  /\ AtSub(t, "rec_test")
  /\ GotoSub(t, IF life = "RUNNING" /\ isConnectBad THEN "rec_cas" ELSE "off")
  /\ UNCHANGED <<lost, life, badAge>> /\ LifeFrame

RecoveringTest(t) ==
  /\ AtSub(t, "rec_test")
  /\ GotoSub(t, IF life = "RUNNING" /\ ~isHealthyCached THEN "rec_cas" ELSE "off")
  /\ UNCHANGED <<lost, life, badAge>> /\ LifeFrame

RecoveringCas(t) ==
  /\ AtSub(t, "rec_cas")
  /\ \/ life = "RUNNING" /\ life' = "RECOVERING" /\ GotoSub(t, "rec_recheck")
     \/ life # "RUNNING" /\ UNCHANGED life /\ GotoSub(t, "off")
  /\ UNCHANGED <<lost, badAge>> /\ LifeFrame

RecoveringRecheck(t) ==
  /\ AtSub(t, "rec_recheck")
  /\ GotoSub(t, IF isHealthyCached THEN "rec_back" ELSE "off")
  /\ UNCHANGED <<lost, life, badAge>> /\ LifeFrame

\* Mutant of RecoveringBack: a plain store instead of the CAS.
RecoveringBackByStore(t) ==
  /\ AtSub(t, "rec_back")
  /\ life' = "RUNNING"
  /\ GotoSub(t, "off")
  /\ UNCHANGED <<lost, badAge>> /\ LifeFrame

\* The way back is a CAS from RECOVERING, so a concurrent GIVEN_UP survives.
RecoveringBack(t) ==
  /\ AtSub(t, "rec_back")
  /\ life' = IF life = "RECOVERING" THEN "RUNNING" ELSE life
  /\ GotoSub(t, "off")
  /\ UNCHANGED <<lost, badAge>> /\ LifeFrame

RunningCas(t) ==
  /\ AtSub(t, "run_cas")
  /\ \/ life # "GIVEN_UP" /\ life' = "RUNNING" /\ GotoSub(t, "run_lost")
     \/ life = "GIVEN_UP" /\ UNCHANGED life /\ GotoSub(t, "off")
  /\ UNCHANGED <<lost, badAge>> /\ LifeFrame

RunningClearLost(t) ==
  /\ AtSub(t, "run_lost")
  /\ lost' = FALSE
  /\ GotoSub(t, "run_timer")
  /\ UNCHANGED <<life, badAge>> /\ LifeFrame

\* resetGiveUpTimer()
RunningResetTimer(t) ==
  /\ AtSub(t, "run_timer")
  /\ badAge' = Unset
  /\ GotoSub(t, "off")
  /\ UNCHANGED <<lost, life>> /\ LifeFrame

GiveUpStamp(t) ==
  /\ AtSub(t, "gu_stamp")
  /\ updateBadStatusTime
  /\ GotoSub(t, "gu_cas")
  /\ UNCHANGED <<lost, life>> /\ LifeFrame

GiveUpCas(t) ==
  /\ AtSub(t, "gu_cas")
  /\ life' = "GIVEN_UP"
  /\ GotoSub(t, "off")
  /\ UNCHANGED <<lost, badAge>> /\ LifeFrame

-----------------------------------------------------------------------------
(* connect() and disconnect().  Both own an InFlightGuard from the first   *)
(* statement and a CASGuard from the CAS on; the guards are destroyed in   *)
(* reverse order on every exit ("unguard", then "leave").                  *)

\* Mutant of InFlightGuard: the constructor forgets the increment.
InFlightGuardUncounted(t) ==
  /\ tasks' = tasks
  /\ inFlight' = inFlight \cup {t}

InFlightGuard(t) ==
  /\ tasks' = tasks + 1
  /\ inFlight' = inFlight \cup {t}

OpEnter(t) ==
  /\ AtOp(t, "enter")
  /\ InFlightGuard(t)
  /\ GotoOp(t, "stop")
  /\ UNCHANGED <<sdkVars, cacheVars, life, badAge, stopVars, conn, casGuards, localVars>>

OpStop(t) ==
  /\ AtOp(t, "stop")
  /\ \/ getEffectiveStopSignal /\ SetRes(t, "SHUTDOWN") /\ GotoOp(t, "leave")
     \/ ~getEffectiveStopSignal /\ UNCHANGED res /\ GotoOp(t, "cas")
  /\ UNCHANGED <<sdkVars, cacheVars, life, badAge, stopVars, guardVars, saw, ret, cmd, branch, retry>>

\* Mutant of OpCas: the state is stored without testing it first.
OpCasUntested(t) ==
  /\ AtOp(t, "cas")
  /\ conn' = "CONNECTING" /\ casGuards' = casGuards \cup {t}
  /\ GotoOp(t, "async")
  /\ UNCHANGED <<sdkVars, cacheVars, life, badAge, stopVars, tasks, inFlight, localVars>>

\* Single flight: the CAS IDLE -> CONNECTING.
OpCas(t) ==
  /\ AtOp(t, "cas")
  /\ \/ /\ conn = "IDLE"
        /\ conn' = "CONNECTING" /\ casGuards' = casGuards \cup {t}
        /\ GotoOp(t, "async") /\ UNCHANGED res
     \/ /\ conn # "IDLE"
        /\ SetRes(t, "THREADBUSY") /\ GotoOp(t, "leave")
        /\ UNCHANGED <<conn, casGuards>>
  /\ UNCHANGED <<sdkVars, cacheVars, life, badAge, stopVars, tasks, inFlight, saw, ret, cmd, branch, retry>>

\* connectAsync() / disconnectAsync() accepted: start polling.
OpAsyncGood(t) ==
  /\ AtOp(t, "async") /\ SdkReturns(t)
  /\ OpCalls(t, "ic_stop", "polled")
  /\ UNCHANGED <<cacheVars, life, badAge, stopVars, guardVars, localVars>>

\* ... refused: TurnToRecovring() runs while m_sdkMutex is still held.
OpAsyncBad(t) ==
  /\ AtOp(t, "async") /\ sdkMutex = t
  /\ SetRes(t, "FAILED")
  /\ OpCalls(t, "rec_test", "asyncFailed")
  /\ UNCHANGED <<sdkVars, cacheVars, life, badAge, stopVars, guardVars, saw, ret, cmd, branch, retry>>

OpAsyncFailed(t) ==
  /\ AtOp(t, "asyncFailed") /\ SdkReturns(t)
  /\ GotoOp(t, "unguard")
  /\ UNCHANGED <<cacheVars, life, badAge, stopVars, guardVars, localVars>>

\* An iteration of connect()'s loop.  The triple is tested without lost.
ConnectPolled(t) ==
  /\ AtOp(t, "polled") /\ cmd[t] = "connect"
  /\ SetRet(t, "none")
  /\ \/ /\ ret[t] = "SHUTDOWN"
        /\ SetRes(t, "SHUTDOWN") /\ GotoOp(t, "unguard")
     \/ /\ ret[t] # "SHUTDOWN" /\ TripleReady(packed)
        /\ SetRes(t, "ok") /\ OpCalls(t, "run_cas", "unguard")
     \/ /\ ret[t] # "SHUTDOWN" /\ ~TripleReady(packed)
        /\ UNCHANGED res /\ GotoOp(t, "clock")
  /\ UNCHANGED <<sdkVars, cacheVars, life, badAge, stopVars, guardVars, saw, cmd, branch, retry>>

\* An iteration of disconnect()'s loop.
DisconnectPolled(t) ==
  /\ AtOp(t, "polled") /\ cmd[t] = "disconnect"
  /\ SetRet(t, "none")
  /\ \/ /\ ret[t] = "SHUTDOWN"
        /\ SetRes(t, "SHUTDOWN") /\ GotoOp(t, "unguard") /\ UNCHANGED badAge
     \/ /\ ret[t] # "SHUTDOWN"
        /\ IF packed.status # "Good" THEN updateBadStatusTime ELSE UNCHANGED badAge
        /\ \/ /\ isChannelClosed
              /\ SetRes(t, "ok") /\ OpCalls(t, "rec_test", "unguard")
           \/ /\ ~isChannelClosed
              /\ UNCHANGED res /\ GotoOp(t, "clock")
  /\ UNCHANGED <<sdkVars, cacheVars, life, stopVars, guardVars, saw, cmd, branch, retry>>

\* timeoutMs has not passed yet: poll again, unless stopped.
OpPollAgain(t) ==
  /\ AtOp(t, "clock")
  /\ \/ getEffectiveStopSignal /\ SetRes(t, "SHUTDOWN") /\ GotoOp(t, "unguard")
     \/ ~getEffectiveStopSignal /\ UNCHANGED res /\ OpCalls(t, "ic_stop", "polled")
  /\ UNCHANGED <<sdkVars, cacheVars, life, badAge, stopVars, guardVars, saw, ret, cmd, branch, retry>>

\* timeoutMs (or the wall clock bound) has passed: look once more.
OpTimeout(t) ==
  /\ AtOp(t, "clock")
  /\ \/ cmd[t] = "connect" /\ OpCalls(t, "ic_stop", "last")
     \/ cmd[t] = "disconnect" /\ GotoOp(t, "last")
  /\ UNCHANGED <<sdkVars, cacheVars, life, badAge, stopVars, guardVars, localVars>>

ConnectLast(t) ==
  /\ AtOp(t, "last") /\ cmd[t] = "connect"
  /\ SetRet(t, "none")
  /\ \/ /\ ret[t] = "SHUTDOWN"
        /\ SetRes(t, "SHUTDOWN") /\ GotoOp(t, "unguard")
     \/ /\ ret[t] # "SHUTDOWN" /\ isHealthyCached
        /\ SetRes(t, "ok") /\ OpCalls(t, "run_cas", "unguard")
     \/ /\ ret[t] # "SHUTDOWN" /\ ~isHealthyCached
        /\ UNCHANGED res /\ GotoOp(t, "closing")
  /\ UNCHANGED <<sdkVars, cacheVars, life, badAge, stopVars, guardVars, saw, cmd, branch, retry>>

\* disconnect() asks the SDK itself; the answer is not published.
DisconnectLast(t) ==
  /\ AtOp(t, "last") /\ cmd[t] = "disconnect" /\ sdkMutex = NoThread
  /\ \/ /\ sdk.channel = "CLOSED"
        /\ SetRes(t, "ok") /\ OpCalls(t, "rec_test", "unguard")
     \/ /\ sdk.channel # "CLOSED"
        /\ UNCHANGED res /\ GotoOp(t, "closing")
  /\ UNCHANGED <<sdkVars, cacheVars, life, badAge, stopVars, guardVars, saw, ret, cmd, branch, retry>>

\* The disconnectAsync() of a timed-out call, whose status is ignored.
OpClosed(t) ==
  /\ AtOp(t, "closing") /\ SdkReturns(t)
  /\ SetRes(t, "TIMEOUT")
  /\ OpCalls(t, "rec_test", "unguard")
  /\ UNCHANGED <<cacheVars, life, badAge, stopVars, guardVars, saw, ret, cmd, branch, retry>>

\* ~CASGuard
OpUnguard(t) ==
  /\ AtOp(t, "unguard")
  /\ conn' = "IDLE" /\ casGuards' = casGuards \ {t}
  /\ GotoOp(t, "leave")
  /\ UNCHANGED <<sdkVars, cacheVars, life, badAge, stopVars, tasks, inFlight, localVars>>

\* ~InFlightGuard, and the return; the application keeps no result.
OpLeave(t) ==
  /\ AtOp(t, "leave")
  /\ tasks' = IF tasks > 0 THEN tasks - 1 ELSE tasks
  /\ inFlight' = inFlight \ {t}
  /\ GotoOp(t, "off")
  /\ cmd' = [cmd EXCEPT ![t] = "none"]
  /\ res' = [res EXCEPT ![t] = IF dec[t] = "off" THEN "none" ELSE @]
  /\ retry' = [retry EXCEPT ![t] = 0]
  /\ UNCHANGED <<sdkVars, cacheVars, life, badAge, stopVars, conn, casGuards, saw, ret, branch>>

-----------------------------------------------------------------------------
(* batchRead() and batchWrite().  The stop signal is tested before the     *)
(* InFlightGuard exists and again after it.                                *)

BatchStop(t) ==
  /\ AtOp(t, "b_stop")
  /\ \/ getEffectiveStopSignal /\ GotoOp(t, "off") /\ cmd' = [cmd EXCEPT ![t] = "none"]
     \/ ~getEffectiveStopSignal /\ GotoOp(t, "b_enter") /\ UNCHANGED cmd
  /\ UNCHANGED <<sdkVars, cacheVars, life, badAge, stopVars, guardVars, saw, ret, res, branch, retry>>

BatchEnter(t) ==
  /\ AtOp(t, "b_enter")
  /\ InFlightGuard(t)
  /\ GotoOp(t, "b_check")
  /\ UNCHANGED <<sdkVars, cacheVars, life, badAge, stopVars, conn, casGuards, localVars>>

\* The checks before the request is built, and building it (which fails on an
\* empty list or an item that cannot be converted).
BatchCheck(t) ==
  /\ AtOp(t, "b_check")
  /\ \/ life # "RUNNING" /\ SetRes(t, "NOT_CONNECTED") /\ GotoOp(t, "leave")
     \/ life = "RUNNING" /\ conn # "IDLE" /\ SetRes(t, "THREADBUSY") /\ GotoOp(t, "leave")
     \/ life = "RUNNING" /\ conn = "IDLE" /\ SetRes(t, "INVALID_ARGUMENT") /\ GotoOp(t, "leave")
     \/ /\ life = "RUNNING" /\ conn = "IDLE" /\ ~isHealthyCached
        /\ SetRes(t, "NOT_CONNECTED") /\ GotoOp(t, "leave")
     \/ /\ life = "RUNNING" /\ conn = "IDLE" /\ isHealthyCached
        /\ UNCHANGED res /\ GotoOp(t, "b_try")
  /\ UNCHANGED <<sdkVars, cacheVars, life, badAge, stopVars, guardVars, saw, ret, cmd, branch, retry>>

\* Mutant of BatchTry: the stop signal is not tested again after the guard.
BatchTryUnstopped(t) ==
  /\ AtOp(t, "b_try")
  /\ \/ life # "RUNNING" /\ SetRes(t, "NOT_CONNECTED") /\ GotoOp(t, "leave")
     \/ life = "RUNNING" /\ conn # "IDLE" /\ SetRes(t, "THREADBUSY") /\ GotoOp(t, "leave")
     \/ life = "RUNNING" /\ conn = "IDLE" /\ UNCHANGED res /\ GotoOp(t, "b_call")
  /\ UNCHANGED <<sdkVars, cacheVars, life, badAge, stopVars, guardVars, saw, ret, cmd, branch, retry>>

\* The checks in front of each service call, the stop test at the copy of m_impl
\* among them; only reads have a time budget.
BatchTry(t) ==
  /\ AtOp(t, "b_try")
  /\ \/ getEffectiveStopSignal /\ SetRes(t, "SHUTDOWN") /\ GotoOp(t, "leave")
     \/ /\ ~getEffectiveStopSignal /\ cmd[t] = "read"
        /\ SetRes(t, "BUDGET_EXCEEDED") /\ GotoOp(t, "leave")
     \/ /\ ~getEffectiveStopSignal /\ life # "RUNNING"
        /\ SetRes(t, "NOT_CONNECTED") /\ GotoOp(t, "leave")
     \/ /\ ~getEffectiveStopSignal /\ life = "RUNNING" /\ conn # "IDLE"
        /\ SetRes(t, "THREADBUSY") /\ GotoOp(t, "leave")
     \/ /\ ~getEffectiveStopSignal /\ life = "RUNNING" /\ conn = "IDLE"
        /\ UNCHANGED res /\ GotoOp(t, "b_call")
  /\ UNCHANGED <<sdkVars, cacheVars, life, badAge, stopVars, guardVars, saw, ret, cmd, branch, retry>>

\* The service answered with a definite result, good or bad.
BatchAnswered(t) ==
  /\ AtOp(t, "b_call") /\ SdkReturns(t)
  /\ \E r \in {"ok", "SERVICE_FAILED"} : SetRes(t, r)
  /\ GotoOp(t, "leave")
  /\ UNCHANGED <<cacheVars, life, badAge, stopVars, guardVars, saw, ret, cmd, branch, retry>>

\* Mutant of BatchReadRetry: the retry budget is off by one.
BatchReadRetryOnceMore(t) ==
  /\ AtOp(t, "b_call") /\ cmd[t] = "read" /\ SdkReturns(t)
  /\ \/ /\ retry[t] <= MaxRetries
        /\ retry' = [retry EXCEPT ![t] = @ + 1]
        /\ GotoOp(t, "b_try") /\ UNCHANGED res
     \/ /\ retry[t] > MaxRetries
        /\ SetRes(t, "SERVICE_RETRY_EXHAUSTED")
        /\ GotoOp(t, "leave") /\ UNCHANGED retry
  /\ UNCHANGED <<cacheVars, life, badAge, stopVars, guardVars, saw, ret, cmd, branch>>

\* serviceRead() failed with one of the connection codes that are retried.
BatchReadRetry(t) ==
  /\ AtOp(t, "b_call") /\ cmd[t] = "read" /\ SdkReturns(t)
  /\ \/ /\ retry[t] < MaxRetries
        /\ retry' = [retry EXCEPT ![t] = @ + 1]
        /\ GotoOp(t, "b_try") /\ UNCHANGED res
     \/ /\ retry[t] >= MaxRetries
        /\ SetRes(t, "SERVICE_RETRY_EXHAUSTED")
        /\ GotoOp(t, "leave") /\ UNCHANGED retry
  /\ UNCHANGED <<cacheVars, life, badAge, stopVars, guardVars, saw, ret, cmd, branch>>

-----------------------------------------------------------------------------
(* runWatchdog().                                                          *)

DecFrame == UNCHANGED <<sdkVars, cacheVars, life, stopVars, guardVars, saw, retry>>

WatchdogLoop ==
  /\ AtDec(Watchdog, "w_loop")
  /\ GotoDec(Watchdog, IF getEffectiveStopSignal THEN "w_exit" ELSE "w_iterate")
  /\ UNCHANGED <<badAge, ret, res, cmd, branch>> /\ DecFrame

\* run_iterate returned; a client that is RECOVERING backs off first.
WatchdogIterated ==
  /\ AtDec(Watchdog, "w_iterate") /\ SdkReturns(Watchdog)
  /\ GotoDec(Watchdog, IF life = "RECOVERING" THEN "w_backoff" ELSE "w_due")
  /\ UNCHANGED <<cacheVars, life, badAge, stopVars, guardVars, localVars>>

\* delayFunction() returned, because its time is over or for a stop signal.
WatchdogBackedOff ==
  /\ AtDec(Watchdog, "w_backoff")
  /\ GotoDec(Watchdog, "w_due")
  /\ UNCHANGED <<badAge, ret, res, cmd, branch>> /\ DecFrame

\* watchdogIntervalMs has passed since the last decision ...
WatchdogDecides ==
  /\ AtDec(Watchdog, "w_due")
  /\ GotoDec(Watchdog, "k_enter")
  /\ UNCHANGED <<badAge, ret, res, cmd, branch>> /\ DecFrame

\* ... or not: wait 100 ms on m_watchdogCv and loop.
WatchdogSkips ==
  /\ AtDec(Watchdog, "w_due")
  /\ GotoDec(Watchdog, "w_loop")
  /\ UNCHANGED <<badAge, ret, res, cmd, branch>> /\ DecFrame

\* Where an exception may leave the iteration: anywhere in its own code and in
\* that of doWatchdogDecision(), between the calls they make.
ThrowPoints ==
  DecLabels \ {"off", "w_loop", "w_iterate", "w_caught", "w_exit", "k_iterate", "k_iterate2"}

\* The exception unwinds the locals of doWatchdogDecision().
Unwinds ==
  /\ WatchdogFaults
  /\ \E l \in ThrowPoints : AtDec(Watchdog, l)
  /\ SetRet(Watchdog, "none") /\ SetRes(Watchdog, "none")
  /\ branch' = [branch EXCEPT ![Watchdog] = 0]
  /\ UNCHANGED <<badAge, cmd>> /\ DecFrame

\* Mutant of WatchdogThrows: the handler only leaves the loop.
WatchdogThrowsSilently == Unwinds /\ GotoDec(Watchdog, "w_exit")

\* bad_alloc or system_error in an iteration: give up and leave the loop.
WatchdogThrows == Unwinds /\ DecCalls(Watchdog, "gu_stamp", "w_exit")

\* Any other exception: the handler backs off and the loop goes on.
WatchdogCatches == Unwinds /\ GotoDec(Watchdog, "w_caught")

\* delayFunction() returned in the handler.
WatchdogResumes ==
  /\ AtDec(Watchdog, "w_caught")
  /\ GotoDec(Watchdog, "w_loop")
  /\ UNCHANGED <<badAge, ret, res, cmd, branch>> /\ DecFrame

-----------------------------------------------------------------------------
(* doWatchdogDecision(), run by the watchdog and by pumpWatchdogForTest(). *)

DecisionEnter(t) ==
  /\ AtDec(t, "k_enter")
  /\ \/ getEffectiveStopSignal /\ GotoDec(t, "k_end")
     \/ ~getEffectiveStopSignal /\ DecCalls(t, "ic_stop", "k_health")
  /\ UNCHANGED <<badAge, ret, res, cmd, branch>> /\ DecFrame

DecisionHealth(t) ==
  /\ AtDec(t, "k_health")
  /\ SetRet(t, "none")
  /\ \/ ret[t] = "SHUTDOWN" /\ GotoDec(t, "k_end")
     \/ ret[t] = "healthy" /\ DecCalls(t, "run_cas", "k_end")
     \/ ret[t] = "unhealthy" /\ GotoDec(t, "k_branch1")
  /\ UNCHANGED <<badAge, res, cmd, branch>> /\ DecFrame

\* The three recovery branches; each test loads the cached state again.
DecisionBranch1(t) ==
  /\ AtDec(t, "k_branch1")
  /\ \/ /\ lost \/ packed.session # "ACTIVATED"
        /\ branch' = [branch EXCEPT ![t] = 1] /\ GotoDec(t, "k_stamp")
     \/ /\ ~lost /\ packed.session = "ACTIVATED"
        /\ GotoDec(t, "k_branch2") /\ UNCHANGED branch
  /\ UNCHANGED <<badAge, ret, res, cmd>> /\ DecFrame

DecisionBranch2(t) ==
  /\ AtDec(t, "k_branch2")
  /\ \/ /\ ~isChannelClosed
        /\ branch' = [branch EXCEPT ![t] = 2] /\ GotoDec(t, "k_stamp")
     \/ /\ isChannelClosed
        /\ GotoDec(t, "k_branch3") /\ UNCHANGED branch
  /\ UNCHANGED <<badAge, ret, res, cmd>> /\ DecFrame

DecisionBranch3(t) ==
  /\ AtDec(t, "k_branch3")
  /\ \/ /\ isConnectBad \/ ~isHealthyCached
        /\ branch' = [branch EXCEPT ![t] = 3] /\ GotoDec(t, "k_stamp")
     \/ /\ ~isConnectBad /\ isHealthyCached
        /\ DecCalls(t, "run_cas", "k_end") /\ UNCHANGED branch
  /\ UNCHANGED <<badAge, ret, res, cmd>> /\ DecFrame

\* Mutant of DecisionStamp: the branch does not record the bad status.
DecisionStampForgotten(t) ==
  /\ AtDec(t, "k_stamp")
  /\ UNCHANGED badAge
  /\ GotoDec(t, "k_test")
  /\ UNCHANGED <<ret, res, cmd, branch>> /\ DecFrame

\* Every branch records the bad status before it asks whether to give up.
DecisionStamp(t) ==
  /\ AtDec(t, "k_stamp")
  /\ updateBadStatusTime
  /\ GotoDec(t, "k_test")
  /\ UNCHANGED <<ret, res, cmd, branch>> /\ DecFrame

DecisionTest(t) ==
  /\ AtDec(t, "k_test")
  /\ \/ shouldTriggerGiveUp /\ DecCalls(t, "gu_stamp", "k_giveUp") /\ UNCHANGED cmd
     \/ ~shouldTriggerGiveUp /\ branch[t] = 1 /\ DecCallsOp(t, "disconnect", "k_disconnected")
     \/ ~shouldTriggerGiveUp /\ branch[t] # 1 /\ GotoDec(t, "k_iterate") /\ UNCHANGED cmd
  /\ UNCHANGED <<badAge, ret, res, branch>> /\ DecFrame

\* callRunIterate() in branches 2 and 3, before anything else is tried.
DecisionIterated(t) ==
  /\ AtDec(t, "k_iterate") /\ SdkReturns(t)
  /\ \/ branch[t] = 2 /\ GotoDec(t, "k_closed") /\ UNCHANGED cmd
     \/ branch[t] = 3 /\ isHealthyCached /\ DecCalls(t, "run_cas", "k_end") /\ UNCHANGED cmd
     \/ branch[t] = 3 /\ ~isHealthyCached /\ DecCallsOp(t, "disconnect", "k_disconnected")
  /\ UNCHANGED <<cacheVars, life, badAge, stopVars, guardVars, saw, ret, res, branch, retry>>

DecisionDisconnected(t) ==
  /\ AtDec(t, "k_disconnected")
  /\ SetRes(t, "none")
  /\ \/ res[t] = "SHUTDOWN" /\ DecCalls(t, "gu_stamp", "k_end")
     \/ res[t] # "SHUTDOWN" /\ GotoDec(t, "k_iterate2")
  /\ UNCHANGED <<badAge, ret, cmd, branch>> /\ DecFrame

DecisionIterated2(t) ==
  /\ AtDec(t, "k_iterate2") /\ SdkReturns(t)
  /\ GotoDec(t, "k_closed")
  /\ UNCHANGED <<cacheVars, life, badAge, stopVars, guardVars, localVars>>

\* Reconnect only over a closed channel.
DecisionClosed(t) ==
  /\ AtDec(t, "k_closed")
  /\ \/ ~isChannelClosed /\ DecCalls(t, "rec_test", "k_end") /\ UNCHANGED cmd
     \/ isChannelClosed /\ DecCallsOp(t, "connect", "k_connected")
  /\ UNCHANGED <<badAge, ret, res, branch>> /\ DecFrame

DecisionConnected(t) ==
  /\ AtDec(t, "k_connected")
  /\ SetRes(t, "none")
  /\ \/ res[t] = "ok" /\ DecCalls(t, "run_cas", "k_end")
     \/ res[t] = "SHUTDOWN" /\ DecCalls(t, "gu_stamp", "k_recover")
     \/ res[t] = "THREADBUSY" /\ GotoDec(t, "k_end")
     \/ res[t] \in {"FAILED", "TIMEOUT"} /\ DecCalls(t, "rec_test", "k_end")
  /\ UNCHANGED <<badAge, ret, cmd, branch>> /\ DecFrame

\* connect() said SHUTDOWN: TurnToGiveup() is followed by TurnToRecovring().
DecisionRecover(t) ==
  /\ AtDec(t, "k_recover")
  /\ DecCalls(t, "rec_test", "k_end")
  /\ UNCHANGED <<badAge, ret, res, cmd, branch>> /\ DecFrame

\* The decision returns, to the watchdog's loop or to the application.
DecisionEnd(t) ==
  /\ AtDec(t, "k_end") \/ AtDec(t, "k_giveUp")
  /\ GotoDec(t, IF t = Watchdog THEN "w_loop" ELSE "off")
  /\ branch' = [branch EXCEPT ![t] = 0]
  /\ UNCHANGED <<badAge, ret, res, cmd>> /\ DecFrame

-----------------------------------------------------------------------------
(* Impl::shutdown(), called once.                                          *)

SdFrame == UNCHANGED <<sdkVars, cacheVars, life, badAge, guardVars, localVars, sub, op, dec>>

\* Mutant of signalShutdown: m_running is left set.
signalShutdownHalf ==
  /\ sd = "up" /\ "shutdown" \in Commands
  /\ running' = running /\ shutdown' = TRUE
  /\ sd' = "joining"
  /\ SdFrame

signalShutdown ==
  /\ sd = "up" /\ "shutdown" \in Commands
  /\ running' = FALSE /\ shutdown' = TRUE
  /\ sd' = "joining"
  /\ SdFrame

joinWatchdog ==
  /\ sd = "joining" /\ AtDec(Watchdog, "w_exit")
  /\ sd' = "draining"
  /\ UNCHANGED <<running, shutdown>> /\ SdFrame

Drained ==
  /\ sd = "draining" /\ tasks = 0
  /\ sd' = "clean"
  /\ UNCHANGED <<running, shutdown>> /\ SdFrame

\* max(timeoutMs, 2 * watchdogIntervalMs) passed with calls in flight.
DrainTimeout ==
  /\ sd = "draining" /\ tasks # 0
  /\ sd' = "forced"
  /\ UNCHANGED <<running, shutdown>> /\ SdFrame

-----------------------------------------------------------------------------
(* The application and the clock.                                          *)

CallFrame == UNCHANGED <<sdkVars, cacheVars, badAge, stopVars, guardVars, saw, ret, res, branch, retry>>

CallConnection(t, c) ==
  /\ Idle(t) /\ c \in Commands \cap {"connect", "disconnect"}
  /\ GotoOp(t, "enter") /\ cmd' = [cmd EXCEPT ![t] = c]
  /\ UNCHANGED life /\ CallFrame

CallBatch(t, c) ==
  /\ Idle(t) /\ c \in Commands \cap {"read", "write"}
  /\ GotoOp(t, "b_stop") /\ cmd' = [cmd EXCEPT ![t] = c]
  /\ UNCHANGED life /\ CallFrame

\* checkConnected(), whose answer the application does not keep.
CallCheck(t) ==
  /\ Idle(t) /\ "check" \in Commands
  /\ GotoSub(t, "ic_stop")
  /\ UNCHANGED <<life, cmd>> /\ CallFrame

CheckReturns(t) ==
  /\ t \in Callers /\ AtDec(t, "off") /\ ret[t] # "none"
  /\ SetRet(t, "none")
  /\ UNCHANGED <<sdkVars, cacheVars, life, badAge, stopVars, guardVars, saw, res, cmd, branch, retry, sub, op, dec>>

CallPump(t) ==
  /\ Idle(t) /\ "pump" \in Commands
  /\ GotoDec(t, "k_enter")
  /\ UNCHANGED <<life, cmd>> /\ CallFrame

\* setGiveUpSignal(): a CAS loop; on a client that gave up it only reports so.
setGiveUpSignal(t) ==
  /\ Idle(t) /\ "giveUp" \in Commands
  /\ life \in {"RUNNING", "RECOVERING"}
  /\ life' = "GIVEN_UP"
  /\ UNCHANGED <<cmd, sub, op, dec>> /\ CallFrame

Tick ==
  /\ badAge # Unset /\ badAge < GiveUpThreshold
  /\ badAge' = badAge + 1
  /\ UNCHANGED <<sdkVars, cacheVars, life, stopVars, guardVars, localVars, sub, op, dec>>

-----------------------------------------------------------------------------
Init ==
  /\ sdk = InitialSdk /\ packed = InitialSdk
  /\ sdkMutex = NoThread
  /\ current = {} /\ lost = FALSE
  /\ life = "RUNNING" /\ conn = "IDLE"
  /\ badAge = Unset
  /\ running = TRUE /\ shutdown = FALSE /\ sd = "up"
  /\ tasks = 0 /\ inFlight = {} /\ casGuards = {}
  /\ sub = [t \in Threads |-> "off"]
  /\ op = [t \in Threads |-> "off"]
  /\ dec = [t \in Threads |-> IF t = Watchdog THEN "w_loop" ELSE "off"]
  /\ cmd = [t \in Threads |-> "none"]
  /\ saw = [t \in Threads |-> InitialSdk]
  /\ ret = [t \in Threads |-> "none"]
  /\ res = [t \in Threads |-> "none"]
  /\ branch = [t \in Threads |-> 0]
  /\ retry = [t \in Threads |-> 0]

isConnected(t) ==
  \/ IsConnectedStop(t) \/ IsConnectedIterated(t) \/ IsConnectedLoad(t)
  \/ IsConnectedGetState(t) \/ IsConnectedPublish(t) \/ IsConnectedBad(t)
  \/ IsConnectedReturn(t)

TurnTo(t) ==
  \/ RecoveringTest(t) \/ RecoveringCas(t) \/ RecoveringRecheck(t) \/ RecoveringBack(t)
  \/ RunningCas(t) \/ RunningClearLost(t) \/ RunningResetTimer(t)
  \/ GiveUpStamp(t) \/ GiveUpCas(t)

ConnectDisconnect(t) ==
  \/ OpEnter(t) \/ OpStop(t) \/ OpCas(t)
  \/ OpAsyncGood(t) \/ OpAsyncBad(t) \/ OpAsyncFailed(t)
  \/ ConnectPolled(t) \/ DisconnectPolled(t) \/ OpPollAgain(t) \/ OpTimeout(t)
  \/ ConnectLast(t) \/ DisconnectLast(t) \/ OpClosed(t)
  \/ OpUnguard(t) \/ OpLeave(t)

Batch(t) ==
  \/ BatchStop(t) \/ BatchEnter(t) \/ BatchCheck(t) \/ BatchTry(t)
  \/ BatchAnswered(t) \/ BatchReadRetry(t)

doWatchdogDecision(t) ==
  \/ DecisionEnter(t) \/ DecisionHealth(t)
  \/ DecisionBranch1(t) \/ DecisionBranch2(t) \/ DecisionBranch3(t)
  \/ DecisionStamp(t) \/ DecisionTest(t) \/ DecisionIterated(t)
  \/ DecisionDisconnected(t) \/ DecisionIterated2(t) \/ DecisionClosed(t)
  \/ DecisionConnected(t) \/ DecisionRecover(t) \/ DecisionEnd(t)

\* What the watchdog's loop does on its own, exceptions apart.
WatchdogProceeds ==
  \/ WatchdogLoop \/ WatchdogIterated \/ WatchdogBackedOff \/ WatchdogDecides
  \/ WatchdogSkips \/ WatchdogResumes

runWatchdog == WatchdogProceeds \/ WatchdogThrows \/ WatchdogCatches

SdkCallbacks(t) ==
  \/ \E s \in SdkStates : StateCallback(t, s) \/ SdkSilentChange(t, s)
  \/ InactivityCallback(t)

Shutdown == signalShutdown \/ joinWatchdog \/ Drained \/ DrainTimeout

Application(t) ==
  \/ \E c \in Commands : CallConnection(t, c) \/ CallBatch(t, c)
  \/ CallCheck(t) \/ CheckReturns(t) \/ CallPump(t) \/ setGiveUpSignal(t)

\* What a thread does on its own once it is inside the Impl.
Step(t) ==
  \/ SdkEnter(t) \/ isConnected(t) \/ TurnTo(t) \/ ConnectDisconnect(t)
  \/ Batch(t) \/ doWatchdogDecision(t)

Next ==
  \/ \E t \in Threads : Step(t) \/ SdkCallbacks(t)
  \/ \E t \in Callers : Application(t)
  \/ runWatchdog \/ Shutdown \/ Tick

Spec == Init /\ [][Next]_vars

\* Steps that wait for m_sdkMutex.
LockSdk(t) == SdkEnter(t) \/ IsConnectedGetState(t) \/ DisconnectLast(t)

\* The OS runs every thread that can run and does not let the watchdog wait
\* for m_sdkMutex forever; SDK calls return; clocks advance, so the watchdog's
\* polling loops pass their deadline and its loop the decision interval.
\* Callbacks, exceptions and application calls owe nothing; a shutdown() that
\* was called runs on.
WatchdogFairness ==
  /\ \A t \in Threads : WF_vars(Step(t))
  /\ SF_vars(LockSdk(Watchdog)) /\ SF_vars(OpTimeout(Watchdog))
  /\ WF_vars(WatchdogProceeds) /\ SF_vars(WatchdogDecides)
  /\ WF_vars(Tick)
  /\ WF_vars(joinWatchdog) /\ WF_vars(Drained \/ DrainTimeout)

WatchdogSpec == Spec /\ WatchdogFairness

-----------------------------------------------------------------------------
(* Properties.                                                             *)

\* Every variable has its type (the members of Impl and of the call frames).
TypeOK ==
  /\ sdk \in Triples /\ packed \in Triples
  /\ sdkMutex \in Threads \cup {NoThread}
  /\ current \subseteq Threads /\ lost \in BOOLEAN
  /\ life \in LifeStates /\ conn \in {"IDLE", "CONNECTING"}
  /\ badAge \in Unset..GiveUpThreshold
  /\ running \in BOOLEAN /\ shutdown \in BOOLEAN
  /\ sd \in {"up", "joining", "draining", "clean", "forced"}
  /\ tasks \in Nat
  /\ inFlight \subseteq Threads /\ casGuards \subseteq Threads
  /\ sub \in [Threads -> SubLabels]
  /\ op \in [Threads -> OpLabels]
  /\ dec \in [Threads -> DecLabels]
  /\ cmd \in [Threads -> {"none", "connect", "disconnect", "read", "write"}]
  /\ saw \in [Threads -> Triples]
  /\ ret \in [Threads -> {"none", "SHUTDOWN", "healthy", "unhealthy"}]
  /\ res \in [Threads -> {"none", "ok", "SHUTDOWN", "THREADBUSY", "FAILED", "TIMEOUT",
                          "NOT_CONNECTED", "INVALID_ARGUMENT", "BUDGET_EXCEEDED",
                          "SERVICE_FAILED", "SERVICE_RETRY_EXHAUSTED"}]
  /\ branch \in [Threads -> 0..3]
  /\ retry \in [Threads -> 0..MaxRetries]

\* Locations between the CAS of connect()/disconnect() and ~CASGuard.
Exclusive == {"async", "asyncFailed", "polled", "clock", "last", "closing", "unguard"}

\* connect() and disconnect() are single-flight (m_connState): at most one
\* thread is past the CAS, and the flag says CONNECTING exactly while one is.
SingleFlight ==
  /\ \A a, b \in Threads : op[a] \in Exclusive /\ op[b] \in Exclusive => a = b
  /\ conn = "CONNECTING" <=> \E t \in Threads : op[t] \in Exclusive

\* Once shutdown() has seen m_taskCounter = 0, no connect, disconnect, read or
\* write is inside the SDK or ever gets there, whatever calls still arrive:
\* the guard is taken before the last test of the stop signal.
QuietAfterDrain ==
  sd = "clean" => \A t \in Threads : op[t] \notin Exclusive \cup {"b_call"}

\* Locations where an InFlightGuard is alive.
Counted == Exclusive \cup {"stop", "cas", "b_check", "b_try", "b_call", "leave"}

\* The inductive strengthening of TypeOK, SingleFlight and QuietAfterDrain: the
\* guards are owned exactly where the scopes of the code say, m_taskCounter
\* counts them, and what follows the stop test has seen no shutdown.
GuardsOwned ==
  /\ inFlight = {t \in Threads : op[t] \in Counted}
  /\ casGuards = {t \in Threads : op[t] \in Exclusive}
  /\ tasks = Cardinality(inFlight)
  /\ sd # "up" => shutdown /\ ~running
  /\ sd = "clean" => \A t \in Threads : op[t] # "cas"

\* GIVEN_UP is final: no TurnToRunning() or TurnToRecovring() racing with
\* setGiveUpSignal() or TurnToGiveup() brings the client back.
GivenUpIsFinal == [][life = "GIVEN_UP" => life' = "GIVEN_UP"]_vars

\* A cached triple that never gets ready again ends in GIVEN_UP (or in a
\* shutdown): no branch of doWatchdogDecision() loops without the give-up
\* timer running, and no failed attempt of any thread resets the timer.
UnreadyGivesUp == <>[](~TripleReady(packed)) => <>getEffectiveStopSignal

\* A recovery attempt of the watchdog settles the life state: when it ends,
\* RUNNING means that the cache is healthy.  (While the watchdog is the only
\* thread inside the SDK; a callback that another thread delivers meanwhile is
\* dealt with by the next decision.)
DecisionSettlesLife ==
  AtDec(Watchdog, "k_end") /\ branch[Watchdog] # 0 /\ life = "RUNNING" => isHealthyCached

\* The watchdog brings a client back to RUNNING only over a cache that shows a
\* ready connection at that very step, whichever call told it so and however
\* long ago.  (Under the same condition.)
BackOnlyWhenReady ==
  [][life = "RECOVERING" /\ life' = "RUNNING" => TripleReady(packed)]_vars

\* shutdown() returns: the watchdog leaves its loop from wherever the signal
\* finds it, and the drain is bounded.
ShutdownReturns == sd = "joining" ~> sd \in {"clean", "forced"}

\* saw[t] of a thread that is not between getState() and its CAS.
NoTriple == [status |-> "none", channel |-> "none", session |-> "none"]

Cache ==
  INSTANCE SnapshotCache WITH
    Probers <- Threads, States <- SdkStates, None <- NoTriple,
    saw <- [t \in Threads |-> IF sub[t] = "ic_publish" THEN saw[t] ELSE NoTriple]

\* The client uses its state cache as SnapshotCache (which StateCache
\* implements) allows: whatever the threads are doing, a getState() result is
\* published only over the snapshot it was made for, and nothing but that and
\* stateCallback writes the cache.
UsesSnapshotCache == Cache!Spec

Contract ==
  INSTANCE ImplContract WITH
    wdog <- IF AtDec(Watchdog, "w_exit") THEN "exited" ELSE "running",
    givenUp <- life = "GIVEN_UP",
    stop <- CASE sd = "up" -> "up" [] sd = "joining" -> "signalled" [] OTHER -> "stopped"

\* An Impl is what the facade takes it for: its watchdog leaves the loop only
\* for a stop signal or a GIVEN_UP, its own after an exception included, and
\* shutdown() passes the join only when the watchdog has left.
KeepsImplContract == Contract!Spec

-----------------------------------------------------------------------------
(* What the repository says of the program, and the code does not do.      *)

\* docs/thread-model.md:98: RUNNING if and only if isHealthyCached().  A step
\* that makes the cache unhealthy would have to leave RUNNING with it.
RunningStaysHealthy ==
  [][life = "RUNNING" /\ isHealthyCached => life' # "RUNNING" \/ isHealthyCached']_vars

\* Types.h:321: the watchdog gives up when now - m_lastBadStatusMs reaches
\* giveUpThresholdMs, so the window must have elapsed at that step.
GiveUpWindowElapsed ==
  [][\A t \in Threads :
       dec[t] = "k_giveUp" /\ sub[t] = "gu_cas" /\ life # "GIVEN_UP" /\ life' = "GIVEN_UP"
         => sub'[t] = "gu_cas" \/ badAge >= GiveUpThreshold]_vars
=============================================================================
