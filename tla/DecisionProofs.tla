--------------------------- MODULE DecisionProofs ---------------------------
(***************************************************************************)
(* What a recovery attempt of the watchdog settles: a proof about          *)
(* doWatchdogDecision() and the helpers it calls, for every set of SDK     *)
(* states and every threshold, while the watchdog is the only thread that  *)
(* calls the SDK.                                                          *)
(***************************************************************************)
EXTENDS ClientImplProofs

-----------------------------------------------------------------------------
(* The inductive invariant.                                                *)

\* The application only gives up and shuts down: its threads are never inside
\* the Impl, so the watchdog is the only one that calls the SDK.
WatchdogAlone == Commands \subseteq {"giveUp", "shutdown"}

CallersOutside ==
  \A t \in Callers : sub[t] = "off" /\ op[t] = "off" /\ dec[t] = "off"

IcLabels == {"ic_stop", "ic_iterate", "ic_load", "ic_getState", "ic_publish", "ic_bad", "ic_return"}

\* Which helper each layer of the watchdog's stack may be in.
Nested ==
  LET s == sub[Watchdog]  o == op[Watchdog]  d == dec[Watchdog] IN
  /\ s \in IcLabels => o \in {"polled", "last"} \/ (o = "off" /\ d = "k_health")
  /\ s \in {"rec_test", "rec_cas", "rec_recheck", "rec_back"} =>
       o \in {"asyncFailed", "unguard"} \/ (o = "off" /\ d = "k_end")
  /\ s \in {"run_cas", "run_lost", "run_timer"} => o = "unguard" \/ (o = "off" /\ d = "k_end")
  /\ s \in {"gu_stamp", "gu_cas"} => o = "off" /\ d \in {"k_end", "k_giveUp", "k_recover", "w_exit"}
  /\ o # "off" => /\ d \in {"k_disconnected", "k_connected"}
                  /\ o \notin {"b_stop", "b_enter", "b_check", "b_try", "b_call"}
  /\ o # "off" /\ d = "k_connected" => cmd[Watchdog] = "connect"
  /\ d \notin {"k_stamp", "k_test", "k_giveUp", "k_iterate", "k_disconnected", "k_iterate2",
               "k_closed", "k_connected", "k_recover", "k_end"} => branch[Watchdog] = 0

\* What the helpers and connect() have established of the cache on their way.
Established ==
  LET s == sub[Watchdog]  o == op[Watchdog]  d == dec[Watchdog] IN
  /\ s = "rec_recheck" => life # "RUNNING"
  /\ s = "rec_back" => isHealthyCached
  /\ s \in {"run_cas", "run_lost", "run_timer"} => TripleReady(packed)
  /\ s = "run_timer" => ~lost
  /\ d = "k_health" /\ s = "off" /\ ret[Watchdog] = "healthy" => isHealthyCached
  /\ d = "k_giveUp" /\ s # "off" => shouldTriggerGiveUp
  /\ d = "k_connected" /\ o \in {"asyncFailed", "unguard", "leave", "off"} /\ res[Watchdog] = "ok"
       => TripleReady(packed)
  /\ res[Watchdog] # "THREADBUSY"

SettleInv == CallersOutside /\ Nested /\ Established /\ DecisionSettlesLife

-----------------------------------------------------------------------------
(* Only the watchdog takes steps inside the Impl.                          *)

\* A thread of the application that is outside takes no step inside, and the
\* SDK calls nobody back in it.
LEMMA OutsideIdle ==
  ASSUME CallersOutside, NEW t \in Callers
  PROVE  ~Step(t) /\ ~SdkCallbacks(t)
<1>1. sub[t] = "off" /\ op[t] = "off" /\ dec[t] = "off"
  BY DEF CallersOutside
<1>2. ~InSdkCall(t)
  BY <1>1 DEF InSdkCall, AtSub, AtOp, AtDec
<1>3. ~isConnected(t)
  BY <1>1 DEF isConnected, AtSub, IsConnectedStop, IsConnectedIterated, IsConnectedLoad,
        IsConnectedGetState, IsConnectedPublish, IsConnectedBad, IsConnectedReturn
<1>4. ~TurnTo(t)
  BY <1>1 DEF TurnTo, AtSub, RecoveringTest, RecoveringCas, RecoveringRecheck, RecoveringBack,
        RunningCas, RunningClearLost, RunningResetTimer, GiveUpStamp, GiveUpCas
<1>5. ~ConnectDisconnect(t)
  BY <1>1 DEF ConnectDisconnect, AtOp, OpEnter, OpStop, OpCas, OpAsyncGood, OpAsyncBad,
        OpAsyncFailed, ConnectPolled, DisconnectPolled, OpPollAgain, OpTimeout, ConnectLast,
        DisconnectLast, OpClosed, OpUnguard, OpLeave
<1>6. ~Batch(t)
  BY <1>1 DEF Batch, AtOp, BatchStop, BatchEnter, BatchCheck, BatchTry, BatchAnswered,
        BatchReadRetry
<1>7. ~doWatchdogDecision(t)
  BY <1>1 DEF doWatchdogDecision, AtDec, DecisionEnter, DecisionHealth, DecisionBranch1,
        DecisionBranch2, DecisionBranch3, DecisionStamp, DecisionTest, DecisionIterated,
        DecisionDisconnected, DecisionIterated2, DecisionClosed, DecisionConnected,
        DecisionRecover, DecisionEnd
<1> QED
  BY <1>2, <1>3, <1>4, <1>5, <1>6, <1>7 DEF Step, SdkEnter, SdkCallbacks, StateCallback,
        SdkSilentChange, InactivityCallback

\* isConnected() never runs where the cache is relied upon.
LEMMA SettleIsConnected ==
  ASSUME Inv, SettleInv, isConnected(Watchdog)
  PROVE  SettleInv'
<1> USE DEF TypeOK, SettleInv, CallersOutside, Nested, Established, DecisionSettlesLife,
        IcLabels, AtDec, isHealthyCached, shouldTriggerGiveUp, updateBadStatusTime, Unset,
        sdkVars, cacheVars, stopVars, guardVars, localVars,
        AtSub, GotoSub, SetRet, SdkReturns
<1> USE ThreadsAssumption DEF Inv, Threads
<1>1. CASE IsConnectedStop(Watchdog)
  BY <1>1 DEF IsConnectedStop
<1>2. CASE IsConnectedIterated(Watchdog)
  BY <1>2 DEF IsConnectedIterated
<1>3. CASE IsConnectedLoad(Watchdog)
  BY <1>3 DEF IsConnectedLoad
<1>4. CASE IsConnectedGetState(Watchdog)
  BY <1>4 DEF IsConnectedGetState
<1>5. CASE IsConnectedPublish(Watchdog)
  BY <1>5 DEF IsConnectedPublish
<1>6. CASE IsConnectedBad(Watchdog)
  BY <1>6 DEF IsConnectedBad
<1>7. CASE IsConnectedReturn(Watchdog)
  BY <1>7 DEF IsConnectedReturn
<1> QED
    BY <1>1, <1>2, <1>3, <1>4, <1>5, <1>6, <1>7 DEF isConnected

\* TurnToRunning() and TurnToRecovring() leave RUNNING only with a healthy cache.
LEMMA SettleTurnTo ==
  ASSUME Inv, SettleInv, TurnTo(Watchdog)
  PROVE  SettleInv'
<1> USE DEF TypeOK, SettleInv, CallersOutside, Nested, Established, DecisionSettlesLife,
        IcLabels, AtDec, isHealthyCached, shouldTriggerGiveUp, updateBadStatusTime, Unset,
        sdkVars, cacheVars, stopVars, guardVars, localVars,
        AtSub, GotoSub, LifeFrame
<1> USE ThreadsAssumption DEF Inv, Threads
<1>1. CASE RecoveringTest(Watchdog)
  BY <1>1 DEF RecoveringTest
<1>2. CASE RecoveringCas(Watchdog)
  BY <1>2 DEF RecoveringCas
<1>3. CASE RecoveringRecheck(Watchdog)
  BY <1>3 DEF RecoveringRecheck
<1>4. CASE RecoveringBack(Watchdog)
  BY <1>4 DEF RecoveringBack
<1>5. CASE RunningCas(Watchdog)
  BY <1>5 DEF RunningCas
<1>6. CASE RunningClearLost(Watchdog)
  BY <1>6 DEF RunningClearLost
<1>7. CASE RunningResetTimer(Watchdog)
  BY <1>7 DEF RunningResetTimer
<1>8. CASE GiveUpStamp(Watchdog)
  BY <1>8 DEF GiveUpStamp
<1>9. CASE GiveUpCas(Watchdog)
  BY <1>9 DEF GiveUpCas
<1> QED
    BY <1>1, <1>2, <1>3, <1>4, <1>5, <1>6, <1>7, <1>8, <1>9 DEF TurnTo

\* connect() says ok only with a ready triple, and no second flight turns it
\* away.
LEMMA SettleConnect ==
  ASSUME Inv, SettleInv, ConnectDisconnect(Watchdog)
  PROVE  SettleInv'
<1> USE DEF TypeOK, SettleInv, CallersOutside, Nested, Established, DecisionSettlesLife,
        IcLabels, AtDec, isHealthyCached, shouldTriggerGiveUp, updateBadStatusTime, Unset,
        sdkVars, cacheVars, stopVars, guardVars, localVars,
        AtOp, GotoOp, OpCalls, SetRet, SetRes, SdkReturns
<1> USE ThreadsAssumption DEF Inv, Threads
<1>1. CASE OpEnter(Watchdog)
  BY <1>1 DEF OpEnter
<1>2. CASE OpStop(Watchdog)
  BY <1>2 DEF OpStop
<1>3. CASE OpCas(Watchdog)
  <2>1. conn = "IDLE"
    BY <1>3 DEF OpCas, SingleFlight, Exclusive
  <2> QED
    BY <1>3, <2>1 DEF OpCas
<1>4. CASE OpAsyncGood(Watchdog)
  BY <1>4 DEF OpAsyncGood
<1>5. CASE OpAsyncBad(Watchdog)
  BY <1>5 DEF OpAsyncBad
<1>6. CASE OpAsyncFailed(Watchdog)
  BY <1>6 DEF OpAsyncFailed
<1>7. CASE ConnectPolled(Watchdog)
  BY <1>7 DEF ConnectPolled
<1>8. CASE DisconnectPolled(Watchdog)
  BY <1>8 DEF DisconnectPolled
<1>9. CASE OpPollAgain(Watchdog)
  BY <1>9 DEF OpPollAgain
<1>10. CASE OpTimeout(Watchdog)
  BY <1>10 DEF OpTimeout
<1>11. CASE ConnectLast(Watchdog)
  BY <1>11 DEF ConnectLast
<1>12. CASE DisconnectLast(Watchdog)
  BY <1>12 DEF DisconnectLast
<1>13. CASE OpClosed(Watchdog)
  BY <1>13 DEF OpClosed
<1>14. CASE OpUnguard(Watchdog)
  BY <1>14 DEF OpUnguard
<1>15. CASE OpLeave(Watchdog)
  BY <1>15 DEF OpLeave
<1> QED
    BY <1>1, <1>2, <1>3, <1>4, <1>5, <1>6, <1>7, <1>8, <1>9, <1>10, <1>11,
        <1>12, <1>13, <1>14, <1>15 DEF ConnectDisconnect

\* Every branch of the decision ends through one of the helpers.
LEMMA SettleDecision ==
  ASSUME Inv, SettleInv, doWatchdogDecision(Watchdog)
  PROVE  SettleInv'
<1> USE DEF TypeOK, SettleInv, CallersOutside, Nested, Established, DecisionSettlesLife,
        IcLabels, AtDec, isHealthyCached, shouldTriggerGiveUp, updateBadStatusTime, Unset,
        sdkVars, cacheVars, stopVars, guardVars, localVars,
        DecFrame, GotoDec, DecCalls, DecCallsOp, SetRet, SetRes, SdkReturns
<1> USE ThreadsAssumption DEF Inv, Threads
<1>1. CASE DecisionEnter(Watchdog)
  BY <1>1 DEF DecisionEnter
<1>2. CASE DecisionHealth(Watchdog)
  BY <1>2 DEF DecisionHealth
<1>3. CASE DecisionBranch1(Watchdog)
  BY <1>3 DEF DecisionBranch1
<1>4. CASE DecisionBranch2(Watchdog)
  BY <1>4 DEF DecisionBranch2
<1>5. CASE DecisionBranch3(Watchdog)
  BY <1>5 DEF DecisionBranch3
<1>6. CASE DecisionStamp(Watchdog)
  BY <1>6 DEF DecisionStamp
<1>7. CASE DecisionTest(Watchdog)
  BY <1>7 DEF DecisionTest
<1>8. CASE DecisionIterated(Watchdog)
  BY <1>8 DEF DecisionIterated
<1>9. CASE DecisionDisconnected(Watchdog)
  BY <1>9 DEF DecisionDisconnected
<1>10. CASE DecisionIterated2(Watchdog)
  BY <1>10 DEF DecisionIterated2
<1>11. CASE DecisionClosed(Watchdog)
  BY <1>11 DEF DecisionClosed
<1>12. CASE DecisionConnected(Watchdog)
  BY <1>12 DEF DecisionConnected
<1>13. CASE DecisionRecover(Watchdog)
  BY <1>13 DEF DecisionRecover
<1>14. CASE DecisionEnd(Watchdog)
  BY <1>14 DEF DecisionEnd
<1> QED
    BY <1>1, <1>2, <1>3, <1>4, <1>5, <1>6, <1>7, <1>8, <1>9, <1>10, <1>11,
        <1>12, <1>13, <1>14 DEF doWatchdogDecision

\* The loop of the watchdog is in no branch.
LEMMA SettleWatchdog ==
  ASSUME Inv, SettleInv, runWatchdog
  PROVE  SettleInv'
<1> USE DEF TypeOK, SettleInv, CallersOutside, Nested, Established, DecisionSettlesLife,
        IcLabels, AtDec, isHealthyCached, shouldTriggerGiveUp, updateBadStatusTime, Unset,
        sdkVars, cacheVars, stopVars, guardVars, localVars,
        DecFrame, GotoDec, DecCalls, SdkReturns
<1> USE ThreadsAssumption DEF Inv, Threads
<1>1. CASE WatchdogLoop
  BY <1>1 DEF WatchdogLoop
<1>2. CASE WatchdogIterated
  BY <1>2 DEF WatchdogIterated
<1>3. CASE WatchdogDecides
  BY <1>3 DEF WatchdogDecides
<1>4. CASE WatchdogSkips
  BY <1>4 DEF WatchdogSkips
<1>5. CASE WatchdogThrows \/ WatchdogCatches
  BY <1>5 DEF WatchdogThrows, WatchdogCatches, Unwinds, SetRet, SetRes
<1>6. CASE WatchdogBackedOff \/ WatchdogResumes
  BY <1>6 DEF WatchdogBackedOff, WatchdogResumes
<1> QED
    BY <1>1, <1>2, <1>3, <1>4, <1>5, <1>6 DEF runWatchdog, WatchdogProceeds

\* A callback reaches the watchdog in an SDK call, where nothing is relied upon.
LEMMA SettleSdk ==
  ASSUME Inv, SettleInv, SdkEnter(Watchdog) \/ SdkCallbacks(Watchdog)
  PROVE  SettleInv'
<1> USE DEF sdkVars, cacheVars, stopVars, guardVars, localVars
<1>1. /\ InSdkCall(Watchdog)
      /\ UNCHANGED <<life, badAge, sub, op, dec, cmd, ret, res, branch>>
  BY DEF SdkEnter, SdkCallbacks, StateCallback, SdkSilentChange, InactivityCallback
<1>2. CallersOutside' /\ Nested'
  BY <1>1 DEF SettleInv, CallersOutside, Nested
<1>3. Established' /\ DecisionSettlesLife'
  BY <1>1 DEF SettleInv, Nested, Established, DecisionSettlesLife, InSdkCall, AtSub, AtOp, AtDec,
        IcLabels, shouldTriggerGiveUp
<1> QED
  BY <1>2, <1>3 DEF SettleInv

\* The application changes nothing but the life state, and that to GIVEN_UP.
LEMMA SettleApplication ==
  ASSUME WatchdogAlone, Inv, SettleInv, NEW t \in Callers, Application(t)
  PROVE  SettleInv'
<1>1. UNCHANGED <<sub, op, dec, cmd, res, branch, packed, lost, badAge>>
      /\ (life' = life \/ life' = "GIVEN_UP")
  BY DEF WatchdogAlone, Application, CallConnection, CallBatch, CallCheck, CheckReturns, CallPump,
        setGiveUpSignal, CallFrame, cacheVars
<1>2. ret'[Watchdog] = ret[Watchdog]
  <2>1. ret' = ret \/ ret' = [ret EXCEPT ![t] = "none"]
    BY DEF Application, CallConnection, CallBatch, CallCheck, CheckReturns, CallPump,
        setGiveUpSignal, CallFrame, SetRet
  <2>2. t # Watchdog
    BY ThreadsAssumption
  <2> QED
    BY <2>1, <2>2 DEF Inv, TypeOK, Threads
<1> QED
  BY <1>1, <1>2 DEF SettleInv, CallersOutside, Nested, Established, DecisionSettlesLife, AtDec,
        isHealthyCached, shouldTriggerGiveUp

LEMMA SettleInit == Init => SettleInv
<1> SUFFICES ASSUME Init PROVE SettleInv
  OBVIOUS
<1>1. CallersOutside
  BY ThreadsAssumption DEF Init, CallersOutside, Threads
<1>2. /\ sub[Watchdog] = "off" /\ op[Watchdog] = "off" /\ dec[Watchdog] = "w_loop"
      /\ branch[Watchdog] = 0 /\ res[Watchdog] = "none"
  BY DEF Init, Threads
<1> QED
  BY <1>1, <1>2 DEF SettleInv, Nested, Established, DecisionSettlesLife, IcLabels, AtDec

LEMMA SettleNext == WatchdogAlone /\ Inv /\ SettleInv /\ [Next]_vars => SettleInv'
<1> SUFFICES ASSUME WatchdogAlone, Inv, SettleInv, [Next]_vars PROVE SettleInv'
  OBVIOUS
<1>1. ASSUME NEW t \in Threads, Step(t) \/ SdkCallbacks(t) PROVE SettleInv'
  <2>1. t = Watchdog
    BY <1>1, OutsideIdle DEF Threads, SettleInv
  <2>2. ~Batch(Watchdog)
    BY DEF SettleInv, Nested, Batch, AtOp, BatchStop, BatchEnter, BatchCheck, BatchTry,
        BatchAnswered, BatchReadRetry
  <2> QED
    BY <1>1, <2>1, <2>2, SettleSdk, SettleIsConnected, SettleTurnTo, SettleConnect,
        SettleDecision DEF Step
<1>2. CASE Shutdown \/ Tick \/ UNCHANGED vars
  <2>1. /\ UNCHANGED <<sub, op, dec, cmd, ret, res, branch, packed, lost, life>>
        /\ shouldTriggerGiveUp => UNCHANGED badAge
    BY <1>2, BoundsAssumption DEF Shutdown, signalShutdown, joinWatchdog, Drained, DrainTimeout,
        SdFrame, Tick, vars, cacheVars, localVars, shouldTriggerGiveUp, Inv, TypeOK, Unset
  <2> QED
    BY <2>1 DEF SettleInv, CallersOutside, Nested, Established, DecisionSettlesLife, AtDec,
        isHealthyCached, shouldTriggerGiveUp
<1> QED
  BY <1>1, <1>2, SettleApplication, SettleWatchdog DEF Next

\* Two steps of the client write RUNNING over another life state.
LEMMA WhoSetsRunning ==
  ASSUME Next, life = "RECOVERING", life' = "RUNNING"
  PROVE  \E t \in Threads : Step(t) /\ (RunningCas(t) \/ RecoveringBack(t))
<1>1. ASSUME NEW t \in Threads, Step(t) PROVE RunningCas(t) \/ RecoveringBack(t)
  <2>1. ~SdkEnter(t) /\ ~isConnected(t)
    BY DEF SdkEnter, isConnected, IsConnectedStop, IsConnectedIterated, IsConnectedLoad,
        IsConnectedGetState, IsConnectedPublish, IsConnectedBad, IsConnectedReturn
  <2>2. ~ConnectDisconnect(t)
    BY DEF ConnectDisconnect, OpEnter, OpStop, OpCas, OpAsyncGood, OpAsyncBad, OpAsyncFailed,
        ConnectPolled, DisconnectPolled, OpPollAgain, OpTimeout, ConnectLast, DisconnectLast,
        OpClosed, OpUnguard, OpLeave
  <2>3. ~Batch(t)
    BY DEF Batch, BatchStop, BatchEnter, BatchCheck, BatchTry, BatchAnswered, BatchReadRetry
  <2>4. ~doWatchdogDecision(t)
    BY DEF doWatchdogDecision, DecFrame, DecisionEnter, DecisionHealth, DecisionBranch1,
        DecisionBranch2, DecisionBranch3, DecisionStamp, DecisionTest, DecisionIterated,
        DecisionDisconnected, DecisionIterated2, DecisionClosed, DecisionConnected,
        DecisionRecover, DecisionEnd
  <2> QED
    BY <1>1, <2>1, <2>2, <2>3, <2>4 DEF Step, TurnTo, RecoveringTest, RecoveringCas,
        RecoveringRecheck, RunningClearLost, RunningResetTimer, GiveUpStamp, GiveUpCas
<1>2. ASSUME NEW t \in Threads PROVE ~SdkCallbacks(t)
  BY DEF SdkCallbacks, StateCallback, SdkSilentChange, InactivityCallback
<1>3. ASSUME NEW t \in Callers PROVE ~Application(t)
  BY DEF Application, CallConnection, CallBatch, CallCheck, CheckReturns, CallPump,
        setGiveUpSignal
<1>4. ~runWatchdog /\ ~Shutdown /\ ~Tick
  BY DEF runWatchdog, WatchdogLoop, WatchdogIterated, WatchdogDecides, WatchdogSkips,
        WatchdogThrows, WatchdogCatches, WatchdogBackedOff, WatchdogResumes, WatchdogProceeds,
        Unwinds, DecFrame, Shutdown, signalShutdown, joinWatchdog, Drained, DrainTimeout,
        SdFrame, Tick
<1> QED
  BY <1>1, <1>2, <1>3, <1>4 DEF Next

-----------------------------------------------------------------------------
\* When a recovery attempt of the watchdog ends and the client is RUNNING, the
\* cache is healthy: no branch of doWatchdogDecision(), whichever of its calls
\* fails or is answered too late, leaves a client RUNNING on a dead session.
THEOREM DecisionSettles == WatchdogAlone => (Spec => []DecisionSettlesLife)
<1> SUFFICES ASSUME WatchdogAlone PROVE Spec => []DecisionSettlesLife
  OBVIOUS
<1>1. SettleInv => DecisionSettlesLife
  BY DEF SettleInv
<1>2. Inv /\ SettleInv /\ [Next]_vars => SettleInv'
  BY SettleNext
<1> QED
  BY <1>1, <1>2, SettleInit, Invariance, PTL DEF Spec

\* The watchdog returns a client to RUNNING only while the cache shows a ready
\* connection: what isConnected() or connect() said is still so at the CAS.
THEOREM ReturnsWhenReady == WatchdogAlone => (Spec => BackOnlyWhenReady)
<1> SUFFICES ASSUME WatchdogAlone PROVE Spec => BackOnlyWhenReady
  OBVIOUS
<1>1. Inv /\ SettleInv /\ [Next]_vars => [life = "RECOVERING" /\ life' = "RUNNING" => TripleReady(packed)]_vars
  <2> SUFFICES ASSUME Inv, SettleInv, Next, life = "RECOVERING", life' = "RUNNING"
               PROVE  TripleReady(packed)
    BY DEF vars
  <2>1. RunningCas(Watchdog) \/ RecoveringBack(Watchdog)
    BY OutsideIdle, WhoSetsRunning DEF SettleInv, Threads
  <2> QED
    BY <2>1 DEF SettleInv, Established, RunningCas, RecoveringBack, AtSub, isHealthyCached
<1>2. Inv /\ SettleInv /\ [Next]_vars => SettleInv'
  BY SettleNext
<1> QED
  BY <1>1, <1>2, SettleInit, Invariance, PTL DEF Spec, BackOnlyWhenReady

\* With no second thread to reset the timer, the watchdog gives up for a lasting
\* bad status only after giveUpThresholdMs: what Types.h says holds of an
\* application that leaves the connection to the watchdog.
THEOREM GivesUpInTime == WatchdogAlone => (Spec => GiveUpWindowElapsed)
<1> SUFFICES ASSUME WatchdogAlone PROVE Spec => GiveUpWindowElapsed
  OBVIOUS
<1>1. Inv /\ SettleInv => \A t \in Threads : dec[t] = "k_giveUp" /\ sub[t] = "gu_cas" => badAge >= GiveUpThreshold
  <2> SUFFICES ASSUME Inv, SettleInv, NEW t \in Threads, dec[t] = "k_giveUp", sub[t] = "gu_cas"
               PROVE  badAge >= GiveUpThreshold
    OBVIOUS
  <2>1. t = Watchdog
    BY DEF SettleInv, CallersOutside, Threads
  <2> QED
    BY <2>1 DEF SettleInv, Established, shouldTriggerGiveUp
<1>2. Inv /\ SettleInv /\ [Next]_vars
        => [\A t \in Threads :
              dec[t] = "k_giveUp" /\ sub[t] = "gu_cas" /\ life # "GIVEN_UP" /\ life' = "GIVEN_UP"
                => sub'[t] = "gu_cas" \/ badAge >= GiveUpThreshold]_vars
  BY <1>1
<1>3. Inv /\ SettleInv /\ [Next]_vars => SettleInv'
  BY SettleNext
<1> QED
  BY <1>2, <1>3, SettleInit, Invariance, PTL DEF Spec, GiveUpWindowElapsed
=============================================================================
