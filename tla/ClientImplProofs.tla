-------------------------- MODULE ClientImplProofs --------------------------
(***************************************************************************)
(* Theorems about ClientImpl for every set of threads, commands and SDK    *)
(* states: type correctness, single flight, quiescence after a clean       *)
(* drain, the finality of GIVEN_UP, the use of the state cache, and what   *)
(* the facade may rely on.                                                 *)
(***************************************************************************)
EXTENDS ClientImpl, FiniteSetTheorems, TLAPS

Inv == TypeOK /\ GuardsOwned /\ SingleFlight /\ QuietAfterDrain

-----------------------------------------------------------------------------
(* Type correctness, one lemma per layer.                                  *)

\* A callback the SDK runs inline keeps the types.
LEMMA CallbacksType ==
  ASSUME TypeOK, NEW t \in Threads, SdkCallbacks(t)
  PROVE  TypeOK'
<1> USE SdkAssumption DEF TypeOK, sdkVars, cacheVars, stopVars, guardVars,
        localVars, InSdkCall
<1>1. ASSUME NEW s \in SdkStates, StateCallback(t, s) PROVE TypeOK'
  BY <1>1 DEF StateCallback
<1>2. ASSUME NEW s \in SdkStates, SdkSilentChange(t, s) PROVE TypeOK'
  BY <1>2 DEF SdkSilentChange
<1>3. CASE InactivityCallback(t)
  BY <1>3 DEF InactivityCallback
<1> QED
  BY <1>1, <1>2, <1>3 DEF SdkCallbacks

\* A step of isConnected() keeps the types.
LEMMA IsConnectedType ==
  ASSUME TypeOK, NEW t \in Threads, isConnected(t)
  PROVE  TypeOK'
<1> USE BoundsAssumption, SdkAssumption DEF TypeOK, sdkVars, cacheVars,
        stopVars, guardVars, localVars, AtSub, GotoSub, SetRet, SdkReturns,
        updateBadStatusTime, SubLabels, Unset
<1>1. CASE IsConnectedStop(t)
  BY <1>1 DEF IsConnectedStop
<1>2. CASE IsConnectedIterated(t)
  BY <1>2 DEF IsConnectedIterated
<1>3. CASE IsConnectedLoad(t)
  BY <1>3 DEF IsConnectedLoad
<1>4. CASE IsConnectedGetState(t)
  BY <1>4 DEF IsConnectedGetState
<1>5. CASE IsConnectedPublish(t)
  BY <1>5 DEF IsConnectedPublish
<1>6. CASE IsConnectedBad(t)
  BY <1>6 DEF IsConnectedBad
<1>7. CASE IsConnectedReturn(t)
  BY <1>7 DEF IsConnectedReturn
<1> QED
  BY <1>1, <1>2, <1>3, <1>4, <1>5, <1>6, <1>7 DEF isConnected

\* A step of a TurnTo...() helper keeps the types.
LEMMA TurnToType ==
  ASSUME TypeOK, NEW t \in Threads, TurnTo(t)
  PROVE  TypeOK'
<1> USE BoundsAssumption DEF TypeOK, sdkVars, cacheVars, stopVars, guardVars,
        localVars, AtSub, GotoSub, LifeFrame, LifeStates, updateBadStatusTime,
        SubLabels, Unset
<1>1. CASE RecoveringTest(t)
  BY <1>1 DEF RecoveringTest
<1>2. CASE RecoveringCas(t)
  BY <1>2 DEF RecoveringCas
<1>3. CASE RecoveringRecheck(t)
  BY <1>3 DEF RecoveringRecheck
<1>4. CASE RecoveringBack(t)
  BY <1>4 DEF RecoveringBack
<1>5. CASE RunningCas(t)
  BY <1>5 DEF RunningCas
<1>6. CASE RunningClearLost(t)
  BY <1>6 DEF RunningClearLost
<1>7. CASE RunningResetTimer(t)
  BY <1>7 DEF RunningResetTimer
<1>8. CASE GiveUpStamp(t)
  BY <1>8 DEF GiveUpStamp
<1>9. CASE GiveUpCas(t)
  BY <1>9 DEF GiveUpCas
<1> QED
  BY <1>1, <1>2, <1>3, <1>4, <1>5, <1>6, <1>7, <1>8, <1>9 DEF TurnTo

\* A step of connect() or disconnect() keeps the types.
LEMMA ConnectType ==
  ASSUME TypeOK, NEW t \in Threads, ConnectDisconnect(t)
  PROVE  TypeOK'
<1> USE BoundsAssumption DEF TypeOK, sdkVars, cacheVars, stopVars, guardVars,
        localVars, AtOp, GotoOp, OpCalls, SetRet, SetRes, SdkReturns,
        InFlightGuard, updateBadStatusTime, OpLabels, SubLabels, Unset
<1>1. CASE OpEnter(t)
  BY <1>1 DEF OpEnter
<1>2. CASE OpStop(t)
  BY <1>2 DEF OpStop
<1>3. CASE OpCas(t)
  BY <1>3 DEF OpCas
<1>4. CASE OpAsyncGood(t)
  BY <1>4 DEF OpAsyncGood
<1>5. CASE OpAsyncBad(t)
  BY <1>5 DEF OpAsyncBad
<1>6. CASE OpAsyncFailed(t)
  BY <1>6 DEF OpAsyncFailed
<1>7. CASE ConnectPolled(t)
  BY <1>7 DEF ConnectPolled
<1>8. CASE DisconnectPolled(t)
  BY <1>8 DEF DisconnectPolled
<1>9. CASE OpPollAgain(t)
  BY <1>9 DEF OpPollAgain
<1>10. CASE OpTimeout(t)
  BY <1>10 DEF OpTimeout
<1>11. CASE ConnectLast(t)
  BY <1>11 DEF ConnectLast
<1>12. CASE DisconnectLast(t)
  BY <1>12 DEF DisconnectLast
<1>13. CASE OpClosed(t)
  BY <1>13 DEF OpClosed
<1>14. CASE OpUnguard(t)
  BY <1>14 DEF OpUnguard
<1>15. CASE OpLeave(t)
  BY <1>15 DEF OpLeave
<1> QED
  BY <1>1, <1>2, <1>3, <1>4, <1>5, <1>6, <1>7, <1>8, <1>9, <1>10, <1>11,
        <1>12, <1>13, <1>14, <1>15 DEF ConnectDisconnect

\* A step of batchRead() or batchWrite() keeps the types.
LEMMA BatchType ==
  ASSUME TypeOK, NEW t \in Threads, Batch(t)
  PROVE  TypeOK'
<1> USE BoundsAssumption DEF TypeOK, sdkVars, cacheVars, stopVars, guardVars,
        localVars, AtOp, GotoOp, SetRes, SdkReturns, InFlightGuard, OpLabels
<1>1. CASE BatchStop(t)
  BY <1>1 DEF BatchStop
<1>2. CASE BatchEnter(t)
  BY <1>2 DEF BatchEnter
<1>3. CASE BatchCheck(t)
  BY <1>3 DEF BatchCheck
<1>4. CASE BatchTry(t)
  BY <1>4 DEF BatchTry
<1>5. CASE BatchAnswered(t)
  BY <1>5 DEF BatchAnswered
<1>6. CASE BatchReadRetry(t)
  BY <1>6 DEF BatchReadRetry
<1> QED
  BY <1>1, <1>2, <1>3, <1>4, <1>5, <1>6 DEF Batch

\* A step of doWatchdogDecision() keeps the types.
LEMMA DecisionType ==
  ASSUME TypeOK, NEW t \in Threads, doWatchdogDecision(t)
  PROVE  TypeOK'
<1> USE BoundsAssumption DEF TypeOK, sdkVars, cacheVars, stopVars, guardVars,
        localVars, DecFrame, AtDec, GotoDec, DecCalls, DecCallsOp, SetRet,
        SetRes, SdkReturns, updateBadStatusTime, OpLabels, SubLabels,
        DecLabels, Unset
<1>1. CASE DecisionEnter(t)
  BY <1>1 DEF DecisionEnter
<1>2. CASE DecisionHealth(t)
  BY <1>2 DEF DecisionHealth
<1>3. CASE DecisionBranch1(t)
  BY <1>3 DEF DecisionBranch1
<1>4. CASE DecisionBranch2(t)
  BY <1>4 DEF DecisionBranch2
<1>5. CASE DecisionBranch3(t)
  BY <1>5 DEF DecisionBranch3
<1>6. CASE DecisionStamp(t)
  BY <1>6 DEF DecisionStamp
<1>7. CASE DecisionTest(t)
  BY <1>7 DEF DecisionTest
<1>8. CASE DecisionIterated(t)
  BY <1>8 DEF DecisionIterated
<1>9. CASE DecisionDisconnected(t)
  BY <1>9 DEF DecisionDisconnected
<1>10. CASE DecisionIterated2(t)
  BY <1>10 DEF DecisionIterated2
<1>11. CASE DecisionClosed(t)
  BY <1>11 DEF DecisionClosed
<1>12. CASE DecisionConnected(t)
  BY <1>12 DEF DecisionConnected
<1>13. CASE DecisionRecover(t)
  BY <1>13 DEF DecisionRecover
<1>14. CASE DecisionEnd(t)
  BY <1>14 DEF DecisionEnd
<1> QED
  BY <1>1, <1>2, <1>3, <1>4, <1>5, <1>6, <1>7, <1>8, <1>9, <1>10, <1>11,
        <1>12, <1>13, <1>14 DEF doWatchdogDecision

\* A step of runWatchdog() keeps the types.
LEMMA WatchdogType ==
  ASSUME TypeOK, runWatchdog
  PROVE  TypeOK'
<1> USE DEF TypeOK, sdkVars, cacheVars, stopVars, guardVars, localVars,
        Threads, DecFrame, AtDec, GotoDec, DecCalls, SdkReturns, SubLabels,
        DecLabels
<1>1. CASE WatchdogLoop
  BY <1>1 DEF WatchdogLoop
<1>2. CASE WatchdogIterated
  BY <1>2 DEF WatchdogIterated
<1>3. CASE WatchdogDecides
  BY <1>3 DEF WatchdogDecides
<1>4. CASE WatchdogSkips
  BY <1>4 DEF WatchdogSkips
<1>5. CASE WatchdogThrows \/ WatchdogCatches
  BY <1>5 DEF WatchdogThrows, WatchdogCatches, Unwinds, SetRet, SetRes
<1>6. CASE WatchdogBackedOff \/ WatchdogResumes
  BY <1>6 DEF WatchdogBackedOff, WatchdogResumes
<1> QED
  BY <1>1, <1>2, <1>3, <1>4, <1>5, <1>6 DEF runWatchdog, WatchdogProceeds

\* A step of Impl::shutdown() keeps the types.
LEMMA ShutdownType ==
  ASSUME TypeOK, Shutdown
  PROVE  TypeOK'
<1> USE DEF TypeOK, sdkVars, cacheVars, stopVars, guardVars, localVars,
        SdFrame
<1>1. CASE signalShutdown
  BY <1>1 DEF signalShutdown
<1>2. CASE joinWatchdog
  BY <1>2 DEF joinWatchdog
<1>3. CASE Drained
  BY <1>3 DEF Drained
<1>4. CASE DrainTimeout
  BY <1>4 DEF DrainTimeout
<1> QED
  BY <1>1, <1>2, <1>3, <1>4 DEF Shutdown

\* A call of the application keeps the types.
LEMMA ApplicationType ==
  ASSUME TypeOK, NEW t \in Callers, Application(t)
  PROVE  TypeOK'
<1> USE DEF TypeOK, sdkVars, cacheVars, stopVars, guardVars, localVars,
        Threads, CallFrame, Idle, GotoOp, GotoSub, GotoDec, SetRet,
        LifeStates, OpLabels, SubLabels, DecLabels
<1>1. ASSUME NEW c \in Commands, CallConnection(t, c) PROVE TypeOK'
  BY <1>1 DEF CallConnection
<1>2. ASSUME NEW c \in Commands, CallBatch(t, c) PROVE TypeOK'
  BY <1>2 DEF CallBatch
<1>3. CASE CallCheck(t)
  BY <1>3 DEF CallCheck
<1>4. CASE CheckReturns(t)
  BY <1>4 DEF CheckReturns
<1>5. CASE CallPump(t)
  BY <1>5 DEF CallPump
<1>6. CASE setGiveUpSignal(t)
  BY <1>6 DEF setGiveUpSignal
<1> QED
  BY <1>1, <1>2, <1>3, <1>4, <1>5, <1>6 DEF Application

-----------------------------------------------------------------------------
(* Guards, single flight and the drain.                                    *)

\* The part of the invariant that is about guards.
GuardInv == GuardsOwned /\ SingleFlight /\ QuietAfterDrain

\* A step outside connect(), disconnect(), the batch calls and shutdown()
\* does not touch what the guards are about.
LEMMA GuardsFrame ==
  ASSUME GuardInv, UNCHANGED <<op, guardVars, stopVars>>
  PROVE  GuardInv'
BY DEF GuardInv, GuardsOwned, SingleFlight, QuietAfterDrain, guardVars, stopVars

\* A thread that moves inside one guard scope, past no stop test it should
\* have failed, leaves the guards alone.
LEMMA GuardsMove ==
  ASSUME TypeOK, GuardInv, NEW t \in Threads, NEW l \in OpLabels,
         op' = [op EXCEPT ![t] = l],
         op[t] \in Counted <=> l \in Counted,
         op[t] \in Exclusive <=> l \in Exclusive,
         sd = "clean" => l \notin {"cas", "b_call"},
         UNCHANGED <<guardVars, stopVars>>
  PROVE  GuardInv'
<1> USE DEF TypeOK, guardVars, stopVars
<1>1. \A u \in Threads : op'[u] = IF u = t THEN l ELSE op[u]
  OBVIOUS
<1>2. GuardsOwned'
  <2>1. inFlight' = {u \in Threads : op'[u] \in Counted}
    BY <1>1 DEF GuardInv, GuardsOwned
  <2>2. casGuards' = {u \in Threads : op'[u] \in Exclusive}
    BY <1>1 DEF GuardInv, GuardsOwned
  <2> QED
    BY <1>1, <2>1, <2>2 DEF GuardInv, GuardsOwned
<1>3. SingleFlight'
  BY <1>1 DEF GuardInv, SingleFlight
<1>4. QuietAfterDrain'
  BY <1>1 DEF GuardInv, QuietAfterDrain
<1> QED
  BY <1>2, <1>3, <1>4 DEF GuardInv

\* The guard sets are finite, so m_taskCounter is a cardinality.
LEMMA InFlightFinite ==
  ASSUME TypeOK
  PROVE  IsFiniteSet(inFlight) /\ IsFiniteSet(Threads)
<1>1. IsFiniteSet(Threads)
  BY ThreadsAssumption, FS_AddElement DEF Threads
<1> QED
  BY <1>1, FS_Subset DEF TypeOK

\* A thread about to destroy its InFlightGuard is counted.
LEMMA CounterPositive ==
  ASSUME TypeOK, GuardsOwned, NEW t \in Threads, op[t] = "leave"
  PROVE  tasks > 0
<1>1. t \in inFlight
  BY DEF GuardsOwned, Counted
<1>2. Cardinality(inFlight) # 0
  BY <1>1, InFlightFinite, FS_EmptySet
<1> QED
  BY <1>2 DEF GuardsOwned, TypeOK

\* Taking an InFlightGuard.
LEMMA GuardsEnter ==
  ASSUME TypeOK, GuardInv, NEW t \in Threads, NEW l \in Counted \ Exclusive,
         l \notin {"cas", "b_call"}, op[t] \notin Counted, InFlightGuard(t),
         op' = [op EXCEPT ![t] = l],
         UNCHANGED <<conn, casGuards, stopVars>>
  PROVE  GuardInv'
<1> USE DEF TypeOK, stopVars
<1>1. \A u \in Threads : op'[u] = IF u = t THEN l ELSE op[u]
  OBVIOUS
<1>2. op[t] \notin Exclusive /\ t \notin inFlight
  BY DEF GuardInv, GuardsOwned, Counted
<1>3. GuardsOwned'
  <2>1. inFlight' = {u \in Threads : op'[u] \in Counted}
    BY <1>1 DEF GuardInv, GuardsOwned, InFlightGuard
  <2>2. casGuards' = {u \in Threads : op'[u] \in Exclusive}
    BY <1>1, <1>2 DEF GuardInv, GuardsOwned
  <2>3. tasks' = Cardinality(inFlight')
    BY <1>2, InFlightFinite, FS_AddElement DEF GuardInv, GuardsOwned, InFlightGuard
  <2> QED
    BY <1>1, <2>1, <2>2, <2>3 DEF GuardInv, GuardsOwned
<1>4. SingleFlight'
  BY <1>1, <1>2 DEF GuardInv, SingleFlight
<1>5. QuietAfterDrain'
  BY <1>1 DEF GuardInv, QuietAfterDrain
<1> QED
  BY <1>3, <1>4, <1>5 DEF GuardInv

\* The CAS of connect() and disconnect(): a winner finds no other holder.
LEMMA GuardsCas ==
  ASSUME TypeOK, GuardInv, NEW t \in Threads, OpCas(t)
  PROVE  GuardInv'
<1> USE DEF TypeOK, stopVars, AtOp, GotoOp
<1>1. op[t] = "cas" /\ sd # "clean"
  BY DEF OpCas, GuardInv, GuardsOwned
<1>2. CASE conn # "IDLE"
  BY <1>1, <1>2, GuardsMove DEF OpCas, Counted, Exclusive, OpLabels, guardVars
<1>3. CASE conn = "IDLE"
  <2>1. op' = [op EXCEPT ![t] = "async"] /\ conn' = "CONNECTING"
        /\ casGuards' = casGuards \cup {t}
        /\ UNCHANGED <<tasks, inFlight, stopVars>>
    BY <1>3 DEF OpCas
  <2>2. \A u \in Threads : op'[u] = IF u = t THEN "async" ELSE op[u]
    BY <2>1
  <2>3. \A u \in Threads : op[u] \notin Exclusive
    BY <1>3 DEF GuardInv, SingleFlight
  <2>4. GuardsOwned'
    <3>1. inFlight' = {u \in Threads : op'[u] \in Counted}
      BY <1>1, <2>1, <2>2 DEF GuardInv, GuardsOwned, Counted, Exclusive
    <3>2. casGuards' = {u \in Threads : op'[u] \in Exclusive}
      BY <2>1, <2>2 DEF GuardInv, GuardsOwned, Exclusive
    <3> QED
      BY <1>1, <2>1, <3>1, <3>2 DEF GuardInv, GuardsOwned
  <2>5. SingleFlight'
    BY <2>1, <2>2, <2>3 DEF SingleFlight, Exclusive
  <2>6. QuietAfterDrain'
    BY <1>1, <2>1 DEF QuietAfterDrain
  <2> QED
    BY <2>4, <2>5, <2>6 DEF GuardInv
<1> QED
  BY <1>2, <1>3

\* ~CASGuard: the one holder goes, and the flag is IDLE again.
LEMMA GuardsUncas ==
  ASSUME TypeOK, GuardInv, NEW t \in Threads, OpUnguard(t)
  PROVE  GuardInv'
<1> USE DEF TypeOK, stopVars, AtOp, GotoOp
<1>1. op[t] = "unguard" /\ op[t] \in Exclusive
  BY DEF OpUnguard, Exclusive
<1>2. \A u \in Threads : op'[u] = IF u = t THEN "leave" ELSE op[u]
  BY DEF OpUnguard
<1>3. \A u \in Threads : op'[u] \notin Exclusive
  BY <1>1, <1>2 DEF GuardInv, SingleFlight, Exclusive
<1>4. GuardsOwned'
  <2>1. inFlight' = {u \in Threads : op'[u] \in Counted}
    BY <1>1, <1>2 DEF OpUnguard, GuardInv, GuardsOwned, Counted
  <2>2. casGuards' = {u \in Threads : op'[u] \in Exclusive}
    BY <1>2, <1>3 DEF OpUnguard, GuardInv, GuardsOwned
  <2> QED
    BY <1>2, <2>1, <2>2 DEF OpUnguard, GuardInv, GuardsOwned
<1>5. SingleFlight' /\ QuietAfterDrain'
  BY <1>2, <1>3 DEF OpUnguard, SingleFlight, GuardInv, QuietAfterDrain
<1> QED
  BY <1>4, <1>5 DEF GuardInv

\* ~InFlightGuard.
LEMMA GuardsLeave ==
  ASSUME TypeOK, GuardInv, NEW t \in Threads, OpLeave(t)
  PROVE  GuardInv'
<1> USE DEF TypeOK, stopVars, AtOp, GotoOp
<1>1. op[t] = "leave" /\ t \in inFlight
  BY DEF OpLeave, GuardInv, GuardsOwned, Counted
<1>2. \A u \in Threads : op'[u] = IF u = t THEN "off" ELSE op[u]
  BY DEF OpLeave
<1>3. GuardsOwned'
  <2>1. inFlight' = {u \in Threads : op'[u] \in Counted}
    BY <1>1, <1>2 DEF OpLeave, GuardInv, GuardsOwned, Counted, Exclusive
  <2>2. casGuards' = {u \in Threads : op'[u] \in Exclusive}
    BY <1>1, <1>2 DEF OpLeave, GuardInv, GuardsOwned, Exclusive
  <2>3. tasks' = Cardinality(inFlight')
    BY <1>1, CounterPositive, InFlightFinite, FS_RemoveElement DEF OpLeave, GuardInv, GuardsOwned
  <2> QED
    BY <1>2, <2>1, <2>2, <2>3 DEF OpLeave, GuardInv, GuardsOwned
<1>4. SingleFlight'
  BY <1>1, <1>2 DEF OpLeave, GuardInv, SingleFlight, Exclusive
<1>5. QuietAfterDrain'
  BY <1>2 DEF OpLeave, GuardInv, QuietAfterDrain, Exclusive
<1> QED
  BY <1>3, <1>4, <1>5 DEF GuardInv

\* A step of connect() or disconnect() preserves the guard invariant.
LEMMA GuardsConnect ==
  ASSUME TypeOK, GuardInv, NEW t \in Threads, ConnectDisconnect(t)
  PROVE  GuardInv'
<1> USE DEF AtOp, GotoOp, OpCalls, OpLabels
<1>1. CASE OpEnter(t)
  BY <1>1, GuardsEnter DEF OpEnter, Counted, Exclusive
<1>2. CASE OpStop(t)
  <2>1. sd = "clean" => getEffectiveStopSignal
    BY DEF GuardInv, GuardsOwned, getEffectiveStopSignal
  <2> QED
    BY <1>2, <2>1, GuardsMove DEF OpStop, Counted, Exclusive
<1>3. CASE OpCas(t)
  BY <1>3, GuardsCas
<1>4. CASE OpAsyncGood(t)
  BY <1>4, GuardsMove DEF OpAsyncGood, Counted, Exclusive
<1>5. CASE OpAsyncBad(t)
  BY <1>5, GuardsMove DEF OpAsyncBad, Counted, Exclusive
<1>6. CASE OpAsyncFailed(t)
  BY <1>6, GuardsMove DEF OpAsyncFailed, Counted, Exclusive
<1>7. CASE ConnectPolled(t)
  BY <1>7, GuardsMove DEF ConnectPolled, Counted, Exclusive
<1>8. CASE DisconnectPolled(t)
  BY <1>8, GuardsMove DEF DisconnectPolled, Counted, Exclusive
<1>9. CASE OpPollAgain(t)
  BY <1>9, GuardsMove DEF OpPollAgain, Counted, Exclusive
<1>10. CASE OpTimeout(t)
  BY <1>10, GuardsMove DEF OpTimeout, Counted, Exclusive
<1>11. CASE ConnectLast(t)
  BY <1>11, GuardsMove DEF ConnectLast, Counted, Exclusive
<1>12. CASE DisconnectLast(t)
  BY <1>12, GuardsMove DEF DisconnectLast, Counted, Exclusive
<1>13. CASE OpClosed(t)
  BY <1>13, GuardsMove DEF OpClosed, Counted, Exclusive
<1>14. CASE OpUnguard(t)
  BY <1>14, GuardsUncas
<1>15. CASE OpLeave(t)
  BY <1>15, GuardsLeave
<1> QED
  BY <1>1, <1>2, <1>3, <1>4, <1>5, <1>6, <1>7, <1>8, <1>9, <1>10, <1>11,
     <1>12, <1>13, <1>14, <1>15 DEF ConnectDisconnect

\* A step of batchRead() or batchWrite() preserves the guard invariant.
LEMMA GuardsBatch ==
  ASSUME TypeOK, GuardInv, NEW t \in Threads, Batch(t)
  PROVE  GuardInv'
<1> USE DEF AtOp, GotoOp, OpLabels
<1>1. sd = "clean" => getEffectiveStopSignal
  BY DEF GuardInv, GuardsOwned, getEffectiveStopSignal
<1>2. CASE BatchStop(t)
  BY <1>2, GuardsMove DEF BatchStop, Counted, Exclusive
<1>3. CASE BatchEnter(t)
  BY <1>3, GuardsEnter DEF BatchEnter, Counted, Exclusive
<1>4. CASE BatchCheck(t)
  BY <1>4, GuardsMove DEF BatchCheck, Counted, Exclusive
<1>5. CASE BatchTry(t)
  BY <1>1, <1>5, GuardsMove DEF BatchTry, Counted, Exclusive
<1>6. CASE BatchAnswered(t)
  BY <1>6, GuardsMove DEF BatchAnswered, Counted, Exclusive
<1>7. CASE BatchReadRetry(t)
  BY <1>7, GuardsMove DEF BatchReadRetry, Counted, Exclusive
<1> QED
  BY <1>2, <1>3, <1>4, <1>5, <1>6, <1>7 DEF Batch

\* A decision that calls connect() or disconnect() is not counted yet.
LEMMA GuardsDecision ==
  ASSUME TypeOK, GuardInv, NEW t \in Threads, doWatchdogDecision(t)
  PROVE  GuardInv'
<1> USE DEF AtDec, GotoDec, DecCalls, DecFrame
<1>1. ASSUME NEW c, NEW l, DecCallsOp(t, c, l), op[t] = "off",
             UNCHANGED <<guardVars, stopVars>>
      PROVE  GuardInv'
  BY <1>1, GuardsMove DEF DecCallsOp, Counted, Exclusive, OpLabels
<1>2. CASE DecisionTest(t)
  BY <1>1, <1>2, GuardsFrame DEF DecisionTest
<1>3. CASE DecisionIterated(t)
  BY <1>1, <1>3, GuardsFrame DEF DecisionIterated
<1>4. CASE DecisionClosed(t)
  BY <1>1, <1>4, GuardsFrame DEF DecisionClosed
<1>5. CASE \/ DecisionEnter(t) \/ DecisionHealth(t) \/ DecisionBranch1(t)
           \/ DecisionBranch2(t) \/ DecisionBranch3(t) \/ DecisionStamp(t)
           \/ DecisionDisconnected(t) \/ DecisionIterated2(t)
           \/ DecisionConnected(t) \/ DecisionRecover(t) \/ DecisionEnd(t)
  <2>1. UNCHANGED <<op, guardVars, stopVars>>
    BY <1>5 DEF DecisionEnter, DecisionHealth, DecisionBranch1, DecisionBranch2,
      DecisionBranch3, DecisionStamp, DecisionDisconnected, DecisionIterated2,
      DecisionConnected, DecisionRecover, DecisionEnd
  <2> QED
    BY <2>1, GuardsFrame
<1> QED
  BY <1>2, <1>3, <1>4, <1>5 DEF doWatchdogDecision

\* shutdown() declares the drain clean only when no guard is alive.
LEMMA GuardsShutdown ==
  ASSUME TypeOK, GuardInv, Shutdown
  PROVE  GuardInv'
<1> USE DEF SdFrame, guardVars
<1>1. CASE Drained
  <2>1. inFlight = {}
    BY <1>1, InFlightFinite, FS_EmptySet DEF Drained, GuardInv, GuardsOwned
  <2>2. \A t \in Threads : op[t] \notin Counted
    BY <2>1 DEF GuardInv, GuardsOwned
  <2> QED
    BY <1>1, <2>2 DEF Drained, GuardInv, GuardsOwned, SingleFlight, QuietAfterDrain, Counted
<1>2. CASE signalShutdown \/ joinWatchdog \/ DrainTimeout
  BY <1>2 DEF signalShutdown, joinWatchdog, DrainTimeout, GuardInv, GuardsOwned,
    SingleFlight, QuietAfterDrain
<1> QED
  BY <1>1, <1>2 DEF Shutdown

-----------------------------------------------------------------------------
(* The theorems.                                                           *)

\* The inductive invariant holds initially ...
LEMMA InitInv == Init => Inv
<1> SUFFICES ASSUME Init PROVE Inv
  OBVIOUS
<1>1. TypeOK
  <2>1. sdk \in Triples /\ packed \in Triples /\ saw \in [Threads -> Triples]
    BY SdkAssumption DEF Init
  <2>2. dec \in [Threads -> DecLabels]
    BY DEF Init, DecLabels
  <2>3. sub \in [Threads -> SubLabels] /\ op \in [Threads -> OpLabels]
    BY DEF Init, SubLabels, OpLabels
  <2>4. badAge \in Unset..GiveUpThreshold /\ retry \in [Threads -> 0..MaxRetries]
        /\ branch \in [Threads -> 0..3]
    BY BoundsAssumption DEF Init, Unset
  <2> QED
    BY <2>1, <2>2, <2>3, <2>4 DEF Init, TypeOK, LifeStates
<1>2. \A t \in Threads : op[t] \notin Counted
  BY DEF Init, Counted, Exclusive
<1>3. GuardsOwned
  BY <1>2, FS_EmptySet DEF Init, GuardsOwned, Counted
<1> QED
  BY <1>1, <1>2, <1>3 DEF Init, Inv, SingleFlight, QuietAfterDrain, Counted

\* ... and is preserved by every step.
LEMMA NextInv == Inv /\ [Next]_vars => Inv'
<1> SUFFICES ASSUME Inv, [Next]_vars PROVE Inv'
  OBVIOUS
<1> USE DEF Inv, GuardInv
<1>1. ASSUME NEW t \in Threads, Step(t) PROVE Inv'
  <2>1. CASE SdkEnter(t)
    <3>1. TypeOK'
      BY <2>1 DEF SdkEnter, TypeOK, cacheVars, stopVars, guardVars, localVars
    <3> QED
      BY <2>1, <3>1, GuardsFrame DEF SdkEnter
  <2>2. CASE isConnected(t)
    <3>1. UNCHANGED <<op, guardVars, stopVars>>
      BY <2>2 DEF isConnected, IsConnectedStop, IsConnectedIterated, IsConnectedLoad,
        IsConnectedGetState, IsConnectedPublish, IsConnectedBad, IsConnectedReturn, GotoSub
    <3> QED
      BY <2>2, <3>1, IsConnectedType, GuardsFrame
  <2>3. CASE TurnTo(t)
    <3>1. UNCHANGED <<op, guardVars, stopVars>>
      BY <2>3 DEF TurnTo, RecoveringTest, RecoveringCas, RecoveringRecheck, RecoveringBack,
        RunningCas, RunningClearLost, RunningResetTimer, GiveUpStamp, GiveUpCas,
        GotoSub, LifeFrame
    <3> QED
      BY <2>3, <3>1, TurnToType, GuardsFrame
  <2>4. CASE ConnectDisconnect(t)
    BY <2>4, ConnectType, GuardsConnect
  <2>5. CASE Batch(t)
    BY <2>5, BatchType, GuardsBatch
  <2>6. CASE doWatchdogDecision(t)
    BY <2>6, DecisionType, GuardsDecision
  <2> QED
    BY <1>1, <2>1, <2>2, <2>3, <2>4, <2>5, <2>6 DEF Step
<1>2. ASSUME NEW t \in Threads, SdkCallbacks(t) PROVE Inv'
  <2>1. UNCHANGED <<op, guardVars, stopVars>>
    BY <1>2 DEF SdkCallbacks, StateCallback, SdkSilentChange, InactivityCallback
  <2> QED
    BY <1>2, <2>1, CallbacksType, GuardsFrame
<1>3. ASSUME NEW t \in Callers, Application(t) PROVE Inv'
  <2> USE DEF CallFrame, Idle, AtDec, Threads
  <2>1. CASE \E c \in Commands : CallConnection(t, c) \/ CallBatch(t, c)
    BY <1>3, <2>1, ApplicationType, GuardsMove
    DEF CallConnection, CallBatch, GotoOp, Counted, Exclusive, OpLabels
  <2>2. CASE CallCheck(t) \/ CheckReturns(t) \/ CallPump(t) \/ setGiveUpSignal(t)
    <3>1. UNCHANGED <<op, guardVars, stopVars>>
      BY <2>2 DEF CallCheck, CheckReturns, CallPump, setGiveUpSignal, GotoSub, GotoDec
    <3> QED
      BY <1>3, <3>1, ApplicationType, GuardsFrame
  <2> QED
    BY <1>3, <2>1, <2>2 DEF Application
<1>4. CASE runWatchdog
  <2>1. UNCHANGED <<op, guardVars, stopVars>>
    BY <1>4 DEF runWatchdog, WatchdogLoop, WatchdogIterated, WatchdogDecides,
      WatchdogSkips, WatchdogThrows, WatchdogCatches, WatchdogBackedOff, WatchdogResumes,
      WatchdogProceeds, Unwinds, GotoDec, DecCalls, DecFrame
  <2> QED
    BY <1>4, <2>1, WatchdogType, GuardsFrame
<1>5. CASE Shutdown
  BY <1>5, ShutdownType, GuardsShutdown
<1>6. CASE Tick
  <2>1. TypeOK'
    BY <1>6, BoundsAssumption
    DEF Tick, TypeOK, Unset, sdkVars, cacheVars, stopVars, guardVars, localVars
  <2> QED
    BY <1>6, <2>1, GuardsFrame DEF Tick
<1>7. CASE UNCHANGED vars
  <2>1. TypeOK'
    BY <1>7 DEF vars, TypeOK
  <2> QED
    BY <1>7, <2>1, GuardsFrame DEF vars, guardVars, stopVars
<1> QED
  BY <1>1, <1>2, <1>3, <1>4, <1>5, <1>6, <1>7 DEF Next

\* The invariant of the next theorems.
THEOREM Invariance == Spec => []Inv
BY InitInv, NextInv, PTL DEF Spec

\* Every variable of the Impl and of its threads keeps its type; in particular
\* m_taskCounter never goes below zero.
THEOREM TypeCorrect == Spec => []TypeOK
BY Invariance, PTL DEF Inv

\* connect() and disconnect() are single-flight, for any number of threads.
THEOREM SingleFlightSafe == Spec => []SingleFlight
BY Invariance, PTL DEF Inv

\* After a clean drain no connect, disconnect, read or write is in the SDK.
THEOREM DrainIsQuiet == Spec => []QuietAfterDrain
BY Invariance, PTL DEF Inv

\* m_taskCounter counts the live guards, and each guard is where its scope is.
THEOREM GuardsAreOwned == Spec => []GuardsOwned
BY Invariance, PTL DEF Inv

\* Every write to m_lifeState is a CAS that cannot leave GIVEN_UP.
LEMMA NextFinal ==
  ASSUME [Next]_vars, life = "GIVEN_UP"
  PROVE  life' = "GIVEN_UP"
<1>1. ASSUME NEW t \in Threads, Step(t) PROVE life' = life
  <2>1. CASE TurnTo(t)
    BY <2>1 DEF TurnTo, RecoveringTest, RecoveringCas, RecoveringRecheck,
      RecoveringBack, RunningCas, RunningClearLost, RunningResetTimer,
      GiveUpStamp, GiveUpCas
  <2>2. CASE SdkEnter(t) \/ isConnected(t)
    BY <2>2 DEF SdkEnter, isConnected, IsConnectedStop, IsConnectedIterated,
      IsConnectedLoad, IsConnectedGetState, IsConnectedPublish, IsConnectedBad,
      IsConnectedReturn
  <2>3. CASE ConnectDisconnect(t)
    BY <2>3 DEF ConnectDisconnect, OpEnter, OpStop, OpCas, OpAsyncGood,
      OpAsyncBad, OpAsyncFailed, ConnectPolled, DisconnectPolled, OpPollAgain,
      OpTimeout, ConnectLast, DisconnectLast, OpClosed, OpUnguard, OpLeave
  <2>4. CASE Batch(t)
    BY <2>4 DEF Batch, BatchStop, BatchEnter, BatchCheck, BatchTry,
      BatchAnswered, BatchReadRetry
  <2>5. CASE doWatchdogDecision(t)
    BY <2>5 DEF doWatchdogDecision, DecisionEnter, DecisionHealth, DecisionBranch1,
      DecisionBranch2, DecisionBranch3, DecisionStamp, DecisionTest,
      DecisionIterated, DecisionDisconnected, DecisionIterated2, DecisionClosed,
      DecisionConnected, DecisionRecover, DecisionEnd, DecFrame
  <2> QED
    BY <1>1, <2>1, <2>2, <2>3, <2>4, <2>5 DEF Step
<1>2. ASSUME NEW t \in Threads, SdkCallbacks(t) PROVE life' = life
  BY <1>2 DEF SdkCallbacks, StateCallback, SdkSilentChange, InactivityCallback
<1>3. ASSUME NEW t \in Callers, Application(t) PROVE life' = life
  BY <1>3 DEF Application, CallConnection, CallBatch, CallCheck, CheckReturns,
    CallPump, setGiveUpSignal
<1>4. CASE runWatchdog \/ Shutdown \/ Tick
  BY <1>4 DEF runWatchdog, WatchdogLoop, WatchdogIterated, WatchdogDecides,
    WatchdogSkips, WatchdogThrows, WatchdogCatches, WatchdogBackedOff, WatchdogResumes,
    WatchdogProceeds, Unwinds, DecFrame, Shutdown, signalShutdown,
    joinWatchdog, Drained, DrainTimeout, SdFrame, Tick
<1> QED
  BY <1>1, <1>2, <1>3, <1>4 DEF Next, vars

\* GIVEN_UP is final, for any number of racing threads.
THEOREM GivenUpFinal == Spec => GivenUpIsFinal
<1>1. [Next]_vars => [life = "GIVEN_UP" => life' = "GIVEN_UP"]_vars
  BY NextFinal
<1> QED
  BY <1>1, PTL DEF Spec, GivenUpIsFinal

-----------------------------------------------------------------------------
(* The state cache.                                                        *)

\* The snapshot that SnapshotCache sees of each thread.
Pending == [t \in Threads |-> IF sub[t] = "ic_publish" THEN saw[t] ELSE NoTriple]

\* A step of t that does not touch the cache.
Quiet(t) ==
  /\ UNCHANGED <<sdk, packed, current>>
  /\ \/ UNCHANGED sub
     \/ sub[t] # "ic_publish" /\ \E l \in SubLabels \ {"ic_publish"} : sub' = [sub EXCEPT ![t] = l]
  /\ \A u \in Threads : sub[u] = "ic_publish" => saw'[u] = saw[u]

\* Such a step is a stutter of the cache.
LEMMA QuietStutters ==
  ASSUME TypeOK, NEW t \in Threads, Quiet(t)
  PROVE  UNCHANGED Cache!vars
<1>1. \A u \in Threads : sub'[u] = "ic_publish" <=> sub[u] = "ic_publish"
  BY DEF Quiet, TypeOK
<1>2. Pending' = Pending
  BY <1>1 DEF Quiet, Pending
<1> QED
  BY <1>2 DEF Quiet, Pending, Cache!vars

\* A helper that changes the life state leaves the cache alone.
LEMMA TurnToQuiet ==
  ASSUME TypeOK, NEW t \in Threads, TurnTo(t)
  PROVE  Quiet(t)
<1> USE DEF Quiet, TypeOK, sdkVars, cacheVars, localVars, SubLabels, AtSub, GotoSub, LifeFrame
<1>1. CASE RecoveringTest(t)
  BY <1>1 DEF RecoveringTest
<1>2. CASE RecoveringCas(t)
  BY <1>2 DEF RecoveringCas
<1>3. CASE RecoveringRecheck(t)
  BY <1>3 DEF RecoveringRecheck
<1>4. CASE RecoveringBack(t)
  BY <1>4 DEF RecoveringBack
<1>5. CASE RunningCas(t)
  BY <1>5 DEF RunningCas
<1>6. CASE RunningClearLost(t)
  BY <1>6 DEF RunningClearLost
<1>7. CASE RunningResetTimer(t)
  BY <1>7 DEF RunningResetTimer
<1>8. CASE GiveUpStamp(t)
  BY <1>8 DEF GiveUpStamp
<1>9. CASE GiveUpCas(t)
  BY <1>9 DEF GiveUpCas
<1> QED
  BY <1>1, <1>2, <1>3, <1>4, <1>5, <1>6, <1>7, <1>8, <1>9 DEF TurnTo

\* connect() and disconnect() leaves the cache alone.
LEMMA ConnectDisconnectQuiet ==
  ASSUME TypeOK, NEW t \in Threads, ConnectDisconnect(t)
  PROVE  Quiet(t)
<1> USE DEF Quiet, TypeOK, sdkVars, cacheVars, localVars, SubLabels, AtOp, GotoOp, OpCalls, SdkReturns
<1>1. CASE OpEnter(t)
  BY <1>1 DEF OpEnter
<1>2. CASE OpStop(t)
  BY <1>2 DEF OpStop
<1>3. CASE OpCas(t)
  BY <1>3 DEF OpCas
<1>4. CASE OpAsyncGood(t)
  BY <1>4 DEF OpAsyncGood
<1>5. CASE OpAsyncBad(t)
  BY <1>5 DEF OpAsyncBad
<1>6. CASE OpAsyncFailed(t)
  BY <1>6 DEF OpAsyncFailed
<1>7. CASE ConnectPolled(t)
  BY <1>7 DEF ConnectPolled
<1>8. CASE DisconnectPolled(t)
  BY <1>8 DEF DisconnectPolled
<1>9. CASE OpPollAgain(t)
  BY <1>9 DEF OpPollAgain
<1>10. CASE OpTimeout(t)
  BY <1>10 DEF OpTimeout
<1>11. CASE ConnectLast(t)
  BY <1>11 DEF ConnectLast
<1>12. CASE DisconnectLast(t)
  BY <1>12 DEF DisconnectLast
<1>13. CASE OpClosed(t)
  BY <1>13 DEF OpClosed
<1>14. CASE OpUnguard(t)
  BY <1>14 DEF OpUnguard
<1>15. CASE OpLeave(t)
  BY <1>15 DEF OpLeave
<1> QED
  BY <1>1, <1>2, <1>3, <1>4, <1>5, <1>6, <1>7, <1>8, <1>9, <1>10, <1>11,
     <1>12, <1>13, <1>14, <1>15 DEF ConnectDisconnect

\* A batch call leaves the cache alone.
LEMMA BatchQuiet ==
  ASSUME TypeOK, NEW t \in Threads, Batch(t)
  PROVE  Quiet(t)
<1> USE DEF Quiet, TypeOK, sdkVars, cacheVars, localVars, SubLabels, AtOp, GotoOp, OpCalls, SdkReturns
<1>1. CASE BatchStop(t)
  BY <1>1 DEF BatchStop
<1>2. CASE BatchEnter(t)
  BY <1>2 DEF BatchEnter
<1>3. CASE BatchCheck(t)
  BY <1>3 DEF BatchCheck
<1>4. CASE BatchTry(t)
  BY <1>4 DEF BatchTry
<1>5. CASE BatchAnswered(t)
  BY <1>5 DEF BatchAnswered
<1>6. CASE BatchReadRetry(t)
  BY <1>6 DEF BatchReadRetry
<1> QED
  BY <1>1, <1>2, <1>3, <1>4, <1>5, <1>6 DEF Batch

\* A recovery decision leaves the cache alone.
LEMMA DoWatchdogDecisionQuiet ==
  ASSUME TypeOK, NEW t \in Threads, doWatchdogDecision(t)
  PROVE  Quiet(t)
<1> USE DEF Quiet, TypeOK, sdkVars, cacheVars, localVars, SubLabels, AtDec,
        GotoDec, DecCalls, DecCallsOp, DecFrame, SdkReturns
<1>1. CASE DecisionEnter(t)
  BY <1>1 DEF DecisionEnter
<1>2. CASE DecisionHealth(t)
  BY <1>2 DEF DecisionHealth
<1>3. CASE DecisionBranch1(t)
  BY <1>3 DEF DecisionBranch1
<1>4. CASE DecisionBranch2(t)
  BY <1>4 DEF DecisionBranch2
<1>5. CASE DecisionBranch3(t)
  BY <1>5 DEF DecisionBranch3
<1>6. CASE DecisionStamp(t)
  BY <1>6 DEF DecisionStamp
<1>7. CASE DecisionTest(t)
  BY <1>7 DEF DecisionTest
<1>8. CASE DecisionIterated(t)
  BY <1>8 DEF DecisionIterated
<1>9. CASE DecisionDisconnected(t)
  BY <1>9 DEF DecisionDisconnected
<1>10. CASE DecisionIterated2(t)
  BY <1>10 DEF DecisionIterated2
<1>11. CASE DecisionClosed(t)
  BY <1>11 DEF DecisionClosed
<1>12. CASE DecisionConnected(t)
  BY <1>12 DEF DecisionConnected
<1>13. CASE DecisionRecover(t)
  BY <1>13 DEF DecisionRecover
<1>14. CASE DecisionEnd(t)
  BY <1>14 DEF DecisionEnd
<1> QED
  BY <1>1, <1>2, <1>3, <1>4, <1>5, <1>6, <1>7, <1>8, <1>9, <1>10, <1>11,
     <1>12, <1>13, <1>14 DEF doWatchdogDecision

\* isConnected() loads, asks and publishes as the cache allows.
LEMMA IsConnectedCaches ==
  ASSUME TypeOK, NEW t \in Threads, isConnected(t)
  PROVE  [Cache!Next]_(Cache!vars)
<1>1. CASE IsConnectedStop(t) \/ IsConnectedIterated(t) \/ IsConnectedBad(t) \/ IsConnectedReturn(t)
  <2>1. Quiet(t)
    BY <1>1 DEF Quiet, TypeOK, sdkVars, cacheVars, localVars, SubLabels, AtSub, GotoSub, SdkReturns,
       IsConnectedStop, IsConnectedIterated, IsConnectedBad, IsConnectedReturn
  <2> QED
    BY <2>1, QuietStutters
<1>2. CASE IsConnectedLoad(t)
  <2>1. Pending' = Pending
    BY <1>2 DEF IsConnectedLoad, Pending, TypeOK, AtSub, GotoSub, localVars
  <2>2. Cache!Load(t)
    BY <1>2, <2>1 DEF IsConnectedLoad, Cache!Load, sdkVars, Pending
  <2> QED
    BY <2>2 DEF Cache!Next
<1>3. CASE IsConnectedGetState(t)
  <2>1. Pending' = [Pending EXCEPT ![t] = sdk]
    BY <1>3 DEF IsConnectedGetState, Pending, TypeOK, AtSub, GotoSub
  <2>2. Cache!GetState(t)
    BY <1>3, <2>1 DEF IsConnectedGetState, Cache!GetState, sdkVars, cacheVars, Pending
  <2> QED
    BY <2>2 DEF Cache!Next
<1>4. CASE IsConnectedPublish(t)
  <2>1. Pending' = [Pending EXCEPT ![t] = NoTriple]
    BY <1>4 DEF IsConnectedPublish, Pending, TypeOK, AtSub, GotoSub, localVars
  <2>2. Pending[t] = saw[t] /\ saw[t] # NoTriple
    <3>1. saw[t] \in Triples
      BY SdkAssumption DEF TypeOK
    <3> QED
      BY <1>4, <3>1 DEF IsConnectedPublish, Pending, AtSub, NoTriple, Triples, Statuses
  <2>3. CASE t \in current
    <3>1. Cache!Publish(t)
      BY <1>4, <2>1, <2>2, <2>3 DEF IsConnectedPublish, Cache!Publish, sdkVars, Pending
    <3> QED
      BY <3>1 DEF Cache!Next
  <2>4. CASE t \notin current
    <3>1. Cache!Drop(t)
      BY <1>4, <2>1, <2>4 DEF IsConnectedPublish, Cache!Drop, sdkVars, Pending
    <3> QED
      BY <3>1 DEF Cache!Next
  <2> QED
    BY <2>3, <2>4
<1> QED
  BY <1>1, <1>2, <1>3, <1>4 DEF isConnected

\* The SDK's callbacks are the cache's.
LEMMA CallbacksCache ==
  ASSUME TypeOK, NEW t \in Threads, SdkCallbacks(t)
  PROVE  [Cache!Next]_(Cache!vars)
<1>1. Pending' = Pending
  BY DEF SdkCallbacks, StateCallback, SdkSilentChange, InactivityCallback, Pending, localVars
<1>2. ASSUME NEW s \in SdkStates, StateCallback(t, s) PROVE Cache!Callback(s)
  BY <1>1, <1>2 DEF StateCallback, Cache!Callback, Pending
<1>3. ASSUME NEW s \in SdkStates, SdkSilentChange(t, s) PROVE Cache!Change(s)
  BY <1>1, <1>3 DEF SdkSilentChange, Cache!Change, cacheVars, Pending
<1>4. CASE InactivityCallback(t)
  BY <1>1, <1>4 DEF InactivityCallback, sdkVars, Cache!vars, Pending
<1> QED
  BY <1>2, <1>3, <1>4 DEF SdkCallbacks, Cache!Next

LEMMA NextCaches ==
  ASSUME TypeOK, [Next]_vars
  PROVE  [Cache!Next]_(Cache!vars)
<1>1. ASSUME NEW t \in Threads, Step(t) PROVE [Cache!Next]_(Cache!vars)
  <2>1. CASE SdkEnter(t)
    <3>1. Quiet(t)
      BY <2>1 DEF SdkEnter, Quiet, cacheVars, localVars
    <3> QED
      BY <3>1, QuietStutters
  <2>2. CASE isConnected(t)
    BY <2>2, IsConnectedCaches
  <2>3. CASE TurnTo(t) \/ ConnectDisconnect(t) \/ Batch(t) \/ doWatchdogDecision(t)
    BY <2>3, TurnToQuiet, ConnectDisconnectQuiet, BatchQuiet, DoWatchdogDecisionQuiet, QuietStutters
  <2> QED
    BY <1>1, <2>1, <2>2, <2>3 DEF Step
<1>2. ASSUME NEW t \in Threads, SdkCallbacks(t) PROVE [Cache!Next]_(Cache!vars)
  BY <1>2, CallbacksCache
<1>3. ASSUME NEW t \in Callers, Application(t) PROVE [Cache!Next]_(Cache!vars)
  <2>1. Quiet(t)
    BY <1>3 DEF Application, CallConnection, CallBatch, CallCheck, CheckReturns, CallPump,
       setGiveUpSignal, CallFrame, Idle, AtDec, GotoOp, GotoSub, GotoDec, Quiet, TypeOK,
       sdkVars, cacheVars, SubLabels
  <2>2. t \in Threads
    BY DEF Threads
  <2> QED
    BY <2>1, <2>2, QuietStutters
<1>4. CASE runWatchdog
  <2>1. Quiet(Watchdog)
    BY <1>4 DEF runWatchdog, WatchdogLoop, WatchdogIterated, WatchdogDecides, WatchdogSkips,
       WatchdogThrows, WatchdogCatches, WatchdogBackedOff, WatchdogResumes, WatchdogProceeds,
       Unwinds, DecFrame, AtDec, GotoDec, DecCalls, SdkReturns, Quiet, TypeOK,
       sdkVars, cacheVars, localVars, SubLabels
  <2>2. Watchdog \in Threads
    BY DEF Threads
  <2> QED
    BY <2>1, <2>2, QuietStutters
<1>5. CASE Shutdown \/ Tick \/ UNCHANGED vars
  <2>1. UNCHANGED <<sdk, packed, current, sub, saw>>
    BY <1>5 DEF Shutdown, signalShutdown, joinWatchdog, Drained, DrainTimeout, SdFrame, Tick, vars,
       sdkVars, cacheVars, localVars
  <2> QED
    BY <2>1 DEF Cache!vars
<1> QED
  BY <1>1, <1>2, <1>3, <1>4, <1>5 DEF Next

\* The threads of the client, all together, use the state cache as its
\* abstract specification says.
THEOREM ClientUsesCache == Spec => UsesSnapshotCache
<1>1. Init => Cache!Init
  BY SdkAssumption DEF Init, Cache!Init
<1> QED
  BY <1>1, NextCaches, TypeCorrect, PTL DEF Spec, UsesSnapshotCache, Cache!Spec

-----------------------------------------------------------------------------
(* ClientImpl is an Impl as ImplContract describes it.                     *)

\* The flags are clear until shutdown() sets them, and a watchdog on its way
\* out of the loop does nothing but give up.
ExitInv ==
  /\ sd = "up" => running /\ ~shutdown
  /\ dec[Watchdog] = "w_exit" => op[Watchdog] = "off" /\ sub[Watchdog] \in {"off", "gu_stamp", "gu_cas"}

\* What a step may do to the watchdog's exit.
ExitStep ==
  /\ ExitInv'
  /\ AtDec(Watchdog, "w_exit") => AtDec(Watchdog, "w_exit")'
  /\ ~AtDec(Watchdog, "w_exit") /\ AtDec(Watchdog, "w_exit")' => sd # "up" \/ life' = "GIVEN_UP"

\* Only thread t moves, and not at the watchdog's exit.
Moves(t) ==
  /\ UNCHANGED stopVars
  /\ \A u \in Threads : u # t => sub'[u] = sub[u] /\ op'[u] = op[u] /\ dec'[u] = dec[u]
  /\ t = Watchdog => dec[t] # "w_exit" /\ dec'[t] # "w_exit"

\* Such a step leaves the exit alone.
LEMMA MovesExit ==
  ASSUME ExitInv, NEW t \in Threads, Moves(t)
  PROVE  ExitStep
BY DEF ExitInv, ExitStep, Moves, AtDec, stopVars, Threads

\* isConnected() does not run at the watchdog's exit.
LEMMA IsConnectedExit ==
  ASSUME Inv, ExitInv, NEW t \in Threads, isConnected(t)
  PROVE  ExitStep
<1>1. Moves(t)
  BY DEF Inv, TypeOK, ExitInv, Moves, stopVars, AtSub, GotoSub, isConnected, IsConnectedStop, IsConnectedIterated,
    IsConnectedLoad, IsConnectedGetState, IsConnectedPublish, IsConnectedBad, IsConnectedReturn
<1> QED
  BY <1>1, MovesExit

\* A watchdog that leaves its loop after an exception has given up.
LEMMA TurnToExit ==
  ASSUME Inv, ExitInv, NEW t \in Threads, TurnTo(t)
  PROVE  ExitStep
<1> USE DEF Inv, TypeOK, stopVars, AtSub, GotoSub, LifeFrame
<1>1. CASE RecoveringTest(t) \/ RecoveringCas(t) \/ RecoveringRecheck(t) \/ RecoveringBack(t)
  <2>1. Moves(t)
    BY <1>1 DEF ExitInv, Moves, RecoveringTest, RecoveringCas, RecoveringRecheck, RecoveringBack
  <2> QED
    BY <2>1, MovesExit
<1>2. CASE RunningCas(t) \/ RunningClearLost(t) \/ RunningResetTimer(t)
  <2>1. Moves(t)
    BY <1>2 DEF ExitInv, Moves, RunningCas, RunningClearLost, RunningResetTimer
  <2> QED
    BY <2>1, MovesExit
<1>3. CASE GiveUpStamp(t)
  BY <1>3 DEF GiveUpStamp, ExitInv, ExitStep, AtDec, Threads
<1>4. CASE GiveUpCas(t)
  BY <1>4 DEF GiveUpCas, ExitInv, ExitStep, AtDec, Threads
<1> QED
  BY <1>1, <1>2, <1>3, <1>4 DEF TurnTo

\* Nor do connect(), disconnect() and the batch functions.
LEMMA OpExit ==
  ASSUME Inv, ExitInv, NEW t \in Threads, ConnectDisconnect(t) \/ Batch(t)
  PROVE  ExitStep
<1> USE DEF Inv, TypeOK, ExitInv, Moves, stopVars, AtOp, GotoOp, OpCalls
<1>1. CASE ConnectDisconnect(t)
  <2>1. CASE OpEnter(t) \/ OpStop(t) \/ OpCas(t) \/ OpAsyncGood(t) \/ OpAsyncBad(t) \/ OpAsyncFailed(t)
    <3>1. Moves(t)
      BY <2>1 DEF OpEnter, OpStop, OpCas, OpAsyncGood, OpAsyncBad, OpAsyncFailed
    <3> QED
      BY <3>1, MovesExit
  <2>2. CASE ConnectPolled(t) \/ DisconnectPolled(t) \/ OpPollAgain(t) \/ OpTimeout(t)
    <3>1. Moves(t)
      BY <2>2 DEF ConnectPolled, DisconnectPolled, OpPollAgain, OpTimeout
    <3> QED
      BY <3>1, MovesExit
  <2>3. CASE ConnectLast(t) \/ DisconnectLast(t) \/ OpClosed(t) \/ OpUnguard(t) \/ OpLeave(t)
    <3>1. Moves(t)
      BY <2>3 DEF ConnectLast, DisconnectLast, OpClosed, OpUnguard, OpLeave
    <3> QED
      BY <3>1, MovesExit
  <2> QED
    BY <1>1, <2>1, <2>2, <2>3 DEF ConnectDisconnect
<1>2. CASE Batch(t)
  <2>1. Moves(t)
    BY <1>2 DEF Batch, BatchStop, BatchEnter, BatchCheck, BatchTry, BatchAnswered, BatchReadRetry
  <2> QED
    BY <2>1, MovesExit
<1> QED
  BY <1>1, <1>2

\* A decision goes on or returns to the loop.
LEMMA DecisionExit ==
  ASSUME Inv, ExitInv, NEW t \in Threads, doWatchdogDecision(t)
  PROVE  ExitStep
<1> USE DEF Inv, TypeOK, Moves, stopVars, AtDec, GotoDec, DecCalls, DecCallsOp, DecFrame
<1>1. CASE DecisionEnter(t) \/ DecisionHealth(t) \/ DecisionBranch1(t) \/ DecisionBranch2(t) \/ DecisionBranch3(t)
  <2>1. Moves(t)
    BY <1>1 DEF DecisionEnter, DecisionHealth, DecisionBranch1, DecisionBranch2, DecisionBranch3
  <2> QED
    BY <2>1, MovesExit
<1>2. CASE DecisionStamp(t) \/ DecisionTest(t) \/ DecisionIterated(t) \/ DecisionDisconnected(t)
  <2>1. Moves(t)
    BY <1>2 DEF DecisionStamp, DecisionTest, DecisionIterated, DecisionDisconnected
  <2> QED
    BY <2>1, MovesExit
<1>3. CASE \/ DecisionIterated2(t) \/ DecisionClosed(t) \/ DecisionConnected(t) \/ DecisionRecover(t)
           \/ DecisionEnd(t)
  <2>1. Moves(t)
    BY <1>3 DEF DecisionIterated2, DecisionClosed, DecisionConnected, DecisionRecover, DecisionEnd
  <2> QED
    BY <2>1, MovesExit
<1> QED
  BY <1>1, <1>2, <1>3 DEF doWatchdogDecision

\* The loop ends for a stop signal, or on the way to a GIVEN_UP.
LEMMA WatchdogExit ==
  ASSUME Inv, ExitInv, runWatchdog
  PROVE  ExitStep
<1> USE ThreadsAssumption DEF Inv, TypeOK, Threads, stopVars, AtDec, GotoDec, DecCalls, DecFrame
<1>1. CASE WatchdogLoop
  BY <1>1 DEF WatchdogLoop, ExitInv, ExitStep, getEffectiveStopSignal
<1>2. CASE WatchdogIterated \/ WatchdogBackedOff \/ WatchdogDecides \/ WatchdogSkips \/ WatchdogResumes
  <2>1. Moves(Watchdog)
    BY <1>2 DEF Moves, WatchdogIterated, WatchdogBackedOff, WatchdogDecides, WatchdogSkips, WatchdogResumes
  <2> QED
    BY <2>1, MovesExit
<1>3. CASE WatchdogThrows
  BY <1>3 DEF WatchdogThrows, Unwinds, ThrowPoints, ExitInv, ExitStep
<1>4. CASE WatchdogCatches
  <2>1. Moves(Watchdog)
    BY <1>4 DEF Moves, WatchdogCatches, Unwinds, ThrowPoints
  <2> QED
    BY <2>1, MovesExit
<1> QED
  BY <1>1, <1>2, <1>3, <1>4 DEF runWatchdog, WatchdogProceeds

\* The application's threads are not the watchdog.
LEMMA ApplicationExit ==
  ASSUME Inv, ExitInv, NEW t \in Callers, Application(t)
  PROVE  ExitStep
<1>1. t \in Threads /\ t # Watchdog
  BY ThreadsAssumption DEF Threads
<1>2. Moves(t)
  BY <1>1 DEF Inv, TypeOK, Moves, stopVars, GotoOp, GotoSub, GotoDec, CallFrame, Application, CallConnection,
    CallBatch, CallCheck, CheckReturns, CallPump, setGiveUpSignal
<1> QED
  BY <1>1, <1>2, MovesExit

\* Every step keeps ExitInv and is a step of the contract, or none.
LEMMA NextContract ==
  ASSUME Inv, ExitInv, [Next]_vars
  PROVE  ExitInv' /\ [Contract!Next]_(Contract!vars)
<1>1. CASE Shutdown
  <2>1. UNCHANGED <<life, sub, op, dec>>
    BY <1>1 DEF Shutdown, signalShutdown, joinWatchdog, Drained, DrainTimeout, SdFrame
  <2>2. UNCHANGED AtDec(Watchdog, "w_exit")
    BY <2>1 DEF AtDec
  <2>3. ExitInv'
    BY <1>1, <2>1 DEF ExitInv, Shutdown, signalShutdown, joinWatchdog, Drained, DrainTimeout
  <2>4. CASE signalShutdown
    <3>1. Contract!Signal
      BY <2>1, <2>2, <2>4 DEF signalShutdown, Contract!Signal
    <3> QED
      BY <2>3, <3>1 DEF Contract!Next
  <2>5. CASE joinWatchdog
    <3>1. Contract!Join
      BY <2>1, <2>2, <2>5 DEF joinWatchdog, Contract!Join
    <3> QED
      BY <2>3, <3>1 DEF Contract!Next
  <2>6. CASE Drained \/ DrainTimeout
    <3>1. UNCHANGED Contract!vars
      BY <2>1, <2>2, <2>6 DEF Drained, DrainTimeout, Contract!vars
    <3> QED
      BY <2>3, <3>1
  <2> QED
    BY <1>1, <2>4, <2>5, <2>6 DEF Shutdown
<1>2. ASSUME ExitStep, UNCHANGED sd, life = "GIVEN_UP" => life' = "GIVEN_UP"
      PROVE  ExitInv' /\ [Contract!Next]_(Contract!vars)
  <2>1. CASE AtDec(Watchdog, "w_exit")' <=> AtDec(Watchdog, "w_exit")
    <3>1. CASE (life' = "GIVEN_UP") = (life = "GIVEN_UP")
      BY <1>2, <2>1, <3>1 DEF ExitStep, Contract!vars
    <3>2. CASE life' = "GIVEN_UP"
      BY <1>2, <2>1, <3>2 DEF ExitStep, Contract!Next, Contract!GiveUp
    <3> QED
      BY <1>2, <3>1, <3>2
  <2>2. CASE ~AtDec(Watchdog, "w_exit") /\ AtDec(Watchdog, "w_exit")'
    <3>1. sd # "up" \/ life' = "GIVEN_UP"
      BY <1>2, <2>2 DEF ExitStep
    <3>2. Contract!Exit
      BY <1>2, <2>2, <3>1 DEF Contract!Exit
    <3> QED
      BY <1>2, <3>2 DEF ExitStep, Contract!Next
  <2> QED
    BY <1>2, <2>1, <2>2 DEF ExitStep
<1>3. life = "GIVEN_UP" => life' = "GIVEN_UP"
  BY NextFinal
<1>4. ASSUME NEW t \in Threads, Step(t) \/ SdkCallbacks(t)
      PROVE  ExitStep /\ UNCHANGED sd
  <2>1. CASE SdkEnter(t) \/ SdkCallbacks(t)
    BY <2>1 DEF SdkEnter, SdkCallbacks, StateCallback, SdkSilentChange, InactivityCallback, stopVars, ExitInv,
      ExitStep, AtDec
  <2>2. CASE isConnected(t) \/ TurnTo(t) \/ ConnectDisconnect(t) \/ Batch(t) \/ doWatchdogDecision(t)
    <3>1. ExitStep
      BY <2>2, IsConnectedExit, TurnToExit, OpExit, DecisionExit
    <3>2. CASE isConnected(t) \/ TurnTo(t)
      BY <3>1, <3>2 DEF stopVars, isConnected, IsConnectedStop, IsConnectedIterated, IsConnectedLoad,
        IsConnectedGetState, IsConnectedPublish, IsConnectedBad, IsConnectedReturn, LifeFrame, TurnTo,
        RecoveringTest, RecoveringCas, RecoveringRecheck, RecoveringBack, RunningCas, RunningClearLost,
        RunningResetTimer, GiveUpStamp, GiveUpCas
    <3>3. CASE ConnectDisconnect(t) \/ Batch(t)
      BY <3>1, <3>3 DEF stopVars, ConnectDisconnect, OpEnter, OpStop, OpCas, OpAsyncGood, OpAsyncBad, OpAsyncFailed,
        ConnectPolled, DisconnectPolled, OpPollAgain, OpTimeout, ConnectLast, DisconnectLast, OpClosed,
        OpUnguard, OpLeave, Batch, BatchStop, BatchEnter, BatchCheck, BatchTry, BatchAnswered, BatchReadRetry
    <3>4. CASE doWatchdogDecision(t)
      BY <3>1, <3>4 DEF stopVars, DecFrame, doWatchdogDecision, DecisionEnter, DecisionHealth, DecisionBranch1,
        DecisionBranch2, DecisionBranch3, DecisionStamp, DecisionTest, DecisionIterated, DecisionDisconnected,
        DecisionIterated2, DecisionClosed, DecisionConnected, DecisionRecover, DecisionEnd
    <3> QED
      BY <2>2, <3>2, <3>3, <3>4
  <2> QED
    BY <1>4, <2>1, <2>2 DEF Step
<1>5. ASSUME NEW t \in Callers, Application(t)
      PROVE  ExitStep /\ UNCHANGED sd
  BY <1>5, ApplicationExit DEF stopVars, CallFrame, Application, CallConnection, CallBatch, CallCheck, CheckReturns,
    CallPump, setGiveUpSignal
<1>6. CASE runWatchdog
  <2>1. UNCHANGED sd
    BY <1>6 DEF stopVars, DecFrame, runWatchdog, WatchdogLoop, WatchdogIterated, WatchdogDecides, WatchdogSkips,
      WatchdogThrows, WatchdogCatches, WatchdogBackedOff, WatchdogResumes, WatchdogProceeds, Unwinds
  <2> QED
    BY <1>2, <1>3, <1>6, <2>1, WatchdogExit
<1>7. CASE Tick \/ UNCHANGED vars
  <2>1. ExitStep /\ UNCHANGED sd
    BY <1>7 DEF Tick, vars, stopVars, ExitInv, ExitStep, AtDec
  <2> QED
    BY <1>2, <1>3, <2>1
<1> QED
  BY <1>1, <1>2, <1>3, <1>4, <1>5, <1>6, <1>7 DEF Next

\* At first the watchdog runs.
LEMMA InitContract == Init => ExitInv /\ Contract!Init
BY DEF Init, Threads, ExitInv, Contract!Init, AtDec

\* An Impl keeps its side of ImplContract, whatever its other threads do: the
\* watchdog does not leave its loop without a reason, a GIVEN_UP stays, and
\* shutdown() waits for the watchdog before it drains.
THEOREM ImplKeepsContract == Spec => KeepsImplContract
<1>1. Inv /\ ExitInv /\ [Next]_vars => ExitInv' /\ [Contract!Next]_(Contract!vars)
  BY NextContract
<1> QED
  BY <1>1, InitContract, Invariance, PTL DEF Spec, KeepsImplContract, Contract!Spec
=============================================================================
