------------------------ MODULE ClientLifecycleProofs ------------------------
(***************************************************************************)
(* What holds of the facade for any number of worker threads and Impls:    *)
(* the counters of RecreateSync are exact (SyncOwned), and therefore the   *)
(* destructor frees nothing that another call still uses.                  *)
(***************************************************************************)
EXTENDS ClientLifecycle, FiniteSetTheorems, TLAPS

Inv == TypeOK /\ SyncOwned

Leases == {t \in Threads : Leased(t)}

-----------------------------------------------------------------------------
\* The threads, and so the leases, are finitely many.
LEMMA LeasesFinite ==
  IsFiniteSet(Threads) /\ IsFiniteSet(Leases)
<1>1. IsFiniteSet(Threads)
  BY PartiesAssumption, FS_AddElement DEF Threads
<1> QED
  BY <1>1, FS_Subset DEF Leases

\* A thread about to release its lease is counted in m_inFlight.
LEMMA LeaseCounted ==
  ASSUME TypeOK, LeasesCounted, NEW t \in Threads, Leased(t)
  PROVE  inFlight - 1 \in Nat
<1>1. t \in Leases
  BY DEF Leases
<1>2. Cardinality(Leases) # 0
  BY <1>1, LeasesFinite, FS_EmptySet
<1> QED
  BY <1>2 DEF LeasesCounted, TypeOK, Leases

\* ~Impl keeps the type of the clients.
LEMMA ReapType ==
  ASSUME TypeOK, Reap
  PROVE  client' \in [Impls -> {"none", "live", "deleted"}]
BY DEF TypeOK, Reap

\* The owner's steps keep the types.
LEMMA OwnerType ==
  ASSUME TypeOK, Create \/ DestroyBegin \/ Destroy
  PROVE  TypeOK'
<1> USE DEF TypeOK, Threads, Calls, Labels, syncVars, implVars, At, Goto, Enter, Return
<1>1. CASE CreateNew
  BY <1>1 DEF CreateNew
<1>2. CASE CreateStage
  BY <1>2 DEF CreateStage
<1>3. CASE CreateWatch
  BY <1>3 DEF CreateWatch
<1>4. CASE DestroyBegin
  BY <1>4 DEF DestroyBegin
<1>5. CASE DestroyWait
  BY <1>5 DEF DestroyWait
<1>6. CASE DestroyDone
  BY <1>6 DEF DestroyDone
<1> QED
  BY <1>1, <1>2, <1>3, <1>4, <1>5, <1>6 DEF Create, Destroy

\* A step inside a call keeps the types.
LEMMA StepType ==
  ASSUME TypeOK, LeasesCounted, NEW t \in Threads, Step(t)
  PROVE  TypeOK'
<1> USE DEF TypeOK, Threads, Calls, Labels, syncVars, implVars, At, Goto, Enter, Return
<1>1. CASE ApiSnap(t)
  BY <1>1 DEF ApiSnap
<1>2. CASE ApiUse(t)
  BY <1>2 DEF ApiUse
<1>3. CASE ApiUnlease(t)
  BY <1>3, LeaseCounted DEF ApiUnlease, Leased
<1>4. CASE ApiDrop(t)
  BY <1>4, ReapType DEF ApiDrop
<1>5. CASE ImplSignal(t)
  BY <1>5 DEF ImplSignal
<1>6. CASE ImplJoin(t)
  BY <1>6 DEF ImplJoin
<1>7. CASE ImplRelease(t)
  BY <1>7, ReapType DEF ImplRelease
<1>8. CASE TakeImpl(t)
  BY <1>8 DEF TakeImpl
<1>9. CASE ShutdownDone(t)
  BY <1>9 DEF ShutdownDone
<1>10. CASE RecreateDrain(t)
  BY <1>10 DEF RecreateDrain, RecreateFrame
<1>11. CASE RecreateLife(t)
  BY <1>11 DEF RecreateLife, RecreateFrame
<1>12. CASE RecreateNew(t)
  BY <1>12 DEF RecreateNew, RecreateFrame
<1>13. CASE RecreateStage(t)
  BY <1>13 DEF RecreateStage, RecreateFrame
<1>14. CASE RecreateWatch(t)
  BY <1>14 DEF RecreateWatch, RecreateFrame
<1>15. CASE RecreateCheck(t)
  BY <1>15 DEF RecreateCheck, RecreateFrame
<1>16. CASE RecreateSwap(t)
  BY <1>16 DEF RecreateSwap, RecreateFrame
<1>17. CASE RecreateReset(t)
  BY <1>17 DEF RecreateReset, RecreateFrame
<1>18. CASE RecreateTail(t)
  BY <1>18, ReapType DEF RecreateTail, RecreateFrame
<1> QED
  BY <1>1, <1>2, <1>3, <1>4, <1>5, <1>6, <1>7, <1>8, <1>9, <1>10, <1>11, <1>12, <1>13, <1>14, <1>15, <1>16, <1>17, <1>18 DEF Step, Api, ImplShutdown, Recreate

\* Entering a call keeps the types.
LEMMA BeginType ==
  ASSUME TypeOK, NEW t \in Workers, Begin(t)
  PROVE  TypeOK'
<1> USE DEF TypeOK, Threads, Calls, Labels, syncVars, implVars, At, Goto, Enter, Return
<1>1. CASE ApiBegin(t)
  BY <1>1 DEF ApiBegin
<1>2. CASE ShutdownBegin(t)
  BY <1>2 DEF ShutdownBegin
<1>3. CASE RecreateBegin(t)
  BY <1>3 DEF RecreateBegin, RecreateFrame
<1> QED
  BY <1>1, <1>2, <1>3 DEF Begin

\* A step of a watchdog thread keeps the types.
LEMMA WatchdogType ==
  ASSUME TypeOK, NEW i \in Impls, WatchdogStarts(i) \/ WatchdogGivesUp(i) \/ WatchdogExits(i)
  PROVE  TypeOK'
<1> USE DEF TypeOK, Threads, Calls, Labels, syncVars, implVars, At, Goto, Enter, Return
<1>1. CASE WatchdogStarts(i)
  BY <1>1 DEF WatchdogStarts
<1>2. CASE WatchdogGivesUp(i)
  BY <1>2 DEF WatchdogGivesUp
<1>3. CASE WatchdogExits(i)
  BY <1>3, ReapType DEF WatchdogExits
<1> QED
  BY <1>1, <1>2, <1>3

-----------------------------------------------------------------------------
\* A step that moves no thread and leaves the counters alone keeps SyncOwned.
LEMMA SyncFrame ==
  ASSUME TypeOK, SyncOwned, \A i \in Impls : givenUp[i] => givenUp'[i],
         UNCHANGED <<obj, recreating, terminated, inFlight, shutdownInFlight, pImpl, call, pc>>
  PROVE  SyncOwned'
BY DEF SyncOwned, FrameShape, LeasesCounted, OneRecreation, OneShutdown, RecreationQuiet, OwnerPhases,
  At, Leased, Recreates

\* The owner's steps keep SyncOwned.
LEMMA OwnerSync ==
  ASSUME TypeOK, SyncOwned, Create \/ DestroyBegin \/ Destroy
  PROVE  SyncOwned'
<1> USE PartiesAssumption DEF TypeOK, Threads, syncVars, implVars, At, Goto, Enter, Return, SyncOwned
<1>1. CASE CreateNew
  <2>1. FrameShape'
    BY <1>1 DEF CreateNew, FrameShape
  <2>2. LeasesCounted'
    <3>1. Leases' = Leases
      BY <1>1 DEF CreateNew, Leases, Leased, FrameShape
    <3> QED
      BY <3>1, <1>1 DEF CreateNew, LeasesCounted, Leases
  <2>3. OneRecreation'
    BY <1>1 DEF CreateNew, OneRecreation, Recreates, FrameShape
  <2>4. OneShutdown'
    BY <1>1 DEF CreateNew, OneShutdown, FrameShape
  <2>5. OwnerPhases'
    BY <1>1 DEF CreateNew, OwnerPhases, FrameShape, OneRecreation, OneShutdown, Recreates
  <2>6. RecreationQuiet'
    BY <1>1 DEF CreateNew, RecreationQuiet, Drained, Chosen, OwnerPhases, OneRecreation, OneShutdown,
      Recreates, FrameShape
  <2> QED
    BY <2>1, <2>2, <2>3, <2>4, <2>5, <2>6
<1>2. CASE CreateStage
  <2>1. FrameShape'
    BY <1>2 DEF CreateStage, FrameShape
  <2>2. LeasesCounted'
    <3>1. Leases' = Leases
      BY <1>2 DEF CreateStage, Leases, Leased, FrameShape
    <3> QED
      BY <3>1, <1>2 DEF CreateStage, LeasesCounted, Leases
  <2>3. OneRecreation'
    BY <1>2 DEF CreateStage, OneRecreation, Recreates, FrameShape
  <2>4. OneShutdown'
    BY <1>2 DEF CreateStage, OneShutdown, FrameShape
  <2>5. OwnerPhases'
    BY <1>2 DEF CreateStage, OwnerPhases, FrameShape, OneRecreation, OneShutdown, Recreates
  <2>6. RecreationQuiet'
    BY <1>2 DEF CreateStage, RecreationQuiet, Drained, Chosen, OwnerPhases, OneRecreation, OneShutdown,
      Recreates, FrameShape
  <2> QED
    BY <2>1, <2>2, <2>3, <2>4, <2>5, <2>6
<1>3. CASE CreateWatch
  <2>1. FrameShape'
    BY <1>3 DEF CreateWatch, FrameShape
  <2>2. LeasesCounted'
    <3>1. Leases' = Leases
      BY <1>3 DEF CreateWatch, Leases, Leased, FrameShape
    <3> QED
      BY <3>1, <1>3 DEF CreateWatch, LeasesCounted, Leases
  <2>3. OneRecreation'
    BY <1>3 DEF CreateWatch, OneRecreation, Recreates, FrameShape
  <2>4. OneShutdown'
    BY <1>3 DEF CreateWatch, OneShutdown, FrameShape
  <2>5. OwnerPhases'
    BY <1>3 DEF CreateWatch, OwnerPhases, FrameShape, OneRecreation, OneShutdown, Recreates
  <2>6. RecreationQuiet'
    BY <1>3 DEF CreateWatch, RecreationQuiet, Drained, Chosen, OwnerPhases, OneRecreation, OneShutdown,
      Recreates, FrameShape
  <2> QED
    BY <2>1, <2>2, <2>3, <2>4, <2>5, <2>6
<1>4. CASE DestroyBegin
  <2>1. FrameShape'
    BY <1>4 DEF DestroyBegin, FrameShape
  <2>2. LeasesCounted'
    <3>1. Leases' = Leases
      BY <1>4 DEF DestroyBegin, Leases, Leased, FrameShape
    <3> QED
      BY <3>1, <1>4 DEF DestroyBegin, LeasesCounted, Leases
  <2>3. OneRecreation'
    BY <1>4 DEF DestroyBegin, OneRecreation, Recreates, FrameShape
  <2>4. OneShutdown'
    BY <1>4 DEF DestroyBegin, OneShutdown, FrameShape
  <2>5. OwnerPhases'
    BY <1>4 DEF DestroyBegin, OwnerPhases, FrameShape, OneRecreation, OneShutdown, Recreates
  <2>6. RecreationQuiet'
    BY <1>4 DEF DestroyBegin, RecreationQuiet, Drained, Chosen, OwnerPhases, OneRecreation, OneShutdown,
      Recreates, FrameShape
  <2> QED
    BY <2>1, <2>2, <2>3, <2>4, <2>5, <2>6
<1>5. CASE DestroyWait
  <2>1. FrameShape'
    BY <1>5 DEF DestroyWait, FrameShape
  <2>2. LeasesCounted'
    <3>1. Leases' = Leases
      BY <1>5 DEF DestroyWait, Leases, Leased, FrameShape
    <3> QED
      BY <3>1, <1>5 DEF DestroyWait, LeasesCounted, Leases
  <2>3. OneRecreation'
    BY <1>5 DEF DestroyWait, OneRecreation, Recreates, FrameShape
  <2>4. OneShutdown'
    BY <1>5 DEF DestroyWait, OneShutdown, FrameShape
  <2>5. OwnerPhases'
    BY <1>5 DEF DestroyWait, OwnerPhases, FrameShape, OneRecreation, OneShutdown, Recreates
  <2>6. RecreationQuiet'
    BY <1>5 DEF DestroyWait, RecreationQuiet, Drained, Chosen, OwnerPhases, OneRecreation, OneShutdown,
      Recreates, FrameShape
  <2> QED
    BY <2>1, <2>2, <2>3, <2>4, <2>5, <2>6
<1>6. CASE DestroyDone
  <2>1. FrameShape'
    BY <1>6 DEF DestroyDone, FrameShape
  <2>2. LeasesCounted'
    <3>1. Leases' = Leases
      BY <1>6 DEF DestroyDone, Leases, Leased, FrameShape
    <3> QED
      BY <3>1, <1>6 DEF DestroyDone, LeasesCounted, Leases
  <2>3. OneRecreation'
    BY <1>6 DEF DestroyDone, OneRecreation, Recreates, FrameShape
  <2>4. OneShutdown'
    BY <1>6 DEF DestroyDone, OneShutdown, FrameShape
  <2>5. OwnerPhases'
    BY <1>6 DEF DestroyDone, OwnerPhases, FrameShape, OneRecreation, OneShutdown, Recreates
  <2>6. RecreationQuiet'
    BY <1>6 DEF DestroyDone, RecreationQuiet, Drained, Chosen, OwnerPhases, OneRecreation, OneShutdown,
      Recreates, FrameShape
  <2> QED
    BY <2>1, <2>2, <2>3, <2>4, <2>5, <2>6
<1> QED
  BY <1>1, <1>2, <1>3, <1>4, <1>5, <1>6 DEF Create, Destroy

\* A step inside a call keeps SyncOwned.
LEMMA StepSync ==
  ASSUME TypeOK, SyncOwned, NEW t \in Threads, Step(t)
  PROVE  SyncOwned'
<1> USE PartiesAssumption DEF TypeOK, Threads, syncVars, implVars, At, Goto, Enter, Return, SyncOwned
<1>1. CASE ApiSnap(t)
  <2>1. FrameShape'
    BY <1>1 DEF ApiSnap, FrameShape
  <2>2. LeasesCounted'
    <3>1. Leases' = Leases
      BY <1>1 DEF ApiSnap, Leases, Leased, FrameShape
    <3> QED
      BY <3>1, <1>1 DEF ApiSnap, LeasesCounted, Leases
  <2>3. OneRecreation'
    BY <1>1 DEF ApiSnap, OneRecreation, Recreates, FrameShape
  <2>4. OneShutdown'
    BY <1>1 DEF ApiSnap, OneShutdown, FrameShape
  <2>5. OwnerPhases'
    BY <1>1 DEF ApiSnap, OwnerPhases, FrameShape, OneRecreation, OneShutdown, Recreates
  <2>6. RecreationQuiet'
    BY <1>1 DEF ApiSnap, RecreationQuiet, Drained, Chosen, OwnerPhases, OneRecreation, OneShutdown,
      Recreates, FrameShape
  <2> QED
    BY <2>1, <2>2, <2>3, <2>4, <2>5, <2>6
<1>2. CASE ApiUse(t)
  <2>1. FrameShape'
    BY <1>2 DEF ApiUse, FrameShape
  <2>2. LeasesCounted'
    <3>1. Leases' = Leases
      BY <1>2 DEF ApiUse, Leases, Leased, FrameShape
    <3> QED
      BY <3>1, <1>2 DEF ApiUse, LeasesCounted, Leases
  <2>3. OneRecreation'
    BY <1>2 DEF ApiUse, OneRecreation, Recreates, FrameShape
  <2>4. OneShutdown'
    BY <1>2 DEF ApiUse, OneShutdown, FrameShape
  <2>5. OwnerPhases'
    BY <1>2 DEF ApiUse, OwnerPhases, FrameShape, OneRecreation, OneShutdown, Recreates
  <2>6. RecreationQuiet'
    BY <1>2 DEF ApiUse, RecreationQuiet, Drained, Chosen, OwnerPhases, OneRecreation, OneShutdown,
      Recreates, FrameShape
  <2> QED
    BY <2>1, <2>2, <2>3, <2>4, <2>5, <2>6
<1>3. CASE ApiUnlease(t)
  <2>1. FrameShape'
    BY <1>3 DEF ApiUnlease, FrameShape
  <2>2. LeasesCounted'
    <3>1. Leases' = Leases \ {t} /\ t \in Leases
      BY <1>3 DEF ApiUnlease, Leases, Leased, FrameShape
    <3>2. Cardinality(Leases') = Cardinality(Leases) - 1
      BY <3>1, LeasesFinite, FS_RemoveElement
    <3> QED
      BY <3>2, <1>3 DEF ApiUnlease, LeasesCounted, Leases
  <2>3. OneRecreation'
    BY <1>3 DEF ApiUnlease, OneRecreation, Recreates, FrameShape
  <2>4. OneShutdown'
    BY <1>3 DEF ApiUnlease, OneShutdown, FrameShape
  <2>5. OwnerPhases'
    BY <1>3 DEF ApiUnlease, OwnerPhases, FrameShape, OneRecreation, OneShutdown, Recreates
  <2>6. RecreationQuiet'
    <3>1. inFlight # 0
      BY <1>3, LeaseCounted DEF ApiUnlease, Leased
    <3> QED
      BY <3>1, <1>3 DEF ApiUnlease, RecreationQuiet, Drained, Chosen, Recreates, FrameShape
  <2> QED
    BY <2>1, <2>2, <2>3, <2>4, <2>5, <2>6
<1>4. CASE ApiDrop(t)
  <2>1. FrameShape'
    BY <1>4 DEF ApiDrop, FrameShape
  <2>2. LeasesCounted'
    <3>1. Leases' = Leases
      BY <1>4 DEF ApiDrop, Leases, Leased, FrameShape
    <3> QED
      BY <3>1, <1>4 DEF ApiDrop, LeasesCounted, Leases
  <2>3. OneRecreation'
    BY <1>4 DEF ApiDrop, OneRecreation, Recreates, FrameShape
  <2>4. OneShutdown'
    BY <1>4 DEF ApiDrop, OneShutdown, FrameShape
  <2>5. OwnerPhases'
    BY <1>4 DEF ApiDrop, OwnerPhases, FrameShape, OneRecreation, OneShutdown, Recreates
  <2>6. RecreationQuiet'
    BY <1>4 DEF ApiDrop, RecreationQuiet, Drained, Chosen, OwnerPhases, OneRecreation, OneShutdown,
      Recreates, FrameShape
  <2> QED
    BY <2>1, <2>2, <2>3, <2>4, <2>5, <2>6
<1>5. CASE ImplSignal(t)
  <2>1. FrameShape'
    BY <1>5 DEF ImplSignal, FrameShape
  <2>2. LeasesCounted'
    <3>1. Leases' = Leases
      BY <1>5 DEF ImplSignal, Leases, Leased, FrameShape
    <3> QED
      BY <3>1, <1>5 DEF ImplSignal, LeasesCounted, Leases
  <2>3. OneRecreation'
    BY <1>5 DEF ImplSignal, OneRecreation, Recreates, FrameShape
  <2>4. OneShutdown'
    BY <1>5 DEF ImplSignal, OneShutdown, FrameShape
  <2>5. OwnerPhases'
    BY <1>5 DEF ImplSignal, OwnerPhases, FrameShape, OneRecreation, OneShutdown, Recreates
  <2>6. RecreationQuiet'
    BY <1>5 DEF ImplSignal, RecreationQuiet, Drained, Chosen, OwnerPhases, OneRecreation, OneShutdown,
      Recreates, FrameShape
  <2> QED
    BY <2>1, <2>2, <2>3, <2>4, <2>5, <2>6
<1>6. CASE ImplJoin(t)
  <2>1. FrameShape'
    BY <1>6 DEF ImplJoin, FrameShape
  <2>2. LeasesCounted'
    <3>1. Leases' = Leases
      BY <1>6 DEF ImplJoin, Leases, Leased, FrameShape
    <3> QED
      BY <3>1, <1>6 DEF ImplJoin, LeasesCounted, Leases
  <2>3. OneRecreation'
    BY <1>6 DEF ImplJoin, OneRecreation, Recreates, FrameShape
  <2>4. OneShutdown'
    BY <1>6 DEF ImplJoin, OneShutdown, FrameShape
  <2>5. OwnerPhases'
    BY <1>6 DEF ImplJoin, OwnerPhases, FrameShape, OneRecreation, OneShutdown, Recreates
  <2>6. RecreationQuiet'
    BY <1>6 DEF ImplJoin, RecreationQuiet, Drained, Chosen, OwnerPhases, OneRecreation, OneShutdown,
      Recreates, FrameShape
  <2> QED
    BY <2>1, <2>2, <2>3, <2>4, <2>5, <2>6
<1>7. CASE ImplRelease(t)
  <2>1. FrameShape'
    BY <1>7 DEF ImplRelease, FrameShape
  <2>2. LeasesCounted'
    <3>1. Leases' = Leases
      BY <1>7 DEF ImplRelease, Leases, Leased, FrameShape
    <3> QED
      BY <3>1, <1>7 DEF ImplRelease, LeasesCounted, Leases
  <2>3. OneRecreation'
    BY <1>7 DEF ImplRelease, OneRecreation, Recreates, FrameShape
  <2>4. OneShutdown'
    BY <1>7 DEF ImplRelease, OneShutdown, FrameShape
  <2>5. OwnerPhases'
    BY <1>7 DEF ImplRelease, OwnerPhases, FrameShape, OneRecreation, OneShutdown, Recreates
  <2>6. RecreationQuiet'
    BY <1>7 DEF ImplRelease, RecreationQuiet, Drained, Chosen, OwnerPhases, OneRecreation, OneShutdown,
      Recreates, FrameShape
  <2> QED
    BY <2>1, <2>2, <2>3, <2>4, <2>5, <2>6
<1>8. CASE TakeImpl(t)
  <2>1. FrameShape'
    BY <1>8 DEF TakeImpl, FrameShape
  <2>2. LeasesCounted'
    <3>1. Leases' = Leases
      BY <1>8 DEF TakeImpl, Leases, Leased, FrameShape
    <3> QED
      BY <3>1, <1>8 DEF TakeImpl, LeasesCounted, Leases
  <2>3. OneRecreation'
    BY <1>8 DEF TakeImpl, OneRecreation, Recreates, FrameShape
  <2>4. OneShutdown'
    BY <1>8 DEF TakeImpl, OneShutdown, FrameShape
  <2>5. OwnerPhases'
    BY <1>8 DEF TakeImpl, OwnerPhases, FrameShape, OneRecreation, OneShutdown, Recreates
  <2>6. RecreationQuiet'
    BY <1>8 DEF TakeImpl, RecreationQuiet, Drained, Chosen, OwnerPhases, OneRecreation, OneShutdown,
      Recreates, FrameShape
  <2> QED
    BY <2>1, <2>2, <2>3, <2>4, <2>5, <2>6
<1>9. CASE ShutdownDone(t)
  <2>1. FrameShape'
    BY <1>9 DEF ShutdownDone, FrameShape
  <2>2. LeasesCounted'
    <3>1. Leases' = Leases
      BY <1>9 DEF ShutdownDone, Leases, Leased, FrameShape
    <3> QED
      BY <3>1, <1>9 DEF ShutdownDone, LeasesCounted, Leases
  <2>3. OneRecreation'
    BY <1>9 DEF ShutdownDone, OneRecreation, Recreates, FrameShape
  <2>4. OneShutdown'
    BY <1>9 DEF ShutdownDone, OneShutdown, FrameShape
  <2>5. OwnerPhases'
    BY <1>9 DEF ShutdownDone, OwnerPhases, FrameShape, OneRecreation, OneShutdown, Recreates
  <2>6. RecreationQuiet'
    BY <1>9 DEF ShutdownDone, RecreationQuiet, Drained, Chosen, OwnerPhases, OneRecreation, OneShutdown,
      Recreates, FrameShape
  <2> QED
    BY <2>1, <2>2, <2>3, <2>4, <2>5, <2>6
<1>10. CASE RecreateDrain(t)
  <2>1. FrameShape'
    BY <1>10 DEF RecreateDrain, RecreateFrame, FrameShape
  <2>2. LeasesCounted'
    <3>1. Leases' = Leases
      BY <1>10 DEF RecreateDrain, RecreateFrame, Leases, Leased, FrameShape
    <3> QED
      BY <3>1, <1>10 DEF RecreateDrain, RecreateFrame, LeasesCounted, Leases
  <2>3. OneRecreation'
    BY <1>10 DEF RecreateDrain, RecreateFrame, OneRecreation, Recreates, FrameShape
  <2>4. OneShutdown'
    BY <1>10 DEF RecreateDrain, RecreateFrame, OneShutdown, FrameShape
  <2>5. OwnerPhases'
    BY <1>10 DEF RecreateDrain, RecreateFrame, OwnerPhases, FrameShape, OneRecreation, OneShutdown, Recreates
  <2>6. RecreationQuiet'
    BY <1>10 DEF RecreateDrain, RecreateFrame, RecreationQuiet, Drained, Chosen, OwnerPhases, OneRecreation, OneShutdown,
      Recreates, FrameShape
  <2> QED
    BY <2>1, <2>2, <2>3, <2>4, <2>5, <2>6
<1>11. CASE RecreateLife(t)
  <2>1. FrameShape'
    BY <1>11 DEF RecreateLife, RecreateFrame, FrameShape
  <2>2. LeasesCounted'
    <3>1. Leases' = Leases
      BY <1>11 DEF RecreateLife, RecreateFrame, Leases, Leased, FrameShape
    <3> QED
      BY <3>1, <1>11 DEF RecreateLife, RecreateFrame, LeasesCounted, Leases
  <2>3. OneRecreation'
    BY <1>11 DEF RecreateLife, RecreateFrame, OneRecreation, Recreates, FrameShape
  <2>4. OneShutdown'
    BY <1>11 DEF RecreateLife, RecreateFrame, OneShutdown, FrameShape
  <2>5. OwnerPhases'
    BY <1>11 DEF RecreateLife, RecreateFrame, OwnerPhases, FrameShape, OneRecreation, OneShutdown, Recreates
  <2>6. RecreationQuiet'
    BY <1>11 DEF RecreateLife, RecreateFrame, RecreationQuiet, Drained, Chosen, OwnerPhases, OneRecreation, OneShutdown,
      Recreates, FrameShape
  <2> QED
    BY <2>1, <2>2, <2>3, <2>4, <2>5, <2>6
<1>12. CASE RecreateNew(t)
  <2>1. FrameShape'
    BY <1>12 DEF RecreateNew, RecreateFrame, FrameShape
  <2>2. LeasesCounted'
    <3>1. Leases' = Leases
      BY <1>12 DEF RecreateNew, RecreateFrame, Leases, Leased, FrameShape
    <3> QED
      BY <3>1, <1>12 DEF RecreateNew, RecreateFrame, LeasesCounted, Leases
  <2>3. OneRecreation'
    BY <1>12 DEF RecreateNew, RecreateFrame, OneRecreation, Recreates, FrameShape
  <2>4. OneShutdown'
    BY <1>12 DEF RecreateNew, RecreateFrame, OneShutdown, FrameShape
  <2>5. OwnerPhases'
    BY <1>12 DEF RecreateNew, RecreateFrame, OwnerPhases, FrameShape, OneRecreation, OneShutdown, Recreates
  <2>6. RecreationQuiet'
    BY <1>12 DEF RecreateNew, RecreateFrame, RecreationQuiet, Drained, Chosen, OwnerPhases, OneRecreation, OneShutdown,
      Recreates, FrameShape
  <2> QED
    BY <2>1, <2>2, <2>3, <2>4, <2>5, <2>6
<1>13. CASE RecreateStage(t)
  <2>1. FrameShape'
    BY <1>13 DEF RecreateStage, RecreateFrame, FrameShape
  <2>2. LeasesCounted'
    <3>1. Leases' = Leases
      BY <1>13 DEF RecreateStage, RecreateFrame, Leases, Leased, FrameShape
    <3> QED
      BY <3>1, <1>13 DEF RecreateStage, RecreateFrame, LeasesCounted, Leases
  <2>3. OneRecreation'
    BY <1>13 DEF RecreateStage, RecreateFrame, OneRecreation, Recreates, FrameShape
  <2>4. OneShutdown'
    BY <1>13 DEF RecreateStage, RecreateFrame, OneShutdown, FrameShape
  <2>5. OwnerPhases'
    BY <1>13 DEF RecreateStage, RecreateFrame, OwnerPhases, FrameShape, OneRecreation, OneShutdown, Recreates
  <2>6. RecreationQuiet'
    BY <1>13 DEF RecreateStage, RecreateFrame, RecreationQuiet, Drained, Chosen, OwnerPhases, OneRecreation, OneShutdown,
      Recreates, FrameShape
  <2> QED
    BY <2>1, <2>2, <2>3, <2>4, <2>5, <2>6
<1>14. CASE RecreateWatch(t)
  <2>1. FrameShape'
    BY <1>14 DEF RecreateWatch, RecreateFrame, FrameShape
  <2>2. LeasesCounted'
    <3>1. Leases' = Leases
      BY <1>14 DEF RecreateWatch, RecreateFrame, Leases, Leased, FrameShape
    <3> QED
      BY <3>1, <1>14 DEF RecreateWatch, RecreateFrame, LeasesCounted, Leases
  <2>3. OneRecreation'
    BY <1>14 DEF RecreateWatch, RecreateFrame, OneRecreation, Recreates, FrameShape
  <2>4. OneShutdown'
    BY <1>14 DEF RecreateWatch, RecreateFrame, OneShutdown, FrameShape
  <2>5. OwnerPhases'
    BY <1>14 DEF RecreateWatch, RecreateFrame, OwnerPhases, FrameShape, OneRecreation, OneShutdown, Recreates
  <2>6. RecreationQuiet'
    BY <1>14 DEF RecreateWatch, RecreateFrame, RecreationQuiet, Drained, Chosen, OwnerPhases, OneRecreation, OneShutdown,
      Recreates, FrameShape
  <2> QED
    BY <2>1, <2>2, <2>3, <2>4, <2>5, <2>6
<1>15. CASE RecreateCheck(t)
  <2>1. FrameShape'
    BY <1>15 DEF RecreateCheck, RecreateFrame, FrameShape
  <2>2. LeasesCounted'
    <3>1. Leases' = Leases
      BY <1>15 DEF RecreateCheck, RecreateFrame, Leases, Leased, FrameShape
    <3> QED
      BY <3>1, <1>15 DEF RecreateCheck, RecreateFrame, LeasesCounted, Leases
  <2>3. OneRecreation'
    BY <1>15 DEF RecreateCheck, RecreateFrame, OneRecreation, Recreates, FrameShape
  <2>4. OneShutdown'
    BY <1>15 DEF RecreateCheck, RecreateFrame, OneShutdown, FrameShape
  <2>5. OwnerPhases'
    BY <1>15 DEF RecreateCheck, RecreateFrame, OwnerPhases, FrameShape, OneRecreation, OneShutdown, Recreates
  <2>6. RecreationQuiet'
    BY <1>15 DEF RecreateCheck, RecreateFrame, RecreationQuiet, Drained, Chosen, OwnerPhases, OneRecreation, OneShutdown,
      Recreates, FrameShape
  <2> QED
    BY <2>1, <2>2, <2>3, <2>4, <2>5, <2>6
<1>16. CASE RecreateSwap(t)
  <2>1. FrameShape'
    BY <1>16 DEF RecreateSwap, RecreateFrame, FrameShape
  <2>2. LeasesCounted'
    <3>1. Leases' = Leases
      BY <1>16 DEF RecreateSwap, RecreateFrame, Leases, Leased, FrameShape
    <3> QED
      BY <3>1, <1>16 DEF RecreateSwap, RecreateFrame, LeasesCounted, Leases
  <2>3. OneRecreation'
    BY <1>16 DEF RecreateSwap, RecreateFrame, OneRecreation, Recreates, FrameShape
  <2>4. OneShutdown'
    BY <1>16 DEF RecreateSwap, RecreateFrame, OneShutdown, FrameShape
  <2>5. OwnerPhases'
    BY <1>16 DEF RecreateSwap, RecreateFrame, OwnerPhases, FrameShape, OneRecreation, OneShutdown, Recreates
  <2>6. RecreationQuiet'
    BY <1>16 DEF RecreateSwap, RecreateFrame, RecreationQuiet, Drained, Chosen, OwnerPhases, OneRecreation, OneShutdown,
      Recreates, FrameShape
  <2> QED
    BY <2>1, <2>2, <2>3, <2>4, <2>5, <2>6
<1>17. CASE RecreateReset(t)
  <2>1. FrameShape'
    BY <1>17 DEF RecreateReset, RecreateFrame, FrameShape
  <2>2. LeasesCounted'
    <3>1. Leases' = Leases
      BY <1>17 DEF RecreateReset, RecreateFrame, Leases, Leased, FrameShape
    <3> QED
      BY <3>1, <1>17 DEF RecreateReset, RecreateFrame, LeasesCounted, Leases
  <2>3. OneRecreation'
    BY <1>17 DEF RecreateReset, RecreateFrame, OneRecreation, Recreates, FrameShape
  <2>4. OneShutdown'
    BY <1>17 DEF RecreateReset, RecreateFrame, OneShutdown, FrameShape
  <2>5. OwnerPhases'
    BY <1>17 DEF RecreateReset, RecreateFrame, OwnerPhases, FrameShape, OneRecreation, OneShutdown, Recreates
  <2>6. RecreationQuiet'
    BY <1>17 DEF RecreateReset, RecreateFrame, RecreationQuiet, Drained, Chosen, OwnerPhases, OneRecreation, OneShutdown,
      Recreates, FrameShape
  <2> QED
    BY <2>1, <2>2, <2>3, <2>4, <2>5, <2>6
<1>18. CASE RecreateTail(t)
  <2>1. FrameShape'
    BY <1>18 DEF RecreateTail, RecreateFrame, FrameShape
  <2>2. LeasesCounted'
    <3>1. Leases' = Leases
      BY <1>18 DEF RecreateTail, RecreateFrame, Leases, Leased, FrameShape
    <3> QED
      BY <3>1, <1>18 DEF RecreateTail, RecreateFrame, LeasesCounted, Leases
  <2>3. OneRecreation'
    BY <1>18 DEF RecreateTail, RecreateFrame, OneRecreation, Recreates, FrameShape
  <2>4. OneShutdown'
    BY <1>18 DEF RecreateTail, RecreateFrame, OneShutdown, FrameShape
  <2>5. OwnerPhases'
    BY <1>18 DEF RecreateTail, RecreateFrame, OwnerPhases, FrameShape, OneRecreation, OneShutdown, Recreates
  <2>6. RecreationQuiet'
    BY <1>18 DEF RecreateTail, RecreateFrame, RecreationQuiet, Drained, Chosen, OwnerPhases, OneRecreation, OneShutdown,
      Recreates, FrameShape
  <2> QED
    BY <2>1, <2>2, <2>3, <2>4, <2>5, <2>6
<1> QED
  BY <1>1, <1>2, <1>3, <1>4, <1>5, <1>6, <1>7, <1>8, <1>9, <1>10, <1>11, <1>12, <1>13, <1>14, <1>15, <1>16, <1>17, <1>18 DEF Step, Api, ImplShutdown, Recreate

\* Entering a call keeps SyncOwned.
LEMMA BeginSync ==
  ASSUME TypeOK, SyncOwned, NEW t \in Workers, Begin(t)
  PROVE  SyncOwned'
<1> USE PartiesAssumption DEF TypeOK, Threads, syncVars, implVars, At, Goto, Enter, Return, SyncOwned
<1>1. CASE ApiBegin(t)
  <2>1. FrameShape'
    BY <1>1 DEF ApiBegin, FrameShape
  <2>2. LeasesCounted'
    <3>1. Leases' = Leases \cup {t} /\ t \notin Leases
      BY <1>1 DEF ApiBegin, Leases, Leased, FrameShape
    <3>2. Cardinality(Leases') = Cardinality(Leases) + 1
      BY <3>1, LeasesFinite, FS_AddElement
    <3> QED
      BY <3>2, <1>1 DEF ApiBegin, LeasesCounted, Leases
  <2>3. OneRecreation'
    BY <1>1 DEF ApiBegin, OneRecreation, Recreates, FrameShape
  <2>4. OneShutdown'
    BY <1>1 DEF ApiBegin, OneShutdown, FrameShape
  <2>5. OwnerPhases'
    BY <1>1 DEF ApiBegin, OwnerPhases, FrameShape, OneRecreation, OneShutdown, Recreates
  <2>6. RecreationQuiet'
    BY <1>1 DEF ApiBegin, RecreationQuiet, Drained, Chosen, OwnerPhases, OneRecreation, OneShutdown,
      Recreates, FrameShape
  <2> QED
    BY <2>1, <2>2, <2>3, <2>4, <2>5, <2>6
<1>2. CASE ShutdownBegin(t)
  <2>1. FrameShape'
    BY <1>2 DEF ShutdownBegin, FrameShape
  <2>2. LeasesCounted'
    <3>1. Leases' = Leases
      BY <1>2 DEF ShutdownBegin, Leases, Leased, FrameShape
    <3> QED
      BY <3>1, <1>2 DEF ShutdownBegin, LeasesCounted, Leases
  <2>3. OneRecreation'
    BY <1>2 DEF ShutdownBegin, OneRecreation, Recreates, FrameShape
  <2>4. OneShutdown'
    BY <1>2 DEF ShutdownBegin, OneShutdown, FrameShape
  <2>5. OwnerPhases'
    BY <1>2 DEF ShutdownBegin, OwnerPhases, FrameShape, OneRecreation, OneShutdown, Recreates
  <2>6. RecreationQuiet'
    BY <1>2 DEF ShutdownBegin, RecreationQuiet, Drained, Chosen, OwnerPhases, OneRecreation, OneShutdown,
      Recreates, FrameShape
  <2> QED
    BY <2>1, <2>2, <2>3, <2>4, <2>5, <2>6
<1>3. CASE RecreateBegin(t)
  <2>1. FrameShape'
    BY <1>3 DEF RecreateBegin, RecreateFrame, FrameShape
  <2>2. LeasesCounted'
    <3>1. Leases' = Leases
      BY <1>3 DEF RecreateBegin, RecreateFrame, Leases, Leased, FrameShape
    <3> QED
      BY <3>1, <1>3 DEF RecreateBegin, RecreateFrame, LeasesCounted, Leases
  <2>3. OneRecreation'
    BY <1>3 DEF RecreateBegin, RecreateFrame, OneRecreation, Recreates, FrameShape
  <2>4. OneShutdown'
    BY <1>3 DEF RecreateBegin, RecreateFrame, OneShutdown, FrameShape
  <2>5. OwnerPhases'
    BY <1>3 DEF RecreateBegin, RecreateFrame, OwnerPhases, FrameShape, OneRecreation, OneShutdown, Recreates
  <2>6. RecreationQuiet'
    BY <1>3 DEF RecreateBegin, RecreateFrame, RecreationQuiet, Drained, Chosen, OwnerPhases, OneRecreation, OneShutdown,
      Recreates, FrameShape
  <2> QED
    BY <2>1, <2>2, <2>3, <2>4, <2>5, <2>6
<1> QED
  BY <1>1, <1>2, <1>3 DEF Begin

-----------------------------------------------------------------------------
\* The initial state: nothing is created, nobody is inside a call.
LEMMA InitInv == Init => Inv
<1> SUFFICES ASSUME Init PROVE Inv
  OBVIOUS
<1>1. TypeOK
  BY DEF Init, TypeOK, Threads, Calls, Labels
<1>2. Leases = {} /\ inFlight = 0
  BY DEF Init, Leases, Leased
<1>3. LeasesCounted
  BY <1>2, FS_EmptySet DEF LeasesCounted, Leases
<1>4. FrameShape /\ OneRecreation /\ OneShutdown /\ RecreationQuiet /\ OwnerPhases
  BY PartiesAssumption DEF Init, FrameShape, OneRecreation, OneShutdown, RecreationQuiet, OwnerPhases,
    Recreates, At, Threads
<1> QED
  BY <1>1, <1>3, <1>4 DEF Inv, SyncOwned

\* Every step keeps the inductive invariant.
LEMMA NextInv == Inv /\ [Next]_vars => Inv'
<1> SUFFICES ASSUME Inv, [Next]_vars PROVE Inv'
  OBVIOUS
<1> USE DEF Inv
<1>0. LeasesCounted
  BY DEF SyncOwned
<1>1. CASE Create \/ DestroyBegin \/ Destroy
  BY <1>1, OwnerType, OwnerSync
<1>2. ASSUME NEW t \in Threads, Step(t) PROVE Inv'
  BY <1>0, <1>2, StepType, StepSync
<1>3. ASSUME NEW t \in Workers, Begin(t) PROVE Inv'
  BY <1>3, BeginType, BeginSync
<1>4. ASSUME NEW i \in Impls, WatchdogStarts(i) \/ WatchdogGivesUp(i) \/ WatchdogExits(i)
      PROVE Inv'
  <2>1. /\ UNCHANGED <<obj, recreating, terminated, inFlight, shutdownInFlight, pImpl, call, pc>>
        /\ \A j \in Impls : givenUp[j] => givenUp'[j]
    BY <1>4 DEF WatchdogStarts, WatchdogGivesUp, WatchdogExits, syncVars, TypeOK
  <2> QED
    BY <1>4, <2>1, WatchdogType, SyncFrame
<1>5. CASE UNCHANGED vars
  BY <1>5, SyncFrame DEF vars, TypeOK
<1> QED
  BY <1>1, <1>2, <1>3, <1>4, <1>5 DEF Next

\* TypeOK and SyncOwned hold in every reachable state, for any number of
\* workers and Impls, whether or not the owner waits for API calls.
THEOREM Invariance == Spec => []Inv
BY InitInv, NextInv, PTL DEF Spec

\* Type correctness of the facade.
THEOREM TypeCorrect == Spec => []TypeOK
<1>1. Inv => TypeOK
  BY DEF Inv
<1> QED
  BY <1>1, Invariance, PTL

\* The counters of RecreateSync are exact: m_inFlight counts the leases, one
\* recreation and one winning shutdown() at most, both visible to ~OPC_UA_Client.
THEOREM CountersSafe == Spec => []SyncOwned
<1>1. Inv => SyncOwned
  BY DEF Inv
<1> QED
  BY <1>1, Invariance, PTL

\* If the owner lets ordinary calls return first, the destructor never frees
\* the facade under a shutdown() or recreateGiveUpClient() that still uses it.
THEOREM NotFreedInUse == JoinsApi => (Spec => []NoUseAfterFree)
<1> SUFFICES ASSUME JoinsApi PROVE Spec => []NoUseAfterFree
  OBVIOUS
<1>1. Inv => NoUseAfterFree
  BY DEF Inv, SyncOwned, OwnerPhases, FrameShape, NoUseAfterFree, TouchesThis, At
<1> QED
  BY <1>1, Invariance, PTL

\* recreateGiveUpClient() swaps only an Impl that gave up, with no API call
\* inside: the invariant holds the leases at zero from the drain to the swap.
THEOREM SwapSafe == Spec => SwapOnlyQuietGivenUp
<1> DEFINE Swapped == pImpl # None /\ pImpl' \notin {pImpl, None}
           Quiet == givenUp[pImpl] /\ \A t \in Threads : call[t] = "api" => pc[t] = "drop"
<1>1. Inv /\ [Next]_vars => (Swapped => Quiet)
  <2> SUFFICES ASSUME Inv, [Next]_vars, Swapped PROVE Quiet
    OBVIOUS
  <2> USE DEF Inv, SyncOwned, At
  <2>1. PICK t \in Threads : At(t, "recreate", "swap")
    <3>1. CASE Create \/ DestroyBegin \/ Destroy
      BY <3>1 DEF Create, CreateNew, CreateStage, CreateWatch, DestroyBegin, Destroy,
        DestroyWait, DestroyDone, OwnerPhases
    <3>2. ASSUME NEW t \in Threads, Step(t) PROVE At(t, "recreate", "swap")
      BY <3>2 DEF Step, Api, ApiSnap, ApiUse, ApiUnlease, ApiDrop, ImplShutdown, ImplSignal,
        ImplJoin, ImplRelease, TakeImpl, ShutdownDone, Recreate, RecreateDrain, RecreateLife,
        RecreateNew, RecreateStage, RecreateWatch, RecreateCheck, RecreateSwap, RecreateReset,
        RecreateTail
    <3>3. ASSUME NEW t \in Workers, Begin(t) PROVE FALSE
      BY <3>3 DEF Begin, ApiBegin, ShutdownBegin, RecreateBegin
    <3>4. ASSUME NEW i \in Impls, WatchdogStarts(i) \/ WatchdogGivesUp(i) \/ WatchdogExits(i)
          PROVE FALSE
      BY <3>4 DEF WatchdogStarts, WatchdogGivesUp, WatchdogExits
    <3>5. CASE UNCHANGED vars
      BY <3>5 DEF vars
    <3> QED
      BY <3>1, <3>2, <3>3, <3>4, <3>5 DEF Next
  <2>2. inFlight = 0 /\ givenUp[pImpl]
    BY <2>1 DEF RecreationQuiet, Recreates, Drained, Chosen
  <2>3. Leases = {}
    BY <2>2, LeasesFinite, FS_EmptySet DEF LeasesCounted, Leases
  <2>4. \A u \in Threads : ~Leased(u)
    BY <2>3 DEF Leases
  <2> QED
    BY <2>2, <2>4 DEF Leased, FrameShape
<1> QED
  BY <1>1, Invariance, PTL DEF Spec, SwapOnlyQuietGivenUp
=============================================================================
