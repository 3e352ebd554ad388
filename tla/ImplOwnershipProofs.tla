------------------------- MODULE ImplOwnershipProofs -------------------------
(***************************************************************************)
(* Who answers for an Impl.  At any time an Impl that may still have a     *)
(* watchdog is in pImpl or in the hands of exactly one call that is going  *)
(* to shut it down; every other shared_ptr to it (of an API call, or of a  *)
(* recreation that has published its end) is a plain reference.  From this *)
(* follow OwnedWatchdogs, JoinedBeforeDeleted and DestroyedClean, for any  *)
(* number of workers and Impls.                                            *)
(***************************************************************************)
EXTENDS ClientLifecycleProofs

-----------------------------------------------------------------------------
(* Steps that hand no shared_ptr on.                                       *)

\* What a step that touches no Impl has to keep.
LEMMA MoveOwned ==
  ASSUME ImplsOwned, UNCHANGED <<pImpl, client, wdog, stop, self, old>>,
         \A u \in Threads : Holding(u)' <=> Holding(u),
         \A u \in Threads : pc'[u] = "release" => pc[u] = "release",
         FrameRefs', EmptiedByDestroy'
  PROVE  ImplsOwned'
<1> USE DEF ImplsOwned
<1>1. \A u \in Threads : Target(u)' = Target(u)
  BY DEF Target
<1>2. \A i \in Impls : /\ Owned(i)' <=> Owned(i)
                       /\ Handled(i)' <=> Handled(i)
                       /\ Stopped(i)' <=> Stopped(i)
  BY <1>1 DEF Owned, Handled, Stopped
<1>3. OneHolder'
  BY <1>1 DEF OneHolder
<1>4. LiveIffOwned' /\ OwnedWatchdogs' /\ JoinedBeforeDeleted'
  BY <1>2 DEF LiveIffOwned, OwnedWatchdogs, JoinedBeforeDeleted
<1>5. ShutBeforeDropped'
  BY <1>1, <1>2 DEF ShutBeforeDropped, Stopped
<1> QED
  BY <1>3, <1>4, <1>5

\* Moves of the owner.
LEMMA OwnerMoves ==
  ASSUME Inv, ImplsOwned, CreateStage \/ DestroyBegin \/ Destroy
  PROVE  ImplsOwned'
<1> USE PartiesAssumption DEF Inv, TypeOK, SyncOwned, FrameShape, Threads, syncVars, implVars, At, Goto, Enter,
  Return, Holding, ShuttingDown, OnCandidate
<1>1. CASE CreateStage
  <2>1. /\ UNCHANGED <<pImpl, client, wdog, stop, self, old>>
        /\ \A u \in Threads : Holding(u)' <=> Holding(u)
        /\ \A u \in Threads : pc'[u] = "release" => pc[u] = "release"
    BY <1>1 DEF CreateStage
  <2>2. FrameRefs'
    BY <1>1 DEF CreateStage, ImplsOwned, FrameRefs
  <2>3. EmptiedByDestroy'
    BY <1>1 DEF CreateStage, ImplsOwned, EmptiedByDestroy, OwnerPhases
  <2> QED
    BY <2>1, <2>2, <2>3, MoveOwned
<1>2. CASE DestroyBegin
  <2>1. /\ UNCHANGED <<pImpl, client, wdog, stop, self, old>>
        /\ \A u \in Threads : Holding(u)' <=> Holding(u)
        /\ \A u \in Threads : pc'[u] = "release" => pc[u] = "release"
    BY <1>2 DEF DestroyBegin
  <2>2. FrameRefs'
    BY <1>2 DEF DestroyBegin, ImplsOwned, FrameRefs
  <2>3. EmptiedByDestroy'
    BY <1>2 DEF DestroyBegin, ImplsOwned, EmptiedByDestroy, OwnerPhases
  <2> QED
    BY <2>1, <2>2, <2>3, MoveOwned
<1>3. CASE DestroyWait
  <2>1. /\ UNCHANGED <<pImpl, client, wdog, stop, self, old>>
        /\ \A u \in Threads : Holding(u)' <=> Holding(u)
        /\ \A u \in Threads : pc'[u] = "release" => pc[u] = "release"
    BY <1>3 DEF DestroyWait
  <2>2. FrameRefs'
    BY <1>3 DEF DestroyWait, ImplsOwned, FrameRefs
  <2>3. EmptiedByDestroy'
    BY <1>3 DEF DestroyWait, ImplsOwned, EmptiedByDestroy, OwnerPhases
  <2> QED
    BY <2>1, <2>2, <2>3, MoveOwned
<1>4. CASE DestroyDone
  <2>1. /\ UNCHANGED <<pImpl, client, wdog, stop, self, old>>
        /\ \A u \in Threads : Holding(u)' <=> Holding(u)
        /\ \A u \in Threads : pc'[u] = "release" => pc[u] = "release"
    BY <1>4 DEF DestroyDone
  <2>2. FrameRefs'
    BY <1>4 DEF DestroyDone, ImplsOwned, FrameRefs
  <2>3. EmptiedByDestroy'
    BY <1>4 DEF DestroyDone, ImplsOwned, EmptiedByDestroy, OwnerPhases
  <2> QED
    BY <2>1, <2>2, <2>3, MoveOwned
<1> QED
  BY <1>1, <1>2, <1>3, <1>4 DEF Destroy

\* Entering a call.
LEMMA BeginMoves ==
  ASSUME Inv, ImplsOwned, NEW t \in Workers, Begin(t)
  PROVE  ImplsOwned'
<1> USE PartiesAssumption DEF Inv, TypeOK, SyncOwned, FrameShape, Threads, syncVars, implVars, At, Goto, Enter,
  Return, Holding, ShuttingDown, OnCandidate
<1>1. CASE ApiBegin(t)
  <2>1. /\ UNCHANGED <<pImpl, client, wdog, stop, self, old>>
        /\ \A u \in Threads : Holding(u)' <=> Holding(u)
        /\ \A u \in Threads : pc'[u] = "release" => pc[u] = "release"
    BY <1>1 DEF ApiBegin
  <2>2. FrameRefs'
    BY <1>1 DEF ApiBegin, ImplsOwned, FrameRefs
  <2>3. EmptiedByDestroy'
    BY <1>1 DEF ApiBegin, ImplsOwned, EmptiedByDestroy, OwnerPhases
  <2> QED
    BY <2>1, <2>2, <2>3, MoveOwned
<1>2. CASE ShutdownBegin(t)
  <2>1. /\ UNCHANGED <<pImpl, client, wdog, stop, self, old>>
        /\ \A u \in Threads : Holding(u)' <=> Holding(u)
        /\ \A u \in Threads : pc'[u] = "release" => pc[u] = "release"
    BY <1>2 DEF ShutdownBegin
  <2>2. FrameRefs'
    BY <1>2 DEF ShutdownBegin, ImplsOwned, FrameRefs
  <2>3. EmptiedByDestroy'
    BY <1>2 DEF ShutdownBegin, ImplsOwned, EmptiedByDestroy, OwnerPhases
  <2> QED
    BY <2>1, <2>2, <2>3, MoveOwned
<1>3. CASE RecreateBegin(t)
  <2>1. /\ UNCHANGED <<pImpl, client, wdog, stop, self, old>>
        /\ \A u \in Threads : Holding(u)' <=> Holding(u)
        /\ \A u \in Threads : pc'[u] = "release" => pc[u] = "release"
    BY <1>3 DEF RecreateBegin, RecreateFrame
  <2>2. FrameRefs'
    BY <1>3 DEF RecreateBegin, RecreateFrame, ImplsOwned, FrameRefs
  <2>3. EmptiedByDestroy'
    BY <1>3 DEF RecreateBegin, RecreateFrame, ImplsOwned, EmptiedByDestroy, OwnerPhases
  <2> QED
    BY <2>1, <2>2, <2>3, MoveOwned
<1> QED
  BY <1>1, <1>2, <1>3 DEF Begin

\* Moves inside a call.
LEMMA StepMoves ==
  ASSUME Inv, ImplsOwned, NEW t \in Threads,
         \/ ApiUse(t) \/ ApiUnlease(t) \/ ShutdownDone(t) \/ RecreateDrain(t) \/ RecreateLife(t)
         \/ RecreateStage(t) \/ RecreateCheck(t) \/ RecreateReset(t)
  PROVE  ImplsOwned'
<1> USE PartiesAssumption DEF Inv, TypeOK, SyncOwned, FrameShape, Threads, syncVars, implVars, At, Goto, Enter,
  Return, Holding, ShuttingDown, OnCandidate
<1>1. CASE ApiUse(t)
  <2>1. /\ UNCHANGED <<pImpl, client, wdog, stop, self, old>>
        /\ \A u \in Threads : Holding(u)' <=> Holding(u)
        /\ \A u \in Threads : pc'[u] = "release" => pc[u] = "release"
    BY <1>1 DEF ApiUse
  <2>2. FrameRefs'
    BY <1>1 DEF ApiUse, ImplsOwned, FrameRefs
  <2>3. EmptiedByDestroy'
    BY <1>1 DEF ApiUse, ImplsOwned, EmptiedByDestroy, OwnerPhases
  <2> QED
    BY <2>1, <2>2, <2>3, MoveOwned
<1>2. CASE ApiUnlease(t)
  <2>1. /\ UNCHANGED <<pImpl, client, wdog, stop, self, old>>
        /\ \A u \in Threads : Holding(u)' <=> Holding(u)
        /\ \A u \in Threads : pc'[u] = "release" => pc[u] = "release"
    BY <1>2 DEF ApiUnlease
  <2>2. FrameRefs'
    BY <1>2 DEF ApiUnlease, ImplsOwned, FrameRefs
  <2>3. EmptiedByDestroy'
    BY <1>2 DEF ApiUnlease, ImplsOwned, EmptiedByDestroy, OwnerPhases
  <2> QED
    BY <2>1, <2>2, <2>3, MoveOwned
<1>3. CASE ShutdownDone(t)
  <2>1. /\ UNCHANGED <<pImpl, client, wdog, stop, self, old>>
        /\ \A u \in Threads : Holding(u)' <=> Holding(u)
        /\ \A u \in Threads : pc'[u] = "release" => pc[u] = "release"
    BY <1>3 DEF ShutdownDone
  <2>2. FrameRefs'
    BY <1>3 DEF ShutdownDone, ImplsOwned, FrameRefs
  <2>3. EmptiedByDestroy'
    BY <1>3 DEF ShutdownDone, ImplsOwned, EmptiedByDestroy, OwnerPhases
  <2> QED
    BY <2>1, <2>2, <2>3, MoveOwned
<1>4. CASE RecreateDrain(t)
  <2>1. /\ UNCHANGED <<pImpl, client, wdog, stop, self, old>>
        /\ \A u \in Threads : Holding(u)' <=> Holding(u)
        /\ \A u \in Threads : pc'[u] = "release" => pc[u] = "release"
    BY <1>4 DEF RecreateDrain, RecreateFrame
  <2>2. FrameRefs'
    BY <1>4 DEF RecreateDrain, RecreateFrame, ImplsOwned, FrameRefs
  <2>3. EmptiedByDestroy'
    BY <1>4 DEF RecreateDrain, RecreateFrame, ImplsOwned, EmptiedByDestroy, OwnerPhases
  <2> QED
    BY <2>1, <2>2, <2>3, MoveOwned
<1>5. CASE RecreateLife(t)
  <2>1. /\ UNCHANGED <<pImpl, client, wdog, stop, self, old>>
        /\ \A u \in Threads : Holding(u)' <=> Holding(u)
        /\ \A u \in Threads : pc'[u] = "release" => pc[u] = "release"
    BY <1>5 DEF RecreateLife, RecreateFrame
  <2>2. FrameRefs'
    BY <1>5 DEF RecreateLife, RecreateFrame, ImplsOwned, FrameRefs
  <2>3. EmptiedByDestroy'
    BY <1>5 DEF RecreateLife, RecreateFrame, ImplsOwned, EmptiedByDestroy, OwnerPhases
  <2> QED
    BY <2>1, <2>2, <2>3, MoveOwned
<1>6. CASE RecreateStage(t)
  <2>1. /\ UNCHANGED <<pImpl, client, wdog, stop, self, old>>
        /\ \A u \in Threads : Holding(u)' <=> Holding(u)
        /\ \A u \in Threads : pc'[u] = "release" => pc[u] = "release"
    BY <1>6 DEF RecreateStage, RecreateFrame
  <2>2. FrameRefs'
    BY <1>6 DEF RecreateStage, RecreateFrame, ImplsOwned, FrameRefs
  <2>3. EmptiedByDestroy'
    BY <1>6 DEF RecreateStage, RecreateFrame, ImplsOwned, EmptiedByDestroy, OwnerPhases
  <2> QED
    BY <2>1, <2>2, <2>3, MoveOwned
<1>7. CASE RecreateCheck(t)
  <2>1. /\ UNCHANGED <<pImpl, client, wdog, stop, self, old>>
        /\ \A u \in Threads : Holding(u)' <=> Holding(u)
        /\ \A u \in Threads : pc'[u] = "release" => pc[u] = "release"
    BY <1>7 DEF RecreateCheck, RecreateFrame
  <2>2. FrameRefs'
    BY <1>7 DEF RecreateCheck, RecreateFrame, ImplsOwned, FrameRefs
  <2>3. EmptiedByDestroy'
    BY <1>7 DEF RecreateCheck, RecreateFrame, ImplsOwned, EmptiedByDestroy, OwnerPhases
  <2> QED
    BY <2>1, <2>2, <2>3, MoveOwned
<1>8. CASE RecreateReset(t)
  <2>1. /\ UNCHANGED <<pImpl, client, wdog, stop, self, old>>
        /\ \A u \in Threads : Holding(u)' <=> Holding(u)
        /\ \A u \in Threads : pc'[u] = "release" => pc[u] = "release"
    BY <1>8 DEF RecreateReset, RecreateFrame
  <2>2. FrameRefs'
    BY <1>8 DEF RecreateReset, RecreateFrame, ImplsOwned, FrameRefs
  <2>3. EmptiedByDestroy'
    BY <1>8 DEF RecreateReset, RecreateFrame, ImplsOwned, EmptiedByDestroy, OwnerPhases
  <2> QED
    BY <2>1, <2>2, <2>3, MoveOwned
<1> QED
  BY <1>1, <1>2, <1>3, <1>4, <1>5, <1>6, <1>7, <1>8

-----------------------------------------------------------------------------
(* Steps that create, hand on, shut down or drop an Impl.                  *)

\* A step that drops a reference: if nobody answers for the Impl afterwards, it
\* has been shut down, so ~Impl deletes a client whose watchdog is gone.
LEMMA DropOwned ==
  ASSUME Inv, ImplsOwned, Inv', Reap, UNCHANGED <<pImpl, wdog, stop>>,
         \A i \in Impls : Owned(i)' => Owned(i),
         \A i \in Impls : Handled(i) => Handled(i)' \/ Stopped(i),
         \A u \in Threads : pc'[u] = "release" => pc[u] = "release" /\ Target(u)' = Target(u),
         FrameRefs', OneHolder', EmptiedByDestroy'
  PROVE  ImplsOwned'
<1> USE DEF ImplsOwned
<1>1. \A i \in Impls : Stopped(i)' <=> Stopped(i)
  BY DEF Stopped
<1>2. \A i \in Impls : Handled(i)' => Owned(i)'
  BY NoneAssumption DEF FrameRefs, Handled, Owned, Target
<1>3. \A i \in Impls : Owned(i) /\ ~Stopped(i) => Owned(i)'
  BY <1>2 DEF ShutBeforeDropped
<1>4. OwnedWatchdogs'
  BY <1>3 DEF OwnedWatchdogs, Stopped
<1>5. \A i \in Impls : client'[i] = IF client[i] = "live" /\ ~Owned(i)' THEN "deleted" ELSE client[i]
  BY <1>4 DEF Reap, Referenced, OwnedWatchdogs
<1>6. LiveIffOwned'
  BY <1>5 DEF LiveIffOwned
<1>7. JoinedBeforeDeleted'
  BY <1>3, <1>5 DEF JoinedBeforeDeleted, LiveIffOwned, Stopped
<1>8. ShutBeforeDropped'
  BY <1>1 DEF ShutBeforeDropped, Stopped
<1> QED
  BY <1>4, <1>6, <1>7, <1>8

\* An API call drops a reference it does not answer for.
LEMMA ApiDropOwned ==
  ASSUME Inv, ImplsOwned, Inv', NEW t \in Threads, ApiDrop(t)
  PROVE  ImplsOwned'
<1> USE PartiesAssumption, NoneAssumption DEF Inv, TypeOK, SyncOwned, FrameShape, Threads, syncVars, implVars, At, Goto,
  Enter, Return, Holding, ShuttingDown, OnCandidate, ImplsOwned, ApiDrop
<1>1. FrameRefs' /\ EmptiedByDestroy'
  BY DEF FrameRefs, EmptiedByDestroy, OwnerPhases
<1>2. OneHolder'
  BY DEF OneHolder, Target, FrameRefs
<1>3. \A i \in Impls : Owned(i)' => Owned(i)
  BY DEF Owned
<1>4. \A i \in Impls : Handled(i) => Handled(i)' \/ Stopped(i)
  BY DEF Handled, Target, FrameRefs, ShutBeforeDropped
<1>5. \A u \in Threads : pc'[u] = "release" => pc[u] = "release" /\ Target(u)' = Target(u)
  BY DEF Target
<1> QED
  BY <1>1, <1>2, <1>3, <1>4, <1>5, DropOwned

\* The caller of Impl::shutdown() drops an Impl that has been shut down.
LEMMA ImplReleaseOwned ==
  ASSUME Inv, ImplsOwned, Inv', NEW t \in Threads, ImplRelease(t)
  PROVE  ImplsOwned'
<1> USE PartiesAssumption, NoneAssumption DEF Inv, TypeOK, SyncOwned, FrameShape, Threads, syncVars, implVars, At, Goto,
  Enter, Return, Holding, ShuttingDown, OnCandidate, ImplsOwned, ImplRelease
<1>1. FrameRefs' /\ EmptiedByDestroy'
  BY DEF FrameRefs, EmptiedByDestroy, OwnerPhases
<1>2. OneHolder'
  BY DEF OneHolder, Target, FrameRefs
<1>3. \A i \in Impls : Owned(i)' => Owned(i)
  BY DEF Owned
<1>4. \A i \in Impls : Handled(i) => Handled(i)' \/ Stopped(i)
  BY DEF Handled, Target, FrameRefs, ShutBeforeDropped
<1>5. \A u \in Threads : pc'[u] = "release" => pc[u] = "release" /\ Target(u)' = Target(u)
  BY DEF Target
<1> QED
  BY <1>1, <1>2, <1>3, <1>4, <1>5, DropOwned

\* A recreation drops a reference it no longer answers for.
LEMMA RecreateTailOwned ==
  ASSUME Inv, ImplsOwned, Inv', NEW t \in Threads, RecreateTail(t)
  PROVE  ImplsOwned'
<1> USE PartiesAssumption, NoneAssumption DEF Inv, TypeOK, SyncOwned, FrameShape, Threads, syncVars, implVars, At, Goto,
  Enter, Return, Holding, ShuttingDown, OnCandidate, ImplsOwned, RecreateTail, RecreateFrame
<1>1. FrameRefs' /\ EmptiedByDestroy'
  BY DEF FrameRefs, EmptiedByDestroy, OwnerPhases
<1>2. OneHolder'
  BY DEF OneHolder, Target, FrameRefs
<1>3. \A i \in Impls : Owned(i)' => Owned(i)
  BY DEF Owned
<1>4. \A i \in Impls : Handled(i) => Handled(i)' \/ Stopped(i)
  BY DEF Handled, Target, FrameRefs, ShutBeforeDropped
<1>5. \A u \in Threads : pc'[u] = "release" => pc[u] = "release" /\ Target(u)' = Target(u)
  BY DEF Target
<1> QED
  BY <1>1, <1>2, <1>3, <1>4, <1>5, DropOwned

\* The constructor puts the first Impl into pImpl.
LEMMA CreateNewOwned ==
  ASSUME Inv, ImplsOwned, CreateNew
  PROVE  ImplsOwned'
<1> USE PartiesAssumption, NoneAssumption DEF Inv, TypeOK, SyncOwned, FrameShape, Threads, syncVars, implVars, At, Goto,
  Enter, Return, Holding, ShuttingDown, OnCandidate, ImplsOwned, CreateNew
<1>a. /\ pImpl = None
      /\ \A t \in Threads : self[t] = None /\ old[t] = None /\ ~Holding(t)
  BY DEF OwnerPhases, FrameRefs
<1>b. \A j \in Impls : ~Owned(j) /\ client[j] # "live" /\ wdog[j] \in {"none", "exited"}
  BY <1>a DEF Owned, LiveIffOwned, OwnedWatchdogs
<1>c. \A t \in Threads : ~Holding(t)'
  BY <1>a
<1>1. FrameRefs'
  BY <1>a, <1>c DEF FrameRefs
<1>2. OneHolder'
  BY <1>c DEF OneHolder, Target, FrameRefs
<1>3. LiveIffOwned'
  BY <1>a, <1>b DEF LiveIffOwned, Owned
<1>4. ShutBeforeDropped'
  BY <1>a, <1>b, <1>c DEF ShutBeforeDropped, Owned, Handled
<1>5. OwnedWatchdogs'
  BY <1>b DEF OwnedWatchdogs, Owned
<1>6. JoinedBeforeDeleted'
  BY <1>b DEF JoinedBeforeDeleted
<1>7. EmptiedByDestroy'
  BY <1>a DEF EmptiedByDestroy, OwnerPhases
<1> QED
  BY <1>1, <1>2, <1>3, <1>4, <1>5, <1>6, <1>7

\* The first watchdog starts on the Impl in pImpl.
LEMMA CreateWatchOwned ==
  ASSUME Inv, ImplsOwned, CreateWatch
  PROVE  ImplsOwned'
<1> USE PartiesAssumption, NoneAssumption DEF Inv, TypeOK, SyncOwned, FrameShape, Threads, syncVars, implVars, At, Goto,
  Enter, Return, Holding, ShuttingDown, OnCandidate, ImplsOwned, CreateWatch
<1>1. FrameRefs'
  BY DEF FrameRefs
<1>2. OneHolder'
  BY DEF OneHolder, Target, FrameRefs
<1>3. LiveIffOwned'
  BY DEF LiveIffOwned, Owned
<1>4. ShutBeforeDropped'
  BY DEF ShutBeforeDropped, Owned, Handled, Stopped, Target, FrameRefs, OneHolder
<1>5. OwnedWatchdogs'
  BY DEF OwnedWatchdogs, Owned
<1>6. JoinedBeforeDeleted'
  BY DEF JoinedBeforeDeleted, LiveIffOwned, Owned
<1>7. EmptiedByDestroy'
  BY DEF EmptiedByDestroy, OwnerPhases
<1> QED
  BY <1>1, <1>2, <1>3, <1>4, <1>5, <1>6, <1>7

\* An API call copies pImpl.
LEMMA ApiSnapOwned ==
  ASSUME Inv, ImplsOwned, NEW t \in Threads, ApiSnap(t)
  PROVE  ImplsOwned'
<1> USE PartiesAssumption, NoneAssumption DEF Inv, TypeOK, SyncOwned, FrameShape, Threads, syncVars, implVars, At, Goto,
  Enter, Return, Holding, ShuttingDown, OnCandidate, ImplsOwned, ApiSnap
<1>a. self[t] = None /\ old[t] = None
  BY DEF FrameRefs
<1>b. \A j \in Impls : Owned(j)' <=> Owned(j)
  BY <1>a DEF Owned
<1>1. FrameRefs'
  BY DEF FrameRefs
<1>2. OneHolder'
  BY DEF OneHolder, Target, FrameRefs
<1>3. LiveIffOwned'
  BY <1>b DEF LiveIffOwned
<1>4. ShutBeforeDropped'
  BY DEF ShutBeforeDropped, Owned, Handled, Stopped, Target, FrameRefs, OneHolder
<1>5. OwnedWatchdogs'
  BY <1>b DEF OwnedWatchdogs
<1>6. JoinedBeforeDeleted'
  BY DEF JoinedBeforeDeleted
<1>7. EmptiedByDestroy'
  BY DEF EmptiedByDestroy, OwnerPhases
<1> QED
  BY <1>1, <1>2, <1>3, <1>4, <1>5, <1>6, <1>7

\* Impl::shutdown() signals only the Impl its caller answers for.
LEMMA ImplSignalOwned ==
  ASSUME Inv, ImplsOwned, NEW t \in Threads, ImplSignal(t)
  PROVE  ImplsOwned'
<1> USE PartiesAssumption, NoneAssumption DEF Inv, TypeOK, SyncOwned, FrameShape, Threads, syncVars, implVars, At, Goto,
  Enter, Return, Holding, ShuttingDown, OnCandidate, ImplsOwned, ImplSignal
<1>1. FrameRefs'
  BY DEF FrameRefs
<1>2. OneHolder'
  BY DEF OneHolder, Target, FrameRefs
<1>3. LiveIffOwned'
  BY DEF LiveIffOwned, Owned
<1>4. ShutBeforeDropped'
  BY DEF ShutBeforeDropped, Owned, Handled, Stopped, Target, FrameRefs, OneHolder
<1>5. OwnedWatchdogs'
  BY DEF OwnedWatchdogs, Owned
<1>6. JoinedBeforeDeleted'
  BY DEF JoinedBeforeDeleted, LiveIffOwned, Owned, Target
<1>7. EmptiedByDestroy'
  BY DEF EmptiedByDestroy, OwnerPhases
<1> QED
  BY <1>1, <1>2, <1>3, <1>4, <1>5, <1>6, <1>7

\* Impl::shutdown() joins the watchdog of that Impl.
LEMMA ImplJoinOwned ==
  ASSUME Inv, ImplsOwned, NEW t \in Threads, ImplJoin(t)
  PROVE  ImplsOwned'
<1> USE PartiesAssumption, NoneAssumption DEF Inv, TypeOK, SyncOwned, FrameShape, Threads, syncVars, implVars, At, Goto,
  Enter, Return, Holding, ShuttingDown, OnCandidate, ImplsOwned, ImplJoin
<1>1. FrameRefs'
  BY DEF FrameRefs
<1>2. OneHolder'
  BY DEF OneHolder, Target, FrameRefs
<1>3. LiveIffOwned'
  BY DEF LiveIffOwned, Owned
<1>4. ShutBeforeDropped'
  BY DEF ShutBeforeDropped, Owned, Handled, Stopped, Target, FrameRefs, OneHolder
<1>5. OwnedWatchdogs'
  BY DEF OwnedWatchdogs, Owned
<1>6. JoinedBeforeDeleted'
  BY DEF JoinedBeforeDeleted
<1>7. EmptiedByDestroy'
  BY DEF EmptiedByDestroy, OwnerPhases
<1> QED
  BY <1>1, <1>2, <1>3, <1>4, <1>5, <1>6, <1>7

\* shutdownInternal() takes over from pImpl; no recreation is under way.
LEMMA TakeImplOwned ==
  ASSUME Inv, ImplsOwned, NEW t \in Threads, TakeImpl(t)
  PROVE  ImplsOwned'
<1> USE PartiesAssumption, NoneAssumption DEF Inv, TypeOK, SyncOwned, FrameShape, Threads, syncVars, implVars, At, Goto,
  Enter, Return, Holding, ShuttingDown, OnCandidate, ImplsOwned, TakeImpl
<1>a. /\ self[t] = None /\ \A u \in Threads : old[u] = None
  BY DEF FrameRefs, OneRecreation, Recreates, RecreationQuiet, OwnerPhases
<1>b. \A j \in Impls : Owned(j)' <=> Owned(j)
  BY <1>a DEF Owned
<1>1. FrameRefs'
  BY <1>a DEF FrameRefs
<1>2. OneHolder'
  BY DEF OneHolder, Target, FrameRefs
<1>3. LiveIffOwned'
  BY <1>b DEF LiveIffOwned
<1>4. ShutBeforeDropped'
  BY DEF ShutBeforeDropped, Owned, Handled, Stopped, Target, FrameRefs, OneHolder
<1>5. OwnedWatchdogs'
  BY <1>b DEF OwnedWatchdogs
<1>6. JoinedBeforeDeleted'
  BY DEF JoinedBeforeDeleted
<1>7. EmptiedByDestroy'
  BY DEF EmptiedByDestroy, OwnerPhases
<1> QED
  BY <1>1, <1>2, <1>3, <1>4, <1>5, <1>6, <1>7

\* A candidate is an Impl nobody refers to; the recreation answers for it.
LEMMA CandidateOwned ==
  ASSUME Inv, ImplsOwned, NEW t \in Threads, At(t, "recreate", "new"), NEW i \in Impls, client[i] = "none",
         client' = [client EXCEPT ![i] = "live"], self' = [self EXCEPT ![t] = i],
         pc' = [pc EXCEPT ![t] = "configure"], UNCHANGED <<obj, pImpl, wdog, stop, call, old>>
  PROVE  ImplsOwned'
<1>1. /\ \A u \in Threads : /\ self'[u] = IF u = t THEN i ELSE self[u]
                            /\ pc'[u] = IF u = t THEN "configure" ELSE pc[u]
                            /\ old'[u] = old[u]
      /\ \A j \in Impls : client'[j] = IF j = i THEN "live" ELSE client[j]
  BY DEF Inv, TypeOK
<1>2. ~Holding(t) /\ Holding(t)'
  BY <1>1 DEF At, Holding, ShuttingDown, OnCandidate
<1>3. \A u \in Threads : u # t => (Holding(u)' <=> Holding(u))
  BY <1>1 DEF Holding
<1>4. self[t] = None /\ old[t] = None
  BY <1>2 DEF ImplsOwned, FrameRefs, At, ShuttingDown
<1>5. pImpl # i /\ \A u \in Threads : self[u] # i /\ old[u] # i
  BY DEF ImplsOwned, LiveIffOwned, Owned
<1>6. \A u \in Threads : Target(u)' = (IF u = t THEN i ELSE Target(u)) /\ Target(u) # i
  BY <1>1, <1>4, <1>5 DEF Target
<1>7. \A j \in Impls : Owned(j)' <=> (Owned(j) \/ j = i)
  BY <1>1, <1>4, NoneAssumption DEF Owned
<1>8. \A j \in Impls : (Handled(j)' <=> (Handled(j) \/ j = i)) /\ (Stopped(j)' <=> Stopped(j))
  BY <1>2, <1>3, <1>6 DEF Handled, Stopped
<1>9. FrameRefs'
  <2> SUFFICES ASSUME NEW u \in Threads
               PROVE  /\ Holding(u)' => self'[u] \in Impls
                      /\ self'[u] # None =>
                           \/ Holding(u)'
                           \/ call'[u] = "api" /\ pc'[u] # "snap"
                           \/ call'[u] = "recreate" /\ pc'[u] \in {"reset", "tail"}
                      /\ old'[u] # None =>
                           /\ call'[u] = "recreate" /\ pc'[u] \in ShuttingDown
                           /\ pImpl' = self'[u]
    BY DEF FrameRefs
  <2>1. CASE u = t
    BY <1>1, <1>2, <1>4, <2>1
  <2>2. CASE u # t
    BY <1>1, <1>3, <2>2 DEF ImplsOwned, FrameRefs
  <2> QED
    BY <2>1, <2>2
<1>10. OneHolder'
  BY <1>2, <1>3, <1>5, <1>6 DEF ImplsOwned, OneHolder
<1>11. LiveIffOwned'
  BY <1>1, <1>7 DEF ImplsOwned, LiveIffOwned
<1>12. ShutBeforeDropped'
  <2>1. \A j \in Impls : Owned(j)' => Handled(j)' \/ Stopped(j)'
    BY <1>7, <1>8 DEF ImplsOwned, ShutBeforeDropped
  <2>2. \A u \in Threads : pc'[u] = "release" => Stopped(Target(u))'
    BY <1>1, <1>6 DEF ImplsOwned, ShutBeforeDropped, Stopped
  <2> QED
    BY <2>1, <2>2 DEF ShutBeforeDropped
<1>13. OwnedWatchdogs' /\ JoinedBeforeDeleted'
  BY <1>1, <1>7 DEF ImplsOwned, OwnedWatchdogs, JoinedBeforeDeleted
<1>14. EmptiedByDestroy'
  BY <1>1 DEF ImplsOwned, EmptiedByDestroy, At
<1> QED
  BY <1>9, <1>10, <1>11, <1>12, <1>13, <1>14 DEF ImplsOwned

\* Creating the candidate, or failing to.
LEMMA RecreateNewOwned ==
  ASSUME Inv, ImplsOwned, NEW t \in Threads, RecreateNew(t)
  PROVE  ImplsOwned'
<1> USE DEF RecreateNew, RecreateFrame, Goto
<1>1. CASE Goto(t, "reset") /\ UNCHANGED <<client, self>>
  <2>1. /\ UNCHANGED <<pImpl, client, wdog, stop, self, old>>
        /\ \A u \in Threads : Holding(u)' <=> Holding(u)
        /\ \A u \in Threads : pc'[u] = "release" => pc[u] = "release"
    BY <1>1 DEF Inv, TypeOK, At, Holding, ShuttingDown, OnCandidate
  <2>2. FrameRefs'
    BY <1>1 DEF Inv, TypeOK, At, Holding, ShuttingDown, OnCandidate, ImplsOwned, FrameRefs
  <2>3. EmptiedByDestroy'
    BY <1>1 DEF Inv, TypeOK, At, ImplsOwned, EmptiedByDestroy
  <2> QED
    BY <2>1, <2>2, <2>3, MoveOwned
<1>2. CASE \E i \in Impls : /\ client[i] = "none"
                            /\ client' = [client EXCEPT ![i] = "live"]
                            /\ self' = [self EXCEPT ![t] = i]
                            /\ Goto(t, "configure")
  BY <1>2, CandidateOwned
<1> QED
  BY <1>1, <1>2

\* The candidate's watchdog starts while the recreation answers for it.
LEMMA RecreateWatchOwned ==
  ASSUME Inv, ImplsOwned, NEW t \in Threads, RecreateWatch(t)
  PROVE  ImplsOwned'
<1> USE PartiesAssumption, NoneAssumption DEF Inv, TypeOK, SyncOwned, FrameShape, Threads, syncVars, implVars, At, Goto,
  Enter, Return, Holding, ShuttingDown, OnCandidate, ImplsOwned, RecreateWatch, RecreateFrame
<1>1. FrameRefs'
  BY DEF FrameRefs
<1>2. OneHolder'
  BY DEF OneHolder, Target, FrameRefs
<1>3. LiveIffOwned'
  BY DEF LiveIffOwned, Owned
<1>4. ShutBeforeDropped'
  BY DEF ShutBeforeDropped, Owned, Handled, Stopped, Target, FrameRefs, OneHolder
<1>5. OwnedWatchdogs'
  BY DEF OwnedWatchdogs, Owned
<1>6. JoinedBeforeDeleted'
  BY DEF JoinedBeforeDeleted, LiveIffOwned, Owned, FrameRefs
<1>7. EmptiedByDestroy'
  BY DEF EmptiedByDestroy, OwnerPhases
<1> QED
  BY <1>1, <1>2, <1>3, <1>4, <1>5, <1>6, <1>7

\* The swap exchanges what pImpl and the recreation answer for.
LEMMA RecreateSwapOwned ==
  ASSUME Inv, ImplsOwned, NEW t \in Threads, RecreateSwap(t)
  PROVE  ImplsOwned'
<1> USE PartiesAssumption, NoneAssumption DEF Inv, TypeOK, SyncOwned, FrameShape, Threads, syncVars, implVars, At, Goto,
  Enter, Return, Holding, ShuttingDown, OnCandidate, ImplsOwned, RecreateSwap, RecreateFrame
<1>a. /\ pImpl \in Impls /\ recreating /\ self[t] \in Impls /\ \A u \in Threads : old[u] = None
  BY DEF FrameRefs, OneRecreation, Recreates, RecreationQuiet, Chosen, Drained
<1>b. \A j \in Impls : Owned(j)' <=> Owned(j)
  BY <1>a DEF Owned
<1>1. FrameRefs'
  BY <1>a DEF FrameRefs
<1>2. OneHolder'
  BY <1>a DEF OneHolder, Target, FrameRefs
<1>3. LiveIffOwned'
  BY <1>b DEF LiveIffOwned
<1>4. ShutBeforeDropped'
  BY DEF ShutBeforeDropped, Owned, Handled, Stopped, Target, FrameRefs, OneHolder
<1>5. OwnedWatchdogs'
  BY <1>b DEF OwnedWatchdogs
<1>6. JoinedBeforeDeleted'
  BY DEF JoinedBeforeDeleted
<1>7. EmptiedByDestroy'
  BY <1>a DEF EmptiedByDestroy, OwnerPhases, OneRecreation, Recreates
<1> QED
  BY <1>1, <1>2, <1>3, <1>4, <1>5, <1>6, <1>7

\* A watchdog thread begins.
LEMMA WatchdogStartsOwned ==
  ASSUME Inv, ImplsOwned, NEW i \in Impls, WatchdogStarts(i)
  PROVE  ImplsOwned'
<1> USE PartiesAssumption, NoneAssumption DEF Inv, TypeOK, SyncOwned, FrameShape, Threads, syncVars, implVars, At, Goto,
  Enter, Return, Holding, ShuttingDown, OnCandidate, ImplsOwned, WatchdogStarts
<1>1. FrameRefs'
  BY DEF FrameRefs
<1>2. OneHolder'
  BY DEF OneHolder, Target, FrameRefs
<1>3. LiveIffOwned'
  BY DEF LiveIffOwned, Owned
<1>4. ShutBeforeDropped'
  BY DEF ShutBeforeDropped, Owned, Handled, Stopped, Target, FrameRefs, OneHolder
<1>5. OwnedWatchdogs'
  BY DEF OwnedWatchdogs, Owned
<1>6. JoinedBeforeDeleted'
  BY DEF JoinedBeforeDeleted
<1>7. EmptiedByDestroy'
  BY DEF EmptiedByDestroy, OwnerPhases
<1> QED
  BY <1>1, <1>2, <1>3, <1>4, <1>5, <1>6, <1>7

\* A watchdog gives up.
LEMMA WatchdogGivesUpOwned ==
  ASSUME Inv, ImplsOwned, NEW i \in Impls, WatchdogGivesUp(i)
  PROVE  ImplsOwned'
<1> USE PartiesAssumption, NoneAssumption DEF Inv, TypeOK, SyncOwned, FrameShape, Threads, syncVars, implVars, At, Goto,
  Enter, Return, Holding, ShuttingDown, OnCandidate, ImplsOwned, WatchdogGivesUp
<1>1. FrameRefs'
  BY DEF FrameRefs
<1>2. OneHolder'
  BY DEF OneHolder, Target, FrameRefs
<1>3. LiveIffOwned'
  BY DEF LiveIffOwned, Owned
<1>4. ShutBeforeDropped'
  BY DEF ShutBeforeDropped, Owned, Handled, Stopped, Target, FrameRefs, OneHolder
<1>5. OwnedWatchdogs'
  BY DEF OwnedWatchdogs, Owned
<1>6. JoinedBeforeDeleted'
  BY DEF JoinedBeforeDeleted
<1>7. EmptiedByDestroy'
  BY DEF EmptiedByDestroy, OwnerPhases
<1> QED
  BY <1>1, <1>2, <1>3, <1>4, <1>5, <1>6, <1>7

\* A watchdog ends; its reference was not the last one.
LEMMA WatchdogExitsOwned ==
  ASSUME Inv, ImplsOwned, NEW i \in Impls, WatchdogExits(i)
  PROVE  ImplsOwned'
<1> USE PartiesAssumption, NoneAssumption DEF Inv, TypeOK, SyncOwned, FrameShape, Threads, syncVars, implVars, At, Goto,
  Enter, Return, Holding, ShuttingDown, OnCandidate, ImplsOwned, WatchdogExits
<1>a. \A j \in Impls : Owned(j)' <=> Owned(j)
  BY DEF Owned
<1>b. client' = client
  BY <1>a DEF Reap, Referenced, LiveIffOwned
<1>1. FrameRefs'
  BY DEF FrameRefs
<1>2. OneHolder'
  BY DEF OneHolder, Target, FrameRefs
<1>3. LiveIffOwned'
  BY <1>a, <1>b DEF LiveIffOwned
<1>4. ShutBeforeDropped'
  BY DEF ShutBeforeDropped, Owned, Handled, Stopped, Target, FrameRefs, OneHolder
<1>5. OwnedWatchdogs'
  BY DEF OwnedWatchdogs, Owned
<1>6. JoinedBeforeDeleted'
  BY <1>b DEF JoinedBeforeDeleted
<1>7. EmptiedByDestroy'
  BY DEF EmptiedByDestroy, OwnerPhases
<1> QED
  BY <1>1, <1>2, <1>3, <1>4, <1>5, <1>6, <1>7
-----------------------------------------------------------------------------
(* The theorems.                                                           *)

\* At first nobody refers to any Impl.
LEMMA InitOwned == Init => ImplsOwned
<1> SUFFICES ASSUME Init PROVE ImplsOwned
  OBVIOUS
<1>1. \A i \in Impls : ~Owned(i)
  BY NoneAssumption DEF Init, Owned
<1>2. \A t \in Threads : ~Holding(t) /\ self[t] = None /\ old[t] = None /\ pc[t] # "release"
  BY DEF Init, Holding, ShuttingDown, OnCandidate
<1> QED
  BY <1>1, <1>2 DEF Init, ImplsOwned, FrameRefs, OneHolder, LiveIffOwned, ShutBeforeDropped, OwnedWatchdogs,
    JoinedBeforeDeleted, EmptiedByDestroy

\* Every step keeps ImplsOwned.
LEMMA NextOwned == Inv /\ ImplsOwned /\ [Next]_vars => ImplsOwned'
<1> SUFFICES ASSUME Inv, ImplsOwned, [Next]_vars PROVE ImplsOwned'
  OBVIOUS
<1>0. Inv'
  BY NextInv
<1>1. CASE Create \/ DestroyBegin \/ Destroy
  BY <1>1, CreateNewOwned, CreateWatchOwned, OwnerMoves DEF Create
<1>2. ASSUME NEW t \in Threads, Step(t) PROVE ImplsOwned'
  <2>1. CASE Api(t)
    BY <1>0, <2>1, StepMoves, ApiSnapOwned, ApiDropOwned DEF Api
  <2>2. CASE ImplShutdown(t)
    BY <1>0, <2>2, ImplSignalOwned, ImplJoinOwned, ImplReleaseOwned DEF ImplShutdown
  <2>3. CASE TakeImpl(t) \/ ShutdownDone(t)
    BY <2>3, TakeImplOwned, StepMoves
  <2>4. CASE Recreate(t)
    BY <1>0, <2>4, StepMoves, RecreateNewOwned, RecreateWatchOwned, RecreateSwapOwned, RecreateTailOwned
      DEF Recreate
  <2> QED
    BY <1>2, <2>1, <2>2, <2>3, <2>4 DEF Step
<1>3. ASSUME NEW t \in Workers, Begin(t) PROVE ImplsOwned'
  BY <1>3, BeginMoves
<1>4. ASSUME NEW i \in Impls, WatchdogStarts(i) \/ WatchdogGivesUp(i) \/ WatchdogExits(i)
      PROVE  ImplsOwned'
  BY <1>4, WatchdogStartsOwned, WatchdogGivesUpOwned, WatchdogExitsOwned
<1>5. CASE UNCHANGED vars
  <2>1. /\ UNCHANGED <<pImpl, client, wdog, stop, self, old>>
        /\ \A u \in Threads : Holding(u)' <=> Holding(u)
        /\ \A u \in Threads : pc'[u] = "release" => pc[u] = "release"
    BY <1>5 DEF vars, Holding
  <2>2. FrameRefs' /\ EmptiedByDestroy'
    BY <1>5 DEF vars, ImplsOwned, FrameRefs, EmptiedByDestroy, Holding
  <2> QED
    BY <2>1, <2>2, MoveOwned
<1> QED
  BY <1>1, <1>2, <1>3, <1>4, <1>5 DEF Next

\* Every Impl that is not shut down is in pImpl or in the hands of exactly one
\* call, through create(), shutdown(), recreateGiveUpClient() and ~OPC_UA_Client.
THEOREM OneOwner == Spec => []ImplsOwned
BY InitOwned, NextOwned, Invariance, PTL DEF Spec

\* No path of create(), recreateGiveUpClient() or the destructor abandons a
\* watchdog thread.
THEOREM WatchdogsOwned == Spec => []OwnedWatchdogs
<1>1. ImplsOwned => OwnedWatchdogs
  BY DEF ImplsOwned
<1> QED
  BY <1>1, OneOwner, PTL

\* ~Impl runs after Impl::shutdown(), whoever drops the last shared_ptr: an API
\* call, the winner of shutdown(), a recreation or the destructor.
THEOREM DeletedAfterJoin == Spec => []JoinedBeforeDeleted
<1>1. ImplsOwned => JoinedBeforeDeleted
  BY DEF ImplsOwned
<1> QED
  BY <1>1, OneOwner, PTL

\* Once the facade is freed no watchdog is left, and the only SDK clients are
\* those in the tail of a recreation, if the owner let API calls return first.
THEOREM CleanAfterDestroy == JoinsApi => (Spec => []DestroyedClean)
<1> SUFFICES ASSUME JoinsApi PROVE Spec => []DestroyedClean
  OBVIOUS
<1>1. Inv /\ ImplsOwned => DestroyedClean
  <2> SUFFICES ASSUME Inv, ImplsOwned, obj = "freed", NEW i \in Impls
               PROVE  /\ wdog[i] \in {"none", "exited"}
                      /\ client[i] = "live" => \E t \in Threads : At(t, "recreate", "tail") /\ self[t] = i
    BY DEF DestroyedClean
  <2> USE DEF Inv, ImplsOwned
  <2>1. pImpl = None
    BY DEF EmptiedByDestroy
  <2>2. \A t \in Threads : call[t] = "none" \/ At(t, "recreate", "tail")
    BY DEF SyncOwned, OwnerPhases, At
  <2>3. \A t \in Threads : ~Holding(t) /\ old[t] = None
    BY <2>2 DEF SyncOwned, FrameShape, At, Holding, ShuttingDown, OnCandidate, FrameRefs
  <2>4. ~Handled(i)
    BY <2>1, <2>3, NoneAssumption DEF Handled
  <2>5. wdog[i] \in {"none", "exited"}
    BY <2>4 DEF TypeOK, OwnedWatchdogs, ShutBeforeDropped, Stopped
  <2>6. ASSUME client[i] = "live"
        PROVE  \E t \in Threads : At(t, "recreate", "tail") /\ self[t] = i
    <3>1. PICK t \in Threads : self[t] = i
      BY <2>1, <2>3, <2>6, NoneAssumption DEF LiveIffOwned, Owned
    <3>2. call[t] # "none"
      BY <2>3, <3>1, NoneAssumption DEF FrameRefs
    <3> QED
      BY <2>2, <3>1, <3>2
  <2> QED
    BY <2>5, <2>6
<1> QED
  BY <1>1, Invariance, OneOwner, PTL

-----------------------------------------------------------------------------
(* The facade keeps to ImplContract with every Impl.  What the contract    *)
(* needs besides ImplsOwned is how far Impl::shutdown() has come with the  *)
(* Impl of pImpl and with the one that each call answers for.              *)

\* The call has not begun to shut its Impl down, or is in the middle of it.
HeldPhase(t) ==
  /\ Holding(t) /\ pc[t] \notin {"join", "release"} => stop[Target(t)] = "up"
  /\ pc[t] = "join" => stop[Target(t)] = "signalled"
  /\ call[t] = "recreate" /\ pc[t] \in {"configure", "connect", "watch"} => wdog[Target(t)] = "none"

\* An Impl is new until its client is, the one in pImpl is not shut down, and
\* create() has not started its watchdog yet.
StopPhases ==
  /\ \A i \in Impls : client[i] = "none" => wdog[i] = "none" /\ stop[i] = "up"
  /\ At(Owner, "create", "new") => \A i \in Impls : client[i] = "none"
  /\ pImpl # None => stop[pImpl] = "up"
  /\ call[Owner] = "create" /\ pc[Owner] # "new" => pImpl \in Impls /\ wdog[pImpl] = "none"
  /\ \A t \in Threads : HeldPhase(t)

ContractStep == \A i \in Impls : [Contract(i)!Next]_(Contract(i)!vars)

\* A step that leaves the Impls alone.
LEMMA QuietContract ==
  ASSUME UNCHANGED <<wdog, givenUp, stop>>
  PROVE  ContractStep
BY DEF ContractStep, Contract!vars

\* What a step that changes neither pImpl, a watchdog nor a stop flag has to
\* keep.
LEMMA PhaseFrame ==
  ASSUME StopPhases, UNCHANGED <<pImpl, wdog, stop>>,
         \A i \in Impls : client'[i] = "none" => client[i] = "none",
         ~At(Owner, "create", "new")',
         call'[Owner] = "create" /\ pc'[Owner] # "new" => call[Owner] = "create" /\ pc[Owner] # "new",
         \A t \in Threads : HeldPhase(t)'
  PROVE  StopPhases'
BY DEF StopPhases

\* The step that drops the last reference makes no client new again.
LEMMA ReapKeepsUsed ==
  ASSUME TypeOK, Reap
  PROVE  \A i \in Impls : client'[i] = "none" => client[i] = "none"
BY DEF TypeOK, Reap

\* Moves of the owner.
LEMMA OwnerPhase ==
  ASSUME Inv, ImplsOwned, StopPhases, CreateStage \/ DestroyBegin \/ Destroy
  PROVE  StopPhases'
<1> USE PartiesAssumption, NoneAssumption DEF Inv, TypeOK, SyncOwned, FrameShape, Threads, syncVars, implVars, At, Goto,
  Enter, Return, ShuttingDown, OnCandidate
<1>1. CASE CreateStage
  <2>1. /\ UNCHANGED <<pImpl, wdog, stop>>
        /\ \A i \in Impls : client'[i] = "none" => client[i] = "none"
        /\ ~At(Owner, "create", "new")'
        /\ call'[Owner] = "create" /\ pc'[Owner] # "new" => call[Owner] = "create" /\ pc[Owner] # "new"
    BY <1>1 DEF CreateStage, OwnerPhases
  <2>2. \A u \in Threads : HeldPhase(u)'
    BY <1>1 DEF CreateStage, StopPhases, HeldPhase, Holding, Target, ImplsOwned, FrameRefs
  <2> QED
    BY <2>1, <2>2, PhaseFrame
<1>2. CASE DestroyBegin
  <2>1. /\ UNCHANGED <<pImpl, wdog, stop>>
        /\ \A i \in Impls : client'[i] = "none" => client[i] = "none"
        /\ ~At(Owner, "create", "new")'
        /\ call'[Owner] = "create" /\ pc'[Owner] # "new" => call[Owner] = "create" /\ pc[Owner] # "new"
    BY <1>2 DEF DestroyBegin, OwnerPhases
  <2>2. \A u \in Threads : HeldPhase(u)'
    BY <1>2 DEF DestroyBegin, StopPhases, HeldPhase, Holding, Target, ImplsOwned, FrameRefs
  <2> QED
    BY <2>1, <2>2, PhaseFrame
<1>3. CASE DestroyWait
  <2>1. /\ UNCHANGED <<pImpl, wdog, stop>>
        /\ \A i \in Impls : client'[i] = "none" => client[i] = "none"
        /\ ~At(Owner, "create", "new")'
        /\ call'[Owner] = "create" /\ pc'[Owner] # "new" => call[Owner] = "create" /\ pc[Owner] # "new"
    BY <1>3 DEF DestroyWait, OwnerPhases
  <2>2. \A u \in Threads : HeldPhase(u)'
    BY <1>3 DEF DestroyWait, StopPhases, HeldPhase, Holding, Target, ImplsOwned, FrameRefs
  <2> QED
    BY <2>1, <2>2, PhaseFrame
<1>4. CASE DestroyDone
  <2>1. /\ UNCHANGED <<pImpl, wdog, stop>>
        /\ \A i \in Impls : client'[i] = "none" => client[i] = "none"
        /\ ~At(Owner, "create", "new")'
        /\ call'[Owner] = "create" /\ pc'[Owner] # "new" => call[Owner] = "create" /\ pc[Owner] # "new"
    BY <1>4 DEF DestroyDone, OwnerPhases
  <2>2. \A u \in Threads : HeldPhase(u)'
    BY <1>4 DEF DestroyDone, StopPhases, HeldPhase, Holding, Target, ImplsOwned, FrameRefs
  <2> QED
    BY <2>1, <2>2, PhaseFrame
<1> QED
  BY <1>1, <1>2, <1>3, <1>4 DEF Destroy

\* Entering a call.
LEMMA BeginPhase ==
  ASSUME Inv, ImplsOwned, StopPhases, NEW t \in Workers, Begin(t)
  PROVE  StopPhases'
<1> USE PartiesAssumption, NoneAssumption DEF Inv, TypeOK, SyncOwned, FrameShape, Threads, syncVars, implVars, At, Goto,
  Enter, Return, ShuttingDown, OnCandidate
<1>1. CASE ApiBegin(t)
  <2>1. /\ UNCHANGED <<pImpl, wdog, stop>>
        /\ \A i \in Impls : client'[i] = "none" => client[i] = "none"
        /\ ~At(Owner, "create", "new")'
        /\ call'[Owner] = "create" /\ pc'[Owner] # "new" => call[Owner] = "create" /\ pc[Owner] # "new"
    BY <1>1 DEF ApiBegin, OwnerPhases
  <2>2. \A u \in Threads : HeldPhase(u)'
    BY <1>1 DEF ApiBegin, StopPhases, HeldPhase, Holding, Target, ImplsOwned, FrameRefs
  <2> QED
    BY <2>1, <2>2, PhaseFrame
<1>2. CASE ShutdownBegin(t)
  <2>1. /\ UNCHANGED <<pImpl, wdog, stop>>
        /\ \A i \in Impls : client'[i] = "none" => client[i] = "none"
        /\ ~At(Owner, "create", "new")'
        /\ call'[Owner] = "create" /\ pc'[Owner] # "new" => call[Owner] = "create" /\ pc[Owner] # "new"
    BY <1>2 DEF ShutdownBegin, OwnerPhases
  <2>2. \A u \in Threads : HeldPhase(u)'
    BY <1>2 DEF ShutdownBegin, StopPhases, HeldPhase, Holding, Target, ImplsOwned, FrameRefs
  <2> QED
    BY <2>1, <2>2, PhaseFrame
<1>3. CASE RecreateBegin(t)
  <2>1. /\ UNCHANGED <<pImpl, wdog, stop>>
        /\ \A i \in Impls : client'[i] = "none" => client[i] = "none"
        /\ ~At(Owner, "create", "new")'
        /\ call'[Owner] = "create" /\ pc'[Owner] # "new" => call[Owner] = "create" /\ pc[Owner] # "new"
    BY <1>3 DEF RecreateBegin, RecreateFrame, OwnerPhases
  <2>2. \A u \in Threads : HeldPhase(u)'
    BY <1>3 DEF RecreateBegin, RecreateFrame, StopPhases, HeldPhase, Holding, Target, ImplsOwned, FrameRefs
  <2> QED
    BY <2>1, <2>2, PhaseFrame
<1> QED
  BY <1>1, <1>2, <1>3 DEF Begin

\* An API call answers for no Impl.
LEMMA ApiPhase ==
  ASSUME Inv, ImplsOwned, StopPhases, NEW t \in Threads, Api(t)
  PROVE  StopPhases'
<1> USE PartiesAssumption, NoneAssumption DEF Inv, TypeOK, SyncOwned, FrameShape, Threads, syncVars, implVars, At, Goto,
  Enter, Return, ShuttingDown, OnCandidate
<1>1. CASE ApiSnap(t)
  <2>1. /\ UNCHANGED <<pImpl, wdog, stop>>
        /\ \A i \in Impls : client'[i] = "none" => client[i] = "none"
        /\ ~At(Owner, "create", "new")'
        /\ call'[Owner] = "create" /\ pc'[Owner] # "new" => call[Owner] = "create" /\ pc[Owner] # "new"
    BY <1>1 DEF ApiSnap, OwnerPhases
  <2>2. \A u \in Threads : HeldPhase(u)'
    BY <1>1 DEF ApiSnap, StopPhases, HeldPhase, Holding, Target, ImplsOwned, FrameRefs
  <2> QED
    BY <2>1, <2>2, PhaseFrame
<1>2. CASE ApiUse(t)
  <2>1. /\ UNCHANGED <<pImpl, wdog, stop>>
        /\ \A i \in Impls : client'[i] = "none" => client[i] = "none"
        /\ ~At(Owner, "create", "new")'
        /\ call'[Owner] = "create" /\ pc'[Owner] # "new" => call[Owner] = "create" /\ pc[Owner] # "new"
    BY <1>2 DEF ApiUse, OwnerPhases
  <2>2. \A u \in Threads : HeldPhase(u)'
    BY <1>2 DEF ApiUse, StopPhases, HeldPhase, Holding, Target, ImplsOwned, FrameRefs
  <2> QED
    BY <2>1, <2>2, PhaseFrame
<1>3. CASE ApiUnlease(t)
  <2>1. /\ UNCHANGED <<pImpl, wdog, stop>>
        /\ \A i \in Impls : client'[i] = "none" => client[i] = "none"
        /\ ~At(Owner, "create", "new")'
        /\ call'[Owner] = "create" /\ pc'[Owner] # "new" => call[Owner] = "create" /\ pc[Owner] # "new"
    BY <1>3 DEF ApiUnlease, OwnerPhases
  <2>2. \A u \in Threads : HeldPhase(u)'
    BY <1>3 DEF ApiUnlease, StopPhases, HeldPhase, Holding, Target, ImplsOwned, FrameRefs
  <2> QED
    BY <2>1, <2>2, PhaseFrame
<1>4. CASE ApiDrop(t)
  <2>1. /\ UNCHANGED <<pImpl, wdog, stop>>
        /\ \A i \in Impls : client'[i] = "none" => client[i] = "none"
        /\ ~At(Owner, "create", "new")'
        /\ call'[Owner] = "create" /\ pc'[Owner] # "new" => call[Owner] = "create" /\ pc[Owner] # "new"
    BY <1>4, ReapKeepsUsed DEF ApiDrop, OwnerPhases
  <2>2. \A u \in Threads : HeldPhase(u)'
    BY <1>4 DEF ApiDrop, StopPhases, HeldPhase, Holding, Target, ImplsOwned, FrameRefs
  <2> QED
    BY <2>1, <2>2, PhaseFrame
<1> QED
  BY <1>1, <1>2, <1>3, <1>4 DEF Api

\* The end of a shutdown.
LEMMA DonePhase ==
  ASSUME Inv, ImplsOwned, StopPhases, NEW t \in Threads, ShutdownDone(t) \/ ImplRelease(t)
  PROVE  StopPhases'
<1> USE PartiesAssumption, NoneAssumption DEF Inv, TypeOK, SyncOwned, FrameShape, Threads, syncVars, implVars, At, Goto,
  Enter, Return, ShuttingDown, OnCandidate
<1>1. CASE ShutdownDone(t)
  <2>1. /\ UNCHANGED <<pImpl, wdog, stop>>
        /\ \A i \in Impls : client'[i] = "none" => client[i] = "none"
        /\ ~At(Owner, "create", "new")'
        /\ call'[Owner] = "create" /\ pc'[Owner] # "new" => call[Owner] = "create" /\ pc[Owner] # "new"
    BY <1>1 DEF ShutdownDone, OwnerPhases
  <2>2. \A u \in Threads : HeldPhase(u)'
    BY <1>1 DEF ShutdownDone, StopPhases, HeldPhase, Holding, Target, ImplsOwned, FrameRefs
  <2> QED
    BY <2>1, <2>2, PhaseFrame
<1>2. CASE ImplRelease(t)
  <2>1. /\ UNCHANGED <<pImpl, wdog, stop>>
        /\ \A i \in Impls : client'[i] = "none" => client[i] = "none"
        /\ ~At(Owner, "create", "new")'
        /\ call'[Owner] = "create" /\ pc'[Owner] # "new" => call[Owner] = "create" /\ pc[Owner] # "new"
    BY <1>2, ReapKeepsUsed DEF ImplRelease, OwnerPhases
  <2>2. \A u \in Threads : HeldPhase(u)'
    BY <1>2 DEF ImplRelease, StopPhases, HeldPhase, Holding, Target, ImplsOwned, FrameRefs
  <2> QED
    BY <2>1, <2>2, PhaseFrame
<1> QED
  BY <1>1, <1>2

\* A recreation between the steps that change an Impl.
LEMMA RecreatePhase ==
  ASSUME Inv, ImplsOwned, StopPhases, NEW t \in Threads,
         \/ RecreateDrain(t) \/ RecreateLife(t) \/ RecreateStage(t)
         \/ RecreateCheck(t) \/ RecreateReset(t) \/ RecreateTail(t)
  PROVE  StopPhases'
<1> USE PartiesAssumption, NoneAssumption DEF Inv, TypeOK, SyncOwned, FrameShape, Threads, syncVars, implVars, At, Goto,
  Enter, Return, ShuttingDown, OnCandidate
<1>1. CASE RecreateDrain(t)
  <2>1. /\ UNCHANGED <<pImpl, wdog, stop>>
        /\ \A i \in Impls : client'[i] = "none" => client[i] = "none"
        /\ ~At(Owner, "create", "new")'
        /\ call'[Owner] = "create" /\ pc'[Owner] # "new" => call[Owner] = "create" /\ pc[Owner] # "new"
    BY <1>1 DEF RecreateDrain, RecreateFrame, OwnerPhases
  <2>2. \A u \in Threads : HeldPhase(u)'
    BY <1>1 DEF RecreateDrain, RecreateFrame, StopPhases, HeldPhase, Holding, Target, ImplsOwned, FrameRefs
  <2> QED
    BY <2>1, <2>2, PhaseFrame
<1>2. CASE RecreateLife(t)
  <2>1. /\ UNCHANGED <<pImpl, wdog, stop>>
        /\ \A i \in Impls : client'[i] = "none" => client[i] = "none"
        /\ ~At(Owner, "create", "new")'
        /\ call'[Owner] = "create" /\ pc'[Owner] # "new" => call[Owner] = "create" /\ pc[Owner] # "new"
    BY <1>2 DEF RecreateLife, RecreateFrame, OwnerPhases
  <2>2. \A u \in Threads : HeldPhase(u)'
    BY <1>2 DEF RecreateLife, RecreateFrame, StopPhases, HeldPhase, Holding, Target, ImplsOwned, FrameRefs
  <2> QED
    BY <2>1, <2>2, PhaseFrame
<1>3. CASE RecreateStage(t)
  <2>1. /\ UNCHANGED <<pImpl, wdog, stop>>
        /\ \A i \in Impls : client'[i] = "none" => client[i] = "none"
        /\ ~At(Owner, "create", "new")'
        /\ call'[Owner] = "create" /\ pc'[Owner] # "new" => call[Owner] = "create" /\ pc[Owner] # "new"
    BY <1>3 DEF RecreateStage, RecreateFrame, OwnerPhases
  <2>2. \A u \in Threads : HeldPhase(u)'
    BY <1>3 DEF RecreateStage, RecreateFrame, StopPhases, HeldPhase, Holding, Target, ImplsOwned, FrameRefs
  <2> QED
    BY <2>1, <2>2, PhaseFrame
<1>4. CASE RecreateCheck(t)
  <2>1. /\ UNCHANGED <<pImpl, wdog, stop>>
        /\ \A i \in Impls : client'[i] = "none" => client[i] = "none"
        /\ ~At(Owner, "create", "new")'
        /\ call'[Owner] = "create" /\ pc'[Owner] # "new" => call[Owner] = "create" /\ pc[Owner] # "new"
    BY <1>4 DEF RecreateCheck, RecreateFrame, OwnerPhases
  <2>2. \A u \in Threads : HeldPhase(u)'
    BY <1>4 DEF RecreateCheck, RecreateFrame, StopPhases, HeldPhase, Holding, Target, ImplsOwned, FrameRefs
  <2> QED
    BY <2>1, <2>2, PhaseFrame
<1>5. CASE RecreateReset(t)
  <2>1. /\ UNCHANGED <<pImpl, wdog, stop>>
        /\ \A i \in Impls : client'[i] = "none" => client[i] = "none"
        /\ ~At(Owner, "create", "new")'
        /\ call'[Owner] = "create" /\ pc'[Owner] # "new" => call[Owner] = "create" /\ pc[Owner] # "new"
    BY <1>5 DEF RecreateReset, RecreateFrame, OwnerPhases
  <2>2. \A u \in Threads : HeldPhase(u)'
    BY <1>5 DEF RecreateReset, RecreateFrame, StopPhases, HeldPhase, Holding, Target, ImplsOwned, FrameRefs
  <2> QED
    BY <2>1, <2>2, PhaseFrame
<1>6. CASE RecreateTail(t)
  <2>1. /\ UNCHANGED <<pImpl, wdog, stop>>
        /\ \A i \in Impls : client'[i] = "none" => client[i] = "none"
        /\ ~At(Owner, "create", "new")'
        /\ call'[Owner] = "create" /\ pc'[Owner] # "new" => call[Owner] = "create" /\ pc[Owner] # "new"
    BY <1>6, ReapKeepsUsed DEF RecreateTail, RecreateFrame, OwnerPhases
  <2>2. \A u \in Threads : HeldPhase(u)'
    BY <1>6 DEF RecreateTail, RecreateFrame, StopPhases, HeldPhase, Holding, Target, ImplsOwned, FrameRefs
  <2> QED
    BY <2>1, <2>2, PhaseFrame
<1> QED
  BY <1>1, <1>2, <1>3, <1>4, <1>5, <1>6

\* The constructor's Impl is new.
LEMMA CreateNewPhase ==
  ASSUME Inv, ImplsOwned, StopPhases, CreateNew
  PROVE  StopPhases' /\ ContractStep
<1> USE PartiesAssumption, NoneAssumption DEF Inv, TypeOK, SyncOwned, FrameShape, Threads, syncVars, implVars, At, Goto,
  Enter, Return, ShuttingDown, OnCandidate, CreateNew
<1>1. \A u \in Threads : HeldPhase(u)'
  BY DEF OwnerPhases, HeldPhase, Holding
<1>2. StopPhases'
  BY <1>1 DEF StopPhases
<1> QED
  BY <1>2, QuietContract

\* create() starts the watchdog of an Impl that has none.
LEMMA CreateWatchPhase ==
  ASSUME Inv, ImplsOwned, StopPhases, CreateWatch
  PROVE  StopPhases' /\ ContractStep
<1> USE PartiesAssumption, NoneAssumption DEF Inv, TypeOK, SyncOwned, FrameShape, Threads, syncVars, implVars, At, Goto,
  Enter, Return, ShuttingDown, OnCandidate, CreateWatch
<1>1. \A u \in Threads : HeldPhase(u)'
  BY DEF OwnerPhases, HeldPhase, Holding
<1>2. pImpl \in Impls /\ wdog[pImpl] = "none" /\ stop[pImpl] = "up" /\ client[pImpl] = "live"
  BY DEF StopPhases, ImplsOwned, LiveIffOwned, Owned
<1>3. StopPhases'
  BY <1>1, <1>2 DEF StopPhases
<1>4. ContractStep
  BY <1>2 DEF ContractStep, Contract!vars, Contract!Next, Contract!Start
<1> QED
  BY <1>3, <1>4

\* Impl::shutdown() begins on an Impl that nobody has signalled before.
LEMMA ImplSignalPhase ==
  ASSUME Inv, ImplsOwned, StopPhases, NEW t \in Threads, ImplSignal(t)
  PROVE  StopPhases' /\ ContractStep
<1> USE PartiesAssumption, NoneAssumption DEF Inv, TypeOK, SyncOwned, FrameShape, Threads, syncVars, implVars, At, Goto,
  Enter, Return, ShuttingDown, OnCandidate, ImplSignal
<1>1. Holding(t) /\ Target(t) \in Impls /\ Target(t) # pImpl /\ stop[Target(t)] = "up"
  BY DEF Holding, Target, StopPhases, HeldPhase, ImplsOwned, FrameRefs, OneHolder
<1>2. client[Target(t)] = "live"
  BY <1>1 DEF ImplsOwned, LiveIffOwned, Owned, Target
<1>3. \A u \in Threads : u # t /\ Holding(u) => Target(u) # Target(t)
  BY <1>1 DEF ImplsOwned, OneHolder
<1>4. \A u \in Threads : Target(u)' = Target(u) /\ (Holding(u)' <=> Holding(u))
  BY DEF Target, Holding
<1>5. /\ \A j \in Impls : stop'[j] = IF j = Target(t) THEN "signalled" ELSE stop[j]
      /\ \A u \in Threads : pc'[u] = IF u = t THEN "join" ELSE pc[u]
  OBVIOUS
<1>6. \A u \in Threads : u # t => HeldPhase(u)'
  <2> SUFFICES ASSUME NEW u \in Threads, u # t PROVE HeldPhase(u)'
    OBVIOUS
  <2>1. HeldPhase(u)
    BY DEF StopPhases
  <2>2. CASE Holding(u)
    <3>1. Target(u) \in Impls
      BY <2>2 DEF ImplsOwned, FrameRefs, Target
    <3> QED
      BY <1>3, <1>4, <1>5, <2>1, <2>2, <3>1 DEF HeldPhase
  <2>3. CASE ~Holding(u)
    BY <1>4, <1>5, <2>3 DEF HeldPhase, Holding
  <2> QED
    BY <2>2, <2>3
<1>7. HeldPhase(t)'
  BY <1>1, <1>4, <1>5 DEF HeldPhase
<1>8. StopPhases'
  BY <1>1, <1>2, <1>5, <1>6, <1>7 DEF StopPhases, OwnerPhases
<1>9. ContractStep
  BY <1>1 DEF ContractStep, Contract!vars, Contract!Next, Contract!Signal
<1> QED
  BY <1>8, <1>9

\* The join returns when the Impl has no watchdog.
LEMMA ImplJoinPhase ==
  ASSUME Inv, ImplsOwned, StopPhases, NEW t \in Threads, ImplJoin(t)
  PROVE  StopPhases' /\ ContractStep
<1> USE PartiesAssumption, NoneAssumption DEF Inv, TypeOK, SyncOwned, FrameShape, Threads, syncVars, implVars, At, Goto,
  Enter, Return, ShuttingDown, OnCandidate, ImplJoin
<1>1. Holding(t) /\ Target(t) \in Impls /\ Target(t) # pImpl /\ stop[Target(t)] = "signalled"
  BY DEF Holding, Target, StopPhases, HeldPhase, ImplsOwned, FrameRefs, OneHolder
<1>2. client[Target(t)] = "live"
  BY <1>1 DEF ImplsOwned, LiveIffOwned, Owned, Target
<1>3. \A u \in Threads : u # t /\ Holding(u) => Target(u) # Target(t)
  BY <1>1 DEF ImplsOwned, OneHolder
<1>4. \A u \in Threads : Target(u)' = Target(u) /\ (Holding(u)' <=> Holding(u))
  BY DEF Target, Holding
<1>5. /\ \A j \in Impls : stop'[j] = IF j = Target(t) THEN "stopped" ELSE stop[j]
      /\ \A u \in Threads : pc'[u] = IF u = t THEN "release" ELSE pc[u]
  OBVIOUS
<1>6. \A u \in Threads : u # t => HeldPhase(u)'
  <2> SUFFICES ASSUME NEW u \in Threads, u # t PROVE HeldPhase(u)'
    OBVIOUS
  <2>1. HeldPhase(u)
    BY DEF StopPhases
  <2>2. CASE Holding(u)
    <3>1. Target(u) \in Impls
      BY <2>2 DEF ImplsOwned, FrameRefs, Target
    <3> QED
      BY <1>3, <1>4, <1>5, <2>1, <2>2, <3>1 DEF HeldPhase
  <2>3. CASE ~Holding(u)
    BY <1>4, <1>5, <2>3 DEF HeldPhase, Holding
  <2> QED
    BY <2>2, <2>3
<1>7. HeldPhase(t)'
  BY <1>5 DEF HeldPhase
<1>8. StopPhases'
  BY <1>1, <1>2, <1>5, <1>6, <1>7 DEF StopPhases, OwnerPhases
<1>9. ContractStep
  BY <1>1 DEF ContractStep, Contract!vars, Contract!Next, Contract!Join
<1> QED
  BY <1>8, <1>9

\* shutdownInternal() takes an Impl that is not shut down.
LEMMA TakeImplPhase ==
  ASSUME Inv, ImplsOwned, StopPhases, NEW t \in Threads, TakeImpl(t)
  PROVE  StopPhases' /\ ContractStep
<1> USE PartiesAssumption, NoneAssumption DEF Inv, TypeOK, SyncOwned, FrameShape, Threads, syncVars, implVars, At, Goto,
  Enter, Return, ShuttingDown, OnCandidate, TakeImpl
<1>1. old[t] = None
  BY DEF ImplsOwned, FrameRefs
<1>2. \A u \in Threads : HeldPhase(u)'
  BY <1>1 DEF StopPhases, HeldPhase, Holding, Target
<1>3. StopPhases'
  BY <1>2 DEF StopPhases, OwnerPhases
<1> QED
  BY <1>3, QuietContract

\* A candidate is new, and so its recreation's to start and to shut down.
LEMMA RecreateNewPhase ==
  ASSUME Inv, ImplsOwned, StopPhases, NEW t \in Threads, RecreateNew(t)
  PROVE  StopPhases' /\ ContractStep
<1> USE PartiesAssumption, NoneAssumption DEF Inv, TypeOK, SyncOwned, FrameShape, Threads, syncVars, implVars, At, Goto,
  Enter, Return, ShuttingDown, OnCandidate, RecreateNew, RecreateFrame
<1>1. old[t] = None
  BY DEF ImplsOwned, FrameRefs
<1>2. \A u \in Threads : HeldPhase(u)'
  BY <1>1 DEF StopPhases, HeldPhase, Holding, Target
<1>3. StopPhases'
  BY <1>2 DEF StopPhases, OwnerPhases
<1> QED
  BY <1>3, QuietContract

\* The candidate's watchdog is its first.
LEMMA RecreateWatchPhase ==
  ASSUME Inv, ImplsOwned, StopPhases, NEW t \in Threads, RecreateWatch(t)
  PROVE  StopPhases' /\ ContractStep
<1> USE PartiesAssumption, NoneAssumption DEF Inv, TypeOK, SyncOwned, FrameShape, Threads, syncVars, implVars, At, Goto,
  Enter, Return, ShuttingDown, OnCandidate, RecreateWatch, RecreateFrame
<1>1. Holding(t) /\ Target(t) = self[t] /\ self[t] \in Impls
  BY DEF Holding, Target, ImplsOwned, FrameRefs
<1>2. self[t] # pImpl /\ wdog[self[t]] = "none" /\ stop[self[t]] = "up" /\ client[self[t]] = "live"
  BY <1>1 DEF StopPhases, HeldPhase, ImplsOwned, OneHolder, LiveIffOwned, Owned
<1>3. \A u \in Threads : u # t /\ Holding(u) => Target(u) # self[t]
  BY <1>1 DEF ImplsOwned, OneHolder
<1>4. \A u \in Threads : Target(u)' = Target(u) /\ (Holding(u)' <=> Holding(u))
  BY DEF Target, Holding
<1>5. \A u \in Threads : pc'[u] = IF u = t THEN pc'[t] ELSE pc[u]
  OBVIOUS
<1>6. \A u \in Threads : u # t => HeldPhase(u)'
  <2> SUFFICES ASSUME NEW u \in Threads, u # t PROVE HeldPhase(u)'
    OBVIOUS
  <2>1. HeldPhase(u) /\ pc'[u] = pc[u] /\ Target(u)' = Target(u) /\ UNCHANGED <<call, stop>>
    BY <1>4, <1>5 DEF StopPhases
  <2>2. CASE Holding(u)
    <3>1. Target(u) \in Impls /\ Target(u) # self[t]
      BY <1>3, <2>2 DEF ImplsOwned, FrameRefs, Target
    <3>2. wdog'[Target(u)] = wdog[Target(u)]
      BY <3>1
    <3> QED
      BY <1>4, <2>1, <3>2 DEF HeldPhase
  <2>3. CASE ~Holding(u)
    BY <1>4, <2>1, <2>3 DEF HeldPhase, Holding
  <2> QED
    BY <2>2, <2>3
<1>7. HeldPhase(t)'
  BY <1>1, <1>2, <1>4 DEF HeldPhase
<1>8. StopPhases'
  BY <1>2, <1>6, <1>7 DEF StopPhases, OwnerPhases
<1>9. ContractStep
  BY <1>2 DEF ContractStep, Contract!vars, Contract!Next, Contract!Start
<1> QED
  BY <1>8, <1>9

\* The swap exchanges two Impls neither of which is shut down.
LEMMA RecreateSwapPhase ==
  ASSUME Inv, ImplsOwned, StopPhases, NEW t \in Threads, RecreateSwap(t)
  PROVE  StopPhases' /\ ContractStep
<1> USE PartiesAssumption, NoneAssumption DEF Inv, TypeOK, SyncOwned, FrameShape, Threads, syncVars, implVars, At, Goto,
  Enter, Return, ShuttingDown, OnCandidate, RecreateSwap, RecreateFrame
<1>1. pImpl \in Impls /\ stop[pImpl] = "up" /\ stop[self[t]] = "up"
  BY DEF OneRecreation, Recreates, RecreationQuiet, Chosen, Drained, StopPhases, HeldPhase, Holding, Target,
    ImplsOwned, FrameRefs
<1>2. \A u \in Threads : HeldPhase(u)'
  BY <1>1 DEF StopPhases, HeldPhase, Holding, Target
<1>3. StopPhases'
  BY <1>1, <1>2 DEF StopPhases, OwnerPhases
<1> QED
  BY <1>3, QuietContract

\* The watchdog thread starts, gives up, and leaves its loop for a reason.
LEMMA WatchdogPhase ==
  ASSUME Inv, ImplsOwned, StopPhases, NEW i \in Impls,
         WatchdogStarts(i) \/ WatchdogGivesUp(i) \/ WatchdogExits(i)
  PROVE  StopPhases' /\ ContractStep
<1> USE DEF Inv, TypeOK, syncVars
<1>1. /\ UNCHANGED <<pImpl, stop, call, pc, self, old>>
      /\ \A j \in Impls : wdog[j] = "none" <=> wdog'[j] = "none"
      /\ \A j \in Impls : client'[j] = "none" <=> client[j] = "none"
  BY ReapKeepsUsed DEF WatchdogStarts, WatchdogGivesUp, WatchdogExits, Reap
<1>2. \A u \in Threads : Target(u)' = Target(u) /\ (Holding(u)' <=> Holding(u))
  BY <1>1 DEF Target, Holding
<1>3. \A u \in Threads : HeldPhase(u)'
  <2> SUFFICES ASSUME NEW u \in Threads PROVE HeldPhase(u)'
    OBVIOUS
  <2>1. HeldPhase(u)
    BY DEF StopPhases
  <2>2. Holding(u) => Target(u) \in Impls
    BY DEF ImplsOwned, FrameRefs, Target
  <2>3. call[u] = "recreate" /\ pc[u] \in {"configure", "connect", "watch"} => Holding(u)
    BY DEF Holding, OnCandidate
  <2> QED
    BY <1>1, <1>2, <2>1, <2>2, <2>3 DEF HeldPhase
<1>4. StopPhases'
  BY <1>1, <1>3 DEF StopPhases, At
<1>5. ContractStep
  <2>1. CASE WatchdogStarts(i)
    BY <2>1 DEF WatchdogStarts, ContractStep, Contract!vars, Contract!Next, Contract!Run
  <2>2. CASE WatchdogGivesUp(i)
    BY <2>2 DEF WatchdogGivesUp, ContractStep, Contract!vars, Contract!Next, Contract!GiveUp
  <2>3. CASE WatchdogExits(i)
    BY <2>3 DEF WatchdogExits, ContractStep, Contract!vars, Contract!Next, Contract!Exit
  <2> QED
    BY <2>1, <2>2, <2>3
<1> QED
  BY <1>4, <1>5

\* An API function may make the Impl give up.
LEMMA ApiContract ==
  ASSUME Inv, NEW t \in Threads, Api(t)
  PROVE  ContractStep
<1>1. CASE ApiUse(t)
  BY <1>1 DEF Inv, TypeOK, ApiUse, ContractStep, Contract!vars, Contract!Next, Contract!GiveUp
<1>2. CASE ApiSnap(t) \/ ApiUnlease(t) \/ ApiDrop(t)
  BY <1>2, QuietContract DEF ApiSnap, ApiUnlease, ApiDrop, implVars
<1> QED
  BY <1>1, <1>2 DEF Api

\* Every step keeps StopPhases and is a step, or none, of every contract.
LEMMA NextContract ==
  ASSUME Inv, ImplsOwned, StopPhases, [Next]_vars
  PROVE  StopPhases' /\ ContractStep
<1>1. CASE Create \/ DestroyBegin \/ Destroy
  <2>1. CASE CreateStage \/ DestroyBegin \/ Destroy
    BY <2>1, OwnerPhase, QuietContract DEF CreateStage, DestroyBegin, Destroy, DestroyWait, DestroyDone, implVars
  <2> QED
    BY <1>1, <2>1, CreateNewPhase, CreateWatchPhase DEF Create
<1>2. ASSUME NEW t \in Threads, Step(t) PROVE StopPhases' /\ ContractStep
  <2>1. CASE Api(t)
    BY <2>1, ApiPhase, ApiContract
  <2>2. CASE ImplSignal(t) \/ ImplJoin(t) \/ TakeImpl(t)
    BY <2>2, ImplSignalPhase, ImplJoinPhase, TakeImplPhase
  <2>3. CASE ImplRelease(t) \/ ShutdownDone(t)
    BY <2>3, DonePhase, QuietContract DEF ImplRelease, ShutdownDone, implVars
  <2>4. CASE RecreateNew(t) \/ RecreateWatch(t) \/ RecreateSwap(t)
    BY <2>4, RecreateNewPhase, RecreateWatchPhase, RecreateSwapPhase
  <2>5. CASE \/ RecreateDrain(t) \/ RecreateLife(t) \/ RecreateStage(t)
             \/ RecreateCheck(t) \/ RecreateReset(t) \/ RecreateTail(t)
    BY <2>5, RecreatePhase, QuietContract DEF RecreateDrain, RecreateLife, RecreateStage, RecreateCheck,
      RecreateReset, RecreateTail, RecreateFrame
  <2> QED
    BY <1>2, <2>1, <2>2, <2>3, <2>4, <2>5 DEF Step, ImplShutdown, Recreate
<1>3. ASSUME NEW t \in Workers, Begin(t) PROVE StopPhases' /\ ContractStep
  BY <1>3, BeginPhase, QuietContract DEF Begin, ApiBegin, ShutdownBegin, RecreateBegin, RecreateFrame, implVars
<1>4. ASSUME NEW i \in Impls, WatchdogStarts(i) \/ WatchdogGivesUp(i) \/ WatchdogExits(i)
      PROVE  StopPhases' /\ ContractStep
  BY <1>4, WatchdogPhase
<1>5. CASE UNCHANGED vars
  <2>1. \A u \in Threads : HeldPhase(u)'
    BY <1>5 DEF vars, StopPhases, HeldPhase, Holding, Target
  <2> QED
    BY <1>5, <2>1, QuietContract DEF vars, StopPhases, At
<1> QED
  BY <1>1, <1>2, <1>3, <1>4, <1>5 DEF Next

\* At first every Impl is new.
LEMMA InitContract == Init => StopPhases /\ \A i \in Impls : Contract(i)!Init
<1> SUFFICES ASSUME Init PROVE StopPhases /\ \A i \in Impls : Contract(i)!Init
  OBVIOUS
<1>1. \A t \in Threads : HeldPhase(t)
  BY DEF Init, HeldPhase, Holding, ShuttingDown, OnCandidate
<1> QED
  BY <1>1, NoneAssumption DEF Init, StopPhases, At, Threads, Contract!Init

\* The facade is the environment ImplContract asks for, for every Impl it ever
\* owns: startWatchdog() at most once and not after a shutdown, Impl::shutdown()
\* at most once, whichever calls of the API and the destructor overlap.
THEOREM FacadeKeepsContract == Spec => KeepsImplContract
<1>1. Inv /\ ImplsOwned /\ StopPhases /\ [Next]_vars => StopPhases' /\ [ContractStep]_vars
  BY NextContract
<1> QED
  BY <1>1, InitContract, Invariance, OneOwner, PTL DEF Spec, KeepsImplContract, ContractStep
=============================================================================
