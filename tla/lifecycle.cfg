SPECIFICATION FairSpec
CONSTANTS
  Owner = owner
  Workers = {w1, w2}
  Impls = {i1, i2, i3}
  JoinsApi = TRUE
INVARIANTS NoUseAfterFree OwnedWatchdogs JoinedBeforeDeleted DestroyedClean SyncOwned ImplsOwned
PROPERTIES KeepsImplContract SwapOnlyQuietGivenUp DestructorReturns ClientsReleased
CHECK_DEADLOCK FALSE
