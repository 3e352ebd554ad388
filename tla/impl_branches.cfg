SPECIFICATION WatchdogSpec
CONSTANTS
  Callers = {c1}
  Watchdog = wd
  Commands = {"giveUp", "shutdown"}
  SdkStates <- BranchStates
  InitialSdk <- Ready
  GiveUpThreshold = 1
  MaxRetries = 1
  WatchdogFaults = TRUE
INVARIANTS DecisionSettlesLife
PROPERTIES KeepsImplContract BackOnlyWhenReady ShutdownReturns
CHECK_DEADLOCK FALSE
