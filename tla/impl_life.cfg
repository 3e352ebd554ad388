SPECIFICATION Spec
CONSTANTS
  Callers = {c1}
  Watchdog = wd
  Commands = {"connect", "disconnect", "check", "giveUp"}
  SdkStates <- DropStates
  InitialSdk <- Ready
  GiveUpThreshold = 1
  MaxRetries = 1
  WatchdogFaults = FALSE
PROPERTIES GivenUpIsFinal UsesSnapshotCache
