SPECIFICATION Spec
CONSTANTS
  Callers = {c1}
  Watchdog = wd
  Commands = {"connect"}
  SdkStates <- DropStates
  InitialSdk <- Ready
  GiveUpThreshold = 1
  MaxRetries = 1
  WatchdogFaults = FALSE
PROPERTIES GiveUpWindowElapsed
