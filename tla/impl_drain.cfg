SPECIFICATION Spec
CONSTANTS
  Callers = {c1}
  Watchdog = wd
  Commands = {"connect", "disconnect", "read", "write", "check", "giveUp", "pump", "shutdown"}
  SdkStates <- SteadyStates
  InitialSdk <- Ready
  GiveUpThreshold = 1
  MaxRetries = 1
  WatchdogFaults = FALSE
INVARIANTS TypeOK SingleFlight QuietAfterDrain GuardsOwned
