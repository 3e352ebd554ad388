SPECIFICATION FairSpec
CONSTANTS
  UMax = 1048575
  Candidates <- MCCandidates
  Durations = {0, 400, 800, 5000, 10000}
  Waits = {0, 300}
INVARIANTS TypeOK RunsOnValidConfig DefaultsHeal BoundedBlocking AllAttemptsRun PromptStop WallClockCovers 
PROPERTIES ReadReturns
