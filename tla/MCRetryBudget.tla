--------------------------- MODULE MCRetryBudget ---------------------------
EXTENDS RetryBudget

\* A configuration with short times, like those of the repository's tests.
Short ==
  [applyProfile(DefaultConfig, "LOCAL") EXCEPT
     !.timeoutMs = 400, !.maxRetries = 3, !.retryBackoffBaseMs = 150,
     !.retryMaxBackoffMs = 250, !.maxTotalWaitMs = 3200]

\* The longest timeout check() accepts, at the end of the range of uint32_t.
Longest ==
  [Short EXCEPT !.timeoutMs = (UMax - 2) \div 2, !.maxRetries = 0,
     !.maxTotalWaitMs = UMax - 1, !.sessionTimeoutMs = UMax, !.secureChannelLifeTimeMs = UMax]

\* Its neighbour from which the fallback does not wrap.
AlmostLongest ==
  [Longest EXCEPT !.timeoutMs = (UMax - 500) \div 2, !.maxTotalWaitMs = UMax - 500]

\* A timeout that check() must refuse: twice as much is not a uint32_t.
TooLong == [AlmostLongest EXCEPT !.timeoutMs = (UMax \div 2) + 1]

\* One field out of its range or out of line with another.
Broken ==
  { [Short EXCEPT !.timeoutMs = 0], [Short EXCEPT !.sessionTimeoutMs = 3000],
    [Short EXCEPT !.secureChannelLifeTimeMs = 1], [Short EXCEPT !.maxRetries = 11],
    [Short EXCEPT !.maxTotalWaitMs = 0], [Short EXCEPT !.maxTotalWaitMs = 3199],
    [Short EXCEPT !.maxTotalWaitMs = 2400],
    [Short EXCEPT !.retryBackoffBaseMs = 0],
    [Short EXCEPT !.retryBackoffBaseMs = 900, !.retryMaxBackoffMs = 900],
    [Short EXCEPT !.giveUpThresholdMs = 19999], [Short EXCEPT !.giveUpThresholdMs = -1],
    [Short EXCEPT !.connectivityCheckIntervalMs = 999], [Short EXCEPT !.watchdogIntervalMs = 30001],
    [Short EXCEPT !.logLevel = 99], [Short EXCEPT !.logLevel = 700, !.timeoutMs = 0] }

MCCandidates ==
  {DefaultConfig, Short, Longest, AlmostLongest, TooLong} \cup Broken
=============================================================================
