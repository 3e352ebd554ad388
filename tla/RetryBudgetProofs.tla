------------------------- MODULE RetryBudgetProofs -------------------------
(***************************************************************************)
(* Proofs about RetryBudget, for every set of configurations, every width  *)
(* of uint32_t and every duration of service calls and mutex waits.        *)
(***************************************************************************)
EXTENDS RetryBudget, TLAPS

-----------------------------------------------------------------------------
(* Facts about the configuration.                                          *)

\* calculateBackoff() returns a time, at most retryMaxBackoffMs.
LEMMA BackoffCapped ==
  ASSUME NEW c \in Configs, NEW r \in Nat
  PROVE  calculateBackoff(c, r) \in Int /\ calculateBackoff(c, r) <= c.retryMaxBackoffMs
  <1>1. /\ c.retryMaxBackoffMs \in Int /\ c.retryBackoffBaseMs \in Int
    BY UMaxAssumption DEF Configs, uint32
  <1>2. 2^r \in Int
    OBVIOUS
  <1> DEFINE shifted == c.retryBackoffBaseMs * 2^r
  <1>3. shifted \in Int
    BY <1>1, <1>2
  <1> HIDE DEF shifted
  <1>4. calculateBackoff(c, r) = IF r >= 32 \/ shifted > c.retryMaxBackoffMs
                                 THEN c.retryMaxBackoffMs ELSE shifted
    BY DEF calculateBackoff, shifted
  <1> QED BY <1>1, <1>3, <1>4

\* applyProfile() keeps a ClientConfig one.
LEMMA ProfileTyped ==
  ASSUME NEW c \in Configs
  PROVE  applyProfile(c, "LOCAL") \in Configs
  BY UMaxAssumption DEF applyProfile, profile, NetworkProfile, Configs, uint32

\* PROFILE_LOCAL passes check() unless the log level is out of range.
LEMMA LocalProfileAccepted ==
  ASSUME NEW c \in Configs, checkLogLevel(c)
  PROVE  check(applyProfile(c, "LOCAL"))
  <1> DEFINE d == applyProfile(c, "LOCAL")
  <1>1. /\ d.timeoutMs = 5000 /\ d.sessionTimeoutMs = 600000
        /\ d.secureChannelLifeTimeMs = 600000 /\ d.maxTotalWaitMs = 30000
        /\ d.giveUpThresholdMs = 60000 /\ d.maxRetries = 2
        /\ d.retryBackoffBaseMs = 500 /\ d.retryMaxBackoffMs = 4000
        /\ d.logLevel = c.logLevel
        /\ d.connectivityCheckIntervalMs = 30000 /\ d.watchdogIntervalMs = 10000
    BY DEF applyProfile, profile, NetworkProfile
  <1> HIDE DEF d
  <1>2. U32(9000) = 9000
    BY UMaxAssumption DEF U32
  <1>3. checkTimeouts(d) /\ checkBackoff(d) /\ checkLogLevel(d) /\ checkGiveUp(d)
    BY <1>1 DEF checkTimeouts, checkBackoff, checkLogLevel, checkGiveUp
  <1>4. checkTotalWait(d)
    BY <1>1, <1>2, UMaxAssumption DEF checkTotalWait, requiredBudget
  <1>5. check(d)
    BY <1>3, <1>4 DEF check
  <1> QED BY <1>5 DEF d

\* The fields of an accepted configuration, and the relations between them that
\* the bounds below need.
LEMMA AcceptedBudget ==
  ASSUME NEW c \in Configs, check(c)
  PROVE  /\ c.timeoutMs \in Nat /\ c.maxTotalWaitMs \in Nat
         /\ c.maxRetries \in Nat /\ c.retryMaxBackoffMs \in Nat
         /\ c.retryMaxBackoffMs < c.timeoutMs
         /\ 2 * c.timeoutMs * (c.maxRetries + 1) <= c.maxTotalWaitMs
  <1>1. /\ c.timeoutMs \in Nat /\ c.maxTotalWaitMs \in Nat
        /\ c.maxRetries \in Nat /\ c.retryMaxBackoffMs \in Nat
    BY UMaxAssumption DEF Configs, uint32
  <1>2. c.retryMaxBackoffMs < c.timeoutMs
    BY DEF check, checkBackoff
  <1>3. c.maxTotalWaitMs >= requiredBudget(c)
    BY DEF check, checkTotalWait
  <1>4. requiredBudget(c) \in Int
    BY <1>1 DEF requiredBudget
  <1> QED BY <1>1, <1>2, <1>3, <1>4 DEF requiredBudget

\* Twice the timeout, once more.
LEMMA OneMore ==
  ASSUME NEW T \in Nat, NEW r \in Nat
  PROVE  2 * T * r \in Nat /\ 2 * T * (r + 1) = 2 * T * r + 2 * T
  OBVIOUS

\* Fewer attempts need no more time.
LEMMA Monotone ==
  ASSUME NEW T \in Nat, NEW r \in Nat, NEW R \in Nat, r <= R
  PROVE  2 * T * (r + 1) <= 2 * T * (R + 1)
  OBVIOUS

-----------------------------------------------------------------------------
(* The inductive invariant.                                                *)

Looping == pc \in {"top", "call", "answer", "delay", "sleep"}

\* Nothing has been spent before the first read.
Fresh ==
  ~Configured => /\ inCall = 0 /\ queued = 0 /\ slept = 0 /\ wait = 0 /\ longest = 0
                 /\ sleptStopped = 0
                 /\ outcome # "BUDGET_EXCEEDED"

\* What validateConfiguration() has let through.
Validated == pc = "apply" /\ ~useDefault => check(cfg)

\* The locals of delayFunction().
DelayInv ==
  pc \in {"delay", "sleep"} =>
    /\ backoffMs <= cfg.retryMaxBackoffMs
    /\ elapsedMs <= cfg.retryMaxBackoffMs
    /\ pc = "sleep" => elapsedMs < backoffMs
    /\ retry < cfg.maxRetries

\* How far past the budget the clock can be at each place of the loop.
OverrunInv ==
  /\ BoundedBlocking
  /\ pc = "call" => Elapsed <= cfg.maxTotalWaitMs
  /\ pc = "answer" => Elapsed <= cfg.maxTotalWaitMs + 2 * cfg.timeoutMs + wait
  /\ pc \in {"delay", "sleep"} =>
       Elapsed <= cfg.maxTotalWaitMs + 2 * cfg.timeoutMs + wait + elapsedMs

\* What the attempts so far have cost, if none was slow.
QuickInv ==
  longest <= cfg.timeoutMs =>
    /\ pc \in {"top", "call"} => Elapsed <= 2 * cfg.timeoutMs * retry
    /\ pc = "answer" => Elapsed <= 2 * cfg.timeoutMs * retry + cfg.timeoutMs
    /\ pc \in {"delay", "sleep"} =>
         Elapsed <= 2 * cfg.timeoutMs * retry + cfg.timeoutMs + elapsedMs

\* What they have cost inside the SDK.
CallInv ==
  /\ pc \in {"top", "call"} => inCall <= 2 * cfg.timeoutMs * retry
  /\ pc \in {"answer", "delay", "sleep"} => inCall <= 2 * cfg.timeoutMs * (retry + 1)

\* A segment slept under the stop signal was the last one.
StopInv ==
  /\ PromptStop
  /\ sleptStopped > 0 => getEffectiveStopSignal /\ pc # "sleep"

\* A verdict about the budget is only there once the read has returned.
VerdictInv ==
  /\ AllAttemptsRun
  /\ Looping => outcome # "BUDGET_EXCEEDED"

IInv ==
  /\ TypeOK /\ RunsOnValidConfig /\ DefaultsHeal
  /\ Fresh /\ Validated /\ DelayInv /\ OverrunInv /\ QuickInv /\ CallInv /\ StopInv /\ VerdictInv

-----------------------------------------------------------------------------
(* The invariant is inductive.                                             *)

LEMMA InvInit == Init => IInv
  <1> SUFFICES ASSUME Init PROVE IInv
    OBVIOUS
  <1> USE DEF Init
  <1>1. DefaultConfig \in Configs
    BY UMaxAssumption DEF DefaultConfig, Configs, uint32
  <1>2. TypeOK
    <2>1. useDefault \in BOOLEAN /\ down \in BOOLEAN
      OBVIOUS
    <2>2. sdkTimeout \in Nat /\ retry \in Nat
      OBVIOUS
    <2>3. inCall \in Nat /\ queued \in Nat /\ slept \in Nat /\ wait \in Nat /\ longest \in Nat
          /\ backoffMs \in Int /\ elapsedMs \in Nat /\ sleptStopped \in Nat
      OBVIOUS
    <2>4. outcome \in Outcomes
      BY DEF Outcomes
    <2> QED BY <1>1, <2>1, <2>2, <2>3, <2>4 DEF TypeOK
  <1>3. RunsOnValidConfig /\ DefaultsHeal /\ Fresh /\ Validated /\ DelayInv
    BY DEF RunsOnValidConfig, DefaultsHeal, Fresh, Validated, DelayInv, Configured
  <1>4. cfg.maxTotalWaitMs \in Nat /\ cfg.timeoutMs \in Nat /\ cfg.retryMaxBackoffMs \in Nat
    BY DEF DefaultConfig
  <1>5. OverrunInv /\ QuickInv /\ CallInv
    BY <1>4 DEF OverrunInv, BoundedBlocking, QuickInv, CallInv, Elapsed
  <1>6. StopInv /\ VerdictInv
    BY DEF StopInv, PromptStop, SegmentMs, VerdictInv, AllAttemptsRun, Looping
  <1> QED BY <1>2, <1>3, <1>5, <1>6 DEF IInv

\* A ClientConfig's times are natural numbers.
LEMMA ConfigTimes ==
  ASSUME NEW c \in Configs
  PROVE  /\ c.timeoutMs \in Nat /\ c.maxTotalWaitMs \in Nat
         /\ c.maxRetries \in Nat /\ c.retryMaxBackoffMs \in Nat
  BY UMaxAssumption DEF Configs, uint32

\* The factory's steps: configureClient().
LEMMA InvConfigure ==
  ASSUME IInv,
         \/ \E c \in Candidates, d \in BOOLEAN : Create(c, d)
         \/ GetConfigFails \/ validateConfiguration \/ applyConfiguration
  PROVE  IInv'
  <1> USE DEF IInv
  <1>1. ~Configured
    BY DEF Configured, Create, GetConfigFails, validateConfiguration, applyConfiguration
  <1>2. pc' \in {"rejected", "validate", "apply", "ready"}
    BY DEF Create, GetConfigFails, validateConfiguration, applyConfiguration, Reject
  <1>3. UNCHANGED <<retry, clocks, delay>>
    BY DEF Create, GetConfigFails, validateConfiguration, applyConfiguration, Reject
  <1>4. applyDefaultIfInvalid(cfg) \in Configs
    BY ProfileTyped DEF applyDefaultIfInvalid, TypeOK
  <1>5. cfg' \in Configs
    BY <1>4, CandidatesAssumption DEF TypeOK, Create, GetConfigFails, validateConfiguration,
         applyConfiguration, Reject, config
  <1>6. TypeOK'
    <2>1. useDefault' \in BOOLEAN
      BY DEF TypeOK, Create, GetConfigFails, validateConfiguration, applyConfiguration, Reject, config
    <2>2. sdkTimeout' \in Nat
      <3>1. applyDefaultIfInvalid(cfg).timeoutMs \in Nat /\ cfg.timeoutMs \in Nat
        BY <1>4, ConfigTimes DEF TypeOK
      <3> QED BY <3>1 DEF TypeOK, Create, GetConfigFails, validateConfiguration, applyConfiguration,
                Reject, config
    <2>3. outcome' \in Outcomes
      BY DEF TypeOK, Outcomes, Create, GetConfigFails, validateConfiguration, applyConfiguration, Reject
    <2>4. life' \in {"RUNNING", "RECOVERING", "GIVEN_UP"} /\ conn' \in {"IDLE", "CONNECTING"}
          /\ down' \in BOOLEAN
      BY DEF TypeOK, Create, GetConfigFails, validateConfiguration, applyConfiguration, Reject, flags
    <2> QED BY <1>2, <1>3, <1>5, <2>1, <2>2, <2>3, <2>4 DEF TypeOK, clocks, delay
  <1>7. RunsOnValidConfig'
    <2>1. CASE pc' = "ready"
      <3>1. applyConfiguration
        BY <2>1 DEF Create, GetConfigFails, validateConfiguration, Reject
      <3> QED BY <1>1, <2>1, <3>1 DEF applyConfiguration, Reject, Validated,
                RunsOnValidConfig, Configured
    <2> QED BY <1>2, <2>1 DEF RunsOnValidConfig, Configured
  <1>8. DefaultsHeal'
    <2>1. CASE pc' = "rejected" /\ useDefault' /\ outcome' = "INVALID_CONFIG"
      <3>1. applyConfiguration /\ useDefault
        BY <2>1 DEF Create, GetConfigFails, validateConfiguration, applyConfiguration, Reject
      <3>2. ~check(applyDefaultIfInvalid(cfg)) /\ cfg' = applyDefaultIfInvalid(cfg)
        BY <2>1, <3>1 DEF applyConfiguration
      <3>3. cfg' = applyProfile(cfg, "LOCAL") /\ ~check(applyProfile(cfg, "LOCAL"))
        BY <3>2 DEF applyDefaultIfInvalid
      <3>4. ~checkLogLevel(cfg)
        BY <3>3, LocalProfileAccepted DEF TypeOK
      <3>5. applyProfile(cfg, "LOCAL").logLevel = cfg.logLevel
        BY DEF applyProfile
      <3> QED BY <3>3, <3>4, <3>5 DEF DefaultsHeal, checkLogLevel
    <2> QED BY <2>1 DEF DefaultsHeal
  <1>9. Fresh'
    BY <1>1, <1>3 DEF Fresh, clocks, delay, Create, GetConfigFails, validateConfiguration,
         applyConfiguration, Reject
  <1>13. Validated'
    BY DEF Validated, Create, GetConfigFails, validateConfiguration, applyConfiguration, Reject, config
  <1>10. DelayInv' /\ CallInv'
    BY <1>2 DEF DelayInv, CallInv
  <1>11. OverrunInv' /\ QuickInv'
    <2>1. Elapsed' = 0 /\ wait' = 0
      BY <1>1, <1>3 DEF Fresh, clocks, Elapsed
    <2>2. /\ cfg'.timeoutMs \in Nat /\ cfg'.maxTotalWaitMs \in Nat /\ cfg'.retryMaxBackoffMs \in Nat
      BY <1>5, ConfigTimes
    <2> QED BY <1>2, <2>1, <2>2 DEF OverrunInv, BoundedBlocking, QuickInv
  <1>12. StopInv' /\ VerdictInv'
    <2>1. sleptStopped' = 0
      BY <1>1, <1>3 DEF Fresh, delay
    <2>2. outcome' # "BUDGET_EXCEEDED"
      BY <1>1 DEF Fresh, Create, GetConfigFails, validateConfiguration, applyConfiguration, Reject
    <2> QED BY <1>2, <2>1, <2>2 DEF StopInv, PromptStop, SegmentMs, VerdictInv, AllAttemptsRun, Looping
  <1> QED BY <1>6, <1>7, <1>8, <1>9, <1>10, <1>11, <1>12, <1>13 DEF IInv

\* Steps of other threads: only the flags change, and the stop signal stays.
LEMMA InvEnvironment ==
  ASSUME IInv, Environment
  PROVE  IInv'
  <1> USE DEF IInv
  <1>1. UNCHANGED <<pc, config, outcome, retry, clocks, delay>> /\ Configured
    BY DEF Environment, SignalShutdown, LifeChange, ConnChange
  <1>2. getEffectiveStopSignal => getEffectiveStopSignal'
    BY DEF Environment, SignalShutdown, LifeChange, ConnChange, getEffectiveStopSignal
  <1>3. TypeOK'
    <2>1. life' \in {"RUNNING", "RECOVERING", "GIVEN_UP"}
      BY DEF Environment, SignalShutdown, LifeChange, ConnChange, TypeOK
    <2>2. conn' \in {"IDLE", "CONNECTING"}
      BY DEF Environment, SignalShutdown, LifeChange, ConnChange, TypeOK
    <2>3. down' \in BOOLEAN
      BY DEF Environment, SignalShutdown, LifeChange, ConnChange, TypeOK
    <2> QED BY <1>1, <2>1, <2>2, <2>3 DEF TypeOK, config, clocks, delay
  <1>4. RunsOnValidConfig' /\ DefaultsHeal' /\ Fresh' /\ Validated' /\ DelayInv'
    BY <1>1 DEF RunsOnValidConfig, DefaultsHeal, Fresh, Validated, DelayInv, Configured, config,
         clocks, delay
  <1>5. OverrunInv' /\ QuickInv' /\ CallInv'
    BY <1>1 DEF OverrunInv, BoundedBlocking, QuickInv, CallInv, Elapsed, config, clocks, delay
  <1>6. StopInv' /\ VerdictInv'
    BY <1>1, <1>2 DEF StopInv, PromptStop, VerdictInv, AllAttemptsRun, Looping, config, clocks, delay
  <1> QED BY <1>3, <1>4, <1>5, <1>6 DEF IInv

\* What the steps of batchRead() have in common.
LEMMA InvCaller ==
  ASSUME IInv, Configured, Configured', UNCHANGED <<config, flags>>,
         outcome' \in Outcomes, retry' \in Nat,
         pc' \in {"top", "call", "answer", "delay", "sleep"} => retry' <= cfg.maxRetries,
         inCall' \in Nat, queued' \in Nat, slept' \in Nat, wait' \in Nat, longest' \in Nat,
         backoffMs' \in Int, elapsedMs' \in Nat, sleptStopped' \in Nat
  PROVE  TypeOK' /\ RunsOnValidConfig' /\ DefaultsHeal' /\ Fresh' /\ Validated'
  <1> USE DEF IInv
  <1>1. TypeOK'
    BY DEF TypeOK, config, flags, Configured
  <1>2. RunsOnValidConfig' /\ DefaultsHeal' /\ Fresh' /\ Validated'
    BY DEF RunsOnValidConfig, DefaultsHeal, Fresh, Validated, Configured, config
  <1> QED BY <1>1, <1>2

LEMMA InvRead ==
  ASSUME IInv, BatchRead \/ ReadStep
  PROVE  IInv'
  <1> USE DEF IInv
  <1> DEFINE T == cfg.timeoutMs
             R == cfg.maxRetries
             B == cfg.maxTotalWaitMs
             cap == cfg.retryMaxBackoffMs
  <1>1. /\ Configured /\ Configured' /\ UNCHANGED <<config, flags>>
    BY DEF BatchRead, ReadStep, LoopReturns, LoopGoesOn, Attempt, AnswerFinal, AnswerExhausted,
         AnswerRetry, DelaySegment, DelayWakes, DelayEnds, Return, Configured
  <1>2. /\ T \in Nat /\ R \in Nat /\ B \in Nat /\ cap \in Nat
        /\ cap < T /\ 2 * T * (R + 1) <= B /\ sdkTimeout = T
    BY <1>1, AcceptedBudget DEF RunsOnValidConfig, TypeOK
  <1>3. /\ cfg' = cfg /\ getEffectiveStopSignal' = getEffectiveStopSignal
    BY <1>1 DEF config, flags, getEffectiveStopSignal
  <1>4. /\ retry \in Nat /\ inCall \in Nat /\ queued \in Nat /\ slept \in Nat /\ wait \in Nat
        /\ longest \in Nat /\ backoffMs \in Int /\ elapsedMs \in Nat /\ sleptStopped \in Nat
        /\ outcome \in Outcomes
        /\ Looping => retry <= R
    BY DEF TypeOK, Looping
  <1>5. /\ 2 * T * retry \in Nat /\ 2 * T * (retry + 1) = 2 * T * retry + 2 * T
    BY <1>2, <1>4, OneMore
  <1>6. Elapsed \in Nat
    BY <1>4 DEF Elapsed
  <1> HIDE DEF IInv
  <1>7. CASE BatchRead
    <2> USE <1>7 DEF BatchRead
    <2>1. TypeOK' /\ RunsOnValidConfig' /\ DefaultsHeal' /\ Fresh' /\ Validated'
      BY <1>1, <1>2, InvCaller DEF Outcomes
    <2>2. DelayInv' /\ OverrunInv'
      BY <1>2, <1>3 DEF DelayInv, OverrunInv, BoundedBlocking, Elapsed
    <2>3. QuickInv' /\ CallInv'
      BY <1>2, <1>3 DEF QuickInv, CallInv, Elapsed
    <2>4. StopInv' /\ VerdictInv'
      BY <1>3 DEF StopInv, PromptStop, SegmentMs, VerdictInv, AllAttemptsRun
    <2> QED BY <2>1, <2>2, <2>3, <2>4 DEF IInv
  <1>8. CASE LoopReturns
    <2>1. /\ pc = "top" /\ pc' = "done" /\ UNCHANGED <<retry, clocks, delay>>
          /\ outcome' \in {"ALREADY_TERMINATED", "BUDGET_EXCEEDED", "NOT_CONNECTED", "THREAD_BUSY"}
          /\ outcome' = "BUDGET_EXCEEDED" => Elapsed > B
      BY <1>8 DEF LoopReturns, Return
    <2>2. TypeOK' /\ RunsOnValidConfig' /\ DefaultsHeal' /\ Fresh' /\ Validated'
      BY <1>1, <1>4, <2>1, InvCaller DEF Outcomes, clocks, delay
    <2>3. DelayInv' /\ OverrunInv' /\ QuickInv' /\ CallInv'
      BY <1>3, <2>1 DEF IInv, DelayInv, OverrunInv, BoundedBlocking, QuickInv, CallInv, Elapsed,
           clocks, delay
    <2>4. StopInv'
      BY <1>3, <2>1 DEF IInv, StopInv, PromptStop, delay
    <2>5. VerdictInv'
      <3>1. 2 * T * (retry + 1) <= 2 * T * (R + 1)
        BY <1>2, <1>4, <2>1, Monotone DEF Looping
      <3>2. Elapsed > B => longest > T
        BY <1>2, <1>4, <1>5, <1>6, <2>1, <3>1 DEF IInv, QuickInv
      <3>3. Elapsed > B /\ queued = 0 => slept > 2 * T
        BY <1>2, <1>4, <1>5, <2>1, <3>1 DEF IInv, CallInv, Elapsed
      <3> QED BY <1>3, <1>4, <2>1, <3>2, <3>3 DEF VerdictInv, AllAttemptsRun, Looping, clocks
    <2> QED BY <2>2, <2>3, <2>4, <2>5 DEF IInv
  <1>9. CASE LoopGoesOn
    <2> USE <1>9 DEF LoopGoesOn
    <2>1. TypeOK' /\ RunsOnValidConfig' /\ DefaultsHeal' /\ Fresh' /\ Validated'
      BY <1>1, <1>4, InvCaller DEF clocks, delay, Looping
    <2>2. DelayInv' /\ OverrunInv' /\ QuickInv' /\ CallInv'
      BY <1>3 DEF IInv, DelayInv, OverrunInv, BoundedBlocking, QuickInv, CallInv, Elapsed, clocks, delay
    <2>3. StopInv' /\ VerdictInv'
      BY <1>3 DEF IInv, StopInv, PromptStop, VerdictInv, AllAttemptsRun, Looping, clocks, delay
    <2> QED BY <2>1, <2>2, <2>3 DEF IInv
  <1>10. CASE Attempt
    <2>1. PICK w \in Waits, d \in Durations :
            /\ d <= 2 * T
            /\ wait' = w /\ queued' = queued + w /\ inCall' = inCall + d
            /\ longest' = Max2(longest, w + d)
      BY <1>2, <1>10 DEF Attempt
    <2>2. /\ pc = "call" /\ pc' = "answer" /\ UNCHANGED <<outcome, retry, slept, delay>>
      BY <1>10 DEF Attempt
    <2>3. w \in Nat /\ d \in Nat
      BY WaitsAssumption, DurationsAssumption
    <2>4. /\ longest' \in Nat /\ longest' >= longest /\ longest' >= w + d
      BY <1>4, <2>1, <2>3 DEF Max2
    <2>5. Elapsed' = Elapsed + w + d
      BY <1>4, <2>1, <2>2, <2>3 DEF Elapsed
    <2>6. TypeOK' /\ RunsOnValidConfig' /\ DefaultsHeal' /\ Fresh' /\ Validated'
      BY <1>1, <1>4, <2>1, <2>2, <2>3, <2>4, InvCaller DEF delay, Looping
    <2>7. DelayInv' /\ OverrunInv'
      BY <1>2, <1>3, <1>4, <1>6, <2>1, <2>2, <2>3, <2>5 DEF IInv, DelayInv, OverrunInv, BoundedBlocking
    <2>8. QuickInv'
      BY <1>2, <1>3, <1>4, <1>5, <1>6, <2>2, <2>3, <2>4, <2>5 DEF IInv, QuickInv
    <2>9. CallInv'
      BY <1>2, <1>3, <1>4, <1>5, <2>1, <2>2, <2>3 DEF IInv, CallInv
    <2>10. StopInv' /\ VerdictInv'
      BY <1>3, <2>2 DEF IInv, StopInv, PromptStop, VerdictInv, AllAttemptsRun, Looping, delay
    <2> QED BY <2>6, <2>7, <2>8, <2>9, <2>10 DEF IInv
  <1>11. CASE AnswerFinal \/ AnswerExhausted
    <2>1. /\ pc = "answer" /\ pc' = "done" /\ UNCHANGED <<retry, clocks, delay>>
          /\ outcome' \in {"OK", "SERVICE_FAILED", "SERVICE_RETRY_EXHAUSTED"}
      BY <1>11 DEF AnswerFinal, AnswerExhausted, Return
    <2>2. TypeOK' /\ RunsOnValidConfig' /\ DefaultsHeal' /\ Fresh' /\ Validated'
      BY <1>1, <1>4, <2>1, InvCaller DEF Outcomes, clocks, delay
    <2>3. DelayInv' /\ OverrunInv' /\ QuickInv' /\ CallInv'
      BY <1>3, <2>1 DEF IInv, DelayInv, OverrunInv, BoundedBlocking, QuickInv, CallInv, Elapsed,
           clocks, delay
    <2>4. StopInv' /\ VerdictInv'
      BY <1>3, <2>1 DEF IInv, StopInv, PromptStop, VerdictInv, AllAttemptsRun, Looping, delay
    <2> QED BY <2>2, <2>3, <2>4 DEF IInv
  <1>12. CASE AnswerRetry
    <2>1. /\ pc = "answer" /\ pc' = "delay" /\ UNCHANGED <<outcome, retry, clocks, sleptStopped>>
          /\ backoffMs' = calculateBackoff(cfg, retry) /\ elapsedMs' = 0 /\ retry # R
      BY <1>12 DEF AnswerRetry
    <2>2. backoffMs' \in Int /\ backoffMs' <= cap
      BY <1>4, <2>1, BackoffCapped DEF IInv, TypeOK
    <2>3. TypeOK' /\ RunsOnValidConfig' /\ DefaultsHeal' /\ Fresh' /\ Validated'
      BY <1>1, <1>4, <2>1, <2>2, InvCaller DEF clocks, Looping
    <2>4. DelayInv' /\ OverrunInv'
      BY <1>2, <1>3, <1>4, <1>6, <2>1, <2>2 DEF IInv, DelayInv, OverrunInv, BoundedBlocking, Elapsed, clocks, Looping
    <2>5. QuickInv' /\ CallInv'
      BY <1>2, <1>3, <1>4, <1>5, <1>6, <2>1 DEF IInv, QuickInv, CallInv, Elapsed, clocks
    <2>6. StopInv' /\ VerdictInv'
      BY <1>3, <2>1 DEF IInv, StopInv, PromptStop, VerdictInv, AllAttemptsRun, Looping, clocks
    <2> QED BY <2>3, <2>4, <2>5, <2>6 DEF IInv
  <1>13. CASE DelaySegment
    <2> USE <1>13 DEF DelaySegment
    <2>1. TypeOK' /\ RunsOnValidConfig' /\ DefaultsHeal' /\ Fresh' /\ Validated'
      BY <1>1, <1>4, InvCaller DEF clocks, delay, Looping
    <2>2. DelayInv' /\ OverrunInv' /\ QuickInv' /\ CallInv'
      BY <1>3 DEF IInv, DelayInv, OverrunInv, BoundedBlocking, QuickInv, CallInv, Elapsed, clocks, delay
    <2>3. StopInv' /\ VerdictInv'
      BY <1>3 DEF IInv, StopInv, PromptStop, VerdictInv, AllAttemptsRun, Looping, clocks, delay
    <2> QED BY <2>1, <2>2, <2>3 DEF IInv
  <1>14. CASE DelayWakes
    <2> DEFINE sleepMs == Min2(SegmentMs, backoffMs - elapsedMs)
    <2>1. /\ pc = "sleep" /\ pc' = "delay" /\ elapsedMs' = elapsedMs + sleepMs
          /\ UNCHANGED <<outcome, retry, inCall, queued, wait, longest, backoffMs>>
      BY <1>14 DEF DelayWakes
    <2>2. PICK ms \in {0, sleepMs} :
            /\ slept' = slept + ms
            /\ sleptStopped' = IF getEffectiveStopSignal THEN sleptStopped + ms ELSE sleptStopped
      BY <1>14 DEF DelayWakes
    <2>3. /\ elapsedMs < backoffMs /\ backoffMs <= cap
          /\ Elapsed <= B + 2 * T + wait + elapsedMs
          /\ sleptStopped = 0
      BY <1>4, <2>1 DEF IInv, DelayInv, OverrunInv, StopInv
    <2>4. /\ sleepMs \in Nat /\ sleepMs <= SegmentMs /\ elapsedMs + sleepMs <= backoffMs
          /\ ms \in Nat /\ ms <= sleepMs
      BY <1>4, <2>2, <2>3 DEF Min2, SegmentMs
    <2>5. elapsedMs' \in Nat /\ elapsedMs' <= cap /\ elapsedMs' >= elapsedMs + ms
      BY <1>2, <1>4, <2>1, <2>3, <2>4
    <2>6. slept' \in Nat /\ Elapsed' = Elapsed + ms
      BY <1>4, <2>1, <2>2, <2>4 DEF Elapsed
    <2>7. sleptStopped' \in Nat /\ sleptStopped' <= SegmentMs
          /\ (sleptStopped' > 0 => getEffectiveStopSignal)
      BY <2>2, <2>3, <2>4 DEF SegmentMs
    <2> HIDE DEF sleepMs
    <2>8. TypeOK' /\ RunsOnValidConfig' /\ DefaultsHeal' /\ Fresh' /\ Validated'
      BY <1>1, <1>4, <2>1, <2>5, <2>6, <2>7, InvCaller DEF Looping
    <2>9. DelayInv' /\ OverrunInv'
      BY <1>2, <1>3, <1>4, <1>6, <2>1, <2>3, <2>4, <2>5, <2>6 DEF IInv, DelayInv, OverrunInv, BoundedBlocking
    <2>10. QuickInv' /\ CallInv'
      BY <1>2, <1>3, <1>4, <1>5, <1>6, <2>1, <2>4, <2>5, <2>6 DEF IInv, QuickInv, CallInv
    <2>11. StopInv' /\ VerdictInv'
      BY <1>3, <2>1, <2>7 DEF IInv, StopInv, PromptStop, VerdictInv, AllAttemptsRun, Looping
    <2> QED BY <2>8, <2>9, <2>10, <2>11 DEF IInv
  <1>15. CASE DelayEnds
    <2>1. /\ pc = "delay" /\ pc' = "top" /\ retry' = retry + 1
          /\ UNCHANGED <<outcome, clocks, delay>>
      BY <1>15 DEF DelayEnds
    <2>2. retry' \in Nat /\ retry' <= R
      BY <1>2, <1>4, <2>1 DEF IInv, DelayInv
    <2>3. TypeOK' /\ RunsOnValidConfig' /\ DefaultsHeal' /\ Fresh' /\ Validated'
      BY <1>1, <1>4, <2>1, <2>2, InvCaller DEF clocks, delay
    <2>4. DelayInv' /\ OverrunInv'
      BY <1>3, <2>1 DEF IInv, DelayInv, OverrunInv, BoundedBlocking, Elapsed, clocks, delay
    <2>5. elapsedMs <= cap
      BY <2>1 DEF IInv, DelayInv
    <2>6. QuickInv' /\ CallInv'
      BY <1>2, <1>3, <1>4, <1>5, <1>6, <2>1, <2>5 DEF IInv, QuickInv, CallInv, Elapsed, clocks
    <2>7. StopInv' /\ VerdictInv'
      BY <1>3, <2>1 DEF IInv, StopInv, PromptStop, VerdictInv, AllAttemptsRun, Looping, clocks, delay
    <2> QED BY <2>3, <2>4, <2>6, <2>7 DEF IInv
  <1> QED BY <1>7, <1>8, <1>9, <1>10, <1>11, <1>12, <1>13, <1>14, <1>15 DEF ReadStep

LEMMA InvNext == IInv /\ [Next]_vars => IInv'
  <1> SUFFICES ASSUME IInv, [Next]_vars PROVE IInv'
    OBVIOUS
  <1>1. CASE Next
    BY <1>1, InvConfigure, InvEnvironment, InvRead DEF Next
  <1>2. CASE UNCHANGED vars
    <2> USE <1>2 DEF IInv, vars, config, flags, clocks, delay
    <2>1. TypeOK'
      BY DEF TypeOK
    <2>2. RunsOnValidConfig' /\ DefaultsHeal' /\ Fresh' /\ Validated' /\ DelayInv'
      BY DEF RunsOnValidConfig, DefaultsHeal, Fresh, Validated, DelayInv, Configured
    <2>3. OverrunInv' /\ QuickInv' /\ CallInv'
      BY DEF OverrunInv, BoundedBlocking, QuickInv, CallInv, Elapsed
    <2>4. StopInv' /\ VerdictInv'
      BY DEF StopInv, PromptStop, VerdictInv, AllAttemptsRun, Looping, getEffectiveStopSignal
    <2> QED BY <2>1, <2>2, <2>3, <2>4 DEF IInv
  <1> QED BY <1>1, <1>2

LEMMA Invariance == Spec => []IInv
  BY InvInit, InvNext, PTL DEF Spec

\* The wall-clock fallback of an accepted configuration does not wrap unless
\* the budget is within 500 ms of the largest uint32_t.
LEMMA FallbackExact ==
  ASSUME NEW c \in Configs, check(c), c.maxTotalWaitMs <= UMax - 500
  PROVE  wallDeadline(c) = 2 * c.timeoutMs + 500
  <1> DEFINE T == c.timeoutMs
  <1>1. T \in Nat /\ c.maxRetries \in Nat /\ c.maxTotalWaitMs \in Nat
        /\ 2 * T * (c.maxRetries + 1) <= c.maxTotalWaitMs
    BY AcceptedBudget
  <1>2. 2 * T * (0 + 1) <= 2 * T * (c.maxRetries + 1)
    BY <1>1, Monotone
  <1>3. 2 * T \in Nat /\ 2 * T + 500 <= UMax
    BY <1>1, <1>2, UMaxAssumption
  <1>4. U32(2 * T) = 2 * T /\ U32(2 * T + 500) = 2 * T + 500
    BY <1>3, UMaxAssumption DEF U32
  <1> QED BY <1>4 DEF wallDeadline

LEMMA InvSafe ==
  IInv => /\ TypeOK /\ RunsOnValidConfig /\ DefaultsHeal /\ BoundedBlocking /\ AllAttemptsRun
          /\ PromptStop /\ WallClockCovers
  <1> SUFFICES ASSUME IInv PROVE WallClockCovers
    BY DEF IInv, OverrunInv, StopInv, VerdictInv
  <1> QED BY FallbackExact DEF IInv, TypeOK, RunsOnValidConfig, Configured, WallClockCovers

-----------------------------------------------------------------------------
(* The theorems.                                                           *)

\* Type correctness, with the loop counter of batchRead() within maxRetries.
THEOREM TypeCorrect == Spec => []TypeOK
  BY Invariance, InvSafe, PTL

\* No client runs on a configuration check() refuses, and the SDK is given the
\* timeout of the configuration in force, repaired or not.
THEOREM ConfigInForce == Spec => []RunsOnValidConfig
  BY Invariance, InvSafe, PTL

\* useDefault = true repairs every configuration with a valid log level.
THEOREM DefaultsRepair == Spec => []DefaultsHeal
  BY Invariance, InvSafe, PTL

\* batchRead() overruns its budget by one attempt and one backoff at most.
THEOREM ReadBlocksBounded == Spec => []BoundedBlocking
  BY Invariance, InvSafe, PTL

\* The budget check() asks for lets every attempt run, unless calls are slow
\* and queue or back off for long.
THEOREM BudgetSuffices == Spec => []AllAttemptsRun
  BY Invariance, InvSafe, PTL

\* A backoff outlives the stop signal by one segment at most.
THEOREM BackoffStops == Spec => []PromptStop
  BY Invariance, InvSafe, PTL

\* The uint32_t arithmetic of the wall-clock fallback is exact.
THEOREM FallbackCovers == Spec => []WallClockCovers
  BY Invariance, InvSafe, PTL
=============================================================================
