---------------------------- MODULE RetryBudget ----------------------------
(***************************************************************************)
(* How long a client built from a ClientConfig may block: configureClient()*)
(* of src/src/OPCUAPacking/ua.cpp, then the retry loop of Impl::batchRead()*)
(* with its time budget and the segmented, interruptible backoff of        *)
(* delayFunction().  Time is what ISdk::nowMs() shows, in ms, as the sum   *)
(* of what a read spends waiting for m_sdkMutex, inside the SDK and in     *)
(* backoff.  Which other thread stops or disconnects the client, and when, *)
(* is ClientImpl's subject: here it is the environment.                    *)
(***************************************************************************)
EXTENDS ClientConfig

CONSTANTS
  Candidates,   \* configurations a user passes to the factories
  Durations,    \* times a service call can take
  Waits         \* times a thread can wait for m_sdkMutex

ASSUME CandidatesAssumption == Candidates \subseteq Configs
ASSUME DurationsAssumption == Durations \subseteq Nat /\ Durations # {}
ASSUME WaitsAssumption == Waits \subseteq Nat /\ Waits # {}

SegmentMs == 100   \* segmentMs of delayFunction()

VARIABLES
  pc,             \* where the factory, then batchRead(), stands
  cfg,            \* m_config
  useDefault,     \* the argument of configureClient()
  sdkTimeout,     \* UA_ClientConfig::timeout
  outcome,        \* the code the last call returned
  life, conn,     \* m_lifeState, m_connState
  down,           \* m_shutdown && !m_running
  retry,          \* the loop counter of batchRead()
  inCall,         \* time this read has spent in service calls,
  queued,         \* waiting for m_sdkMutex,
  slept,          \* and in backoff
  wait,           \* the wait of the last attempt
  longest,        \* the longest attempt, wait included
  backoffMs, elapsedMs,  \* the locals of delayFunction()
  sleptStopped    \* backoff slept after the stop signal

config == <<cfg, useDefault, sdkTimeout>>
flags  == <<life, conn, down>>
clocks == <<inCall, queued, slept, wait, longest>>
delay  == <<backoffMs, elapsedMs, sleptStopped>>
vars   == <<pc, config, outcome, flags, retry, clocks, delay>>

Elapsed == inCall + queued + slept

Configured == pc \in {"ready", "top", "call", "answer", "delay", "sleep", "done"}

getEffectiveStopSignal == down \/ life = "GIVEN_UP"

Outcomes ==
  {"none", "OK", "SDK_ERROR", "INVALID_CONFIG", "ALREADY_TERMINATED", "BUDGET_EXCEEDED",
   "NOT_CONNECTED", "THREAD_BUSY", "SERVICE_RETRY_EXHAUSTED", "SERVICE_FAILED"}

Min2(a, b) == IF a < b THEN a ELSE b
Max2(a, b) == IF a < b THEN b ELSE a

Init ==
  /\ pc = "new"
  /\ cfg = DefaultConfig /\ useDefault = FALSE /\ sdkTimeout = 0
  /\ outcome = "none"
  /\ life = "RUNNING" /\ conn = "IDLE" /\ down = FALSE
  /\ retry = 0
  /\ inCall = 0 /\ queued = 0 /\ slept = 0 /\ wait = 0 /\ longest = 0
  /\ backoffMs = 0 /\ elapsedMs = 0 /\ sleptStopped = 0

-----------------------------------------------------------------------------
(* configureClient(): called by the factories on a fresh Impl, so m_impl   *)
(* is set and no watchdog runs yet.                                        *)

\* create(config, useDefault): the Impl keeps a copy of the configuration.
Create(c, d) ==
  /\ pc \in {"new", "rejected"}
  /\ pc' = "validate"
  /\ cfg' = c /\ useDefault' = d /\ sdkTimeout' = 0
  /\ outcome' = "none"
  /\ UNCHANGED <<flags, retry, clocks, delay>>

Reject(code) ==
  /\ pc' = "rejected"
  /\ outcome' = code
  /\ UNCHANGED <<useDefault, sdkTimeout, flags, retry, clocks, delay>>

\* ISdk::getConfig() returns null, in either of its two calls.
GetConfigFails ==
  /\ pc \in {"validate", "apply"}
  /\ Reject("SDK_ERROR")
  /\ UNCHANGED cfg

validateConfiguration ==
  /\ pc = "validate"
  /\ \/ /\ ~check(cfg) /\ ~useDefault
        /\ Reject("INVALID_CONFIG")
        /\ UNCHANGED cfg
     \/ /\ check(cfg) \/ useDefault
        /\ pc' = "apply"
        /\ UNCHANGED <<config, outcome, flags, retry, clocks, delay>>

\* Mutant of applyConfiguration: the SDK gets its timeout before the repair.
applyConfigurationTimeoutFirst ==
  LET fixed == IF useDefault THEN applyDefaultIfInvalid(cfg) ELSE cfg IN
  /\ pc = "apply"
  /\ cfg' = fixed
  /\ pc' = "ready"
  /\ sdkTimeout' = cfg.timeoutMs
  /\ life' = "RUNNING" /\ conn' = "IDLE" /\ down' = FALSE
  /\ outcome' = "OK"
  /\ UNCHANGED <<useDefault, retry, clocks, delay>>

\* Defaults first, then the SDK's timeouts, then the initial flags.  A repair
\* that fails has replaced m_config all the same.
applyConfiguration ==
  LET fixed == IF useDefault THEN applyDefaultIfInvalid(cfg) ELSE cfg IN
  /\ pc = "apply"
  /\ cfg' = fixed
  /\ \/ useDefault /\ ~check(fixed) /\ Reject("INVALID_CONFIG")
     \/ /\ ~useDefault \/ check(fixed)
        /\ pc' = "ready"
        /\ sdkTimeout' = fixed.timeoutMs
        /\ life' = "RUNNING" /\ conn' = "IDLE" /\ down' = FALSE
        /\ outcome' = "OK"
        /\ UNCHANGED <<useDefault, retry, clocks, delay>>

-----------------------------------------------------------------------------
(* The rest of the client, on other threads.                               *)

SignalShutdown ==
  /\ Configured
  /\ ~down /\ down' = TRUE
  /\ UNCHANGED <<pc, config, outcome, life, conn, retry, clocks, delay>>

LifeChange ==
  /\ Configured
  /\ life # "GIVEN_UP"
  /\ life' \in {"RUNNING", "RECOVERING", "GIVEN_UP"} \ {life}
  /\ UNCHANGED <<pc, config, outcome, conn, down, retry, clocks, delay>>

ConnChange ==
  /\ Configured
  /\ conn' = IF conn = "IDLE" THEN "CONNECTING" ELSE "IDLE"
  /\ UNCHANGED <<pc, config, outcome, life, down, retry, clocks, delay>>

-----------------------------------------------------------------------------
(* The retry loop of batchRead().                                          *)

BatchRead ==
  /\ pc \in {"ready", "done"}
  /\ pc' = "top"
  /\ retry' = 0 /\ outcome' = "none"
  /\ inCall' = 0 /\ queued' = 0 /\ slept' = 0 /\ wait' = 0 /\ longest' = 0
  /\ sleptStopped' = 0 /\ backoffMs' = 0 /\ elapsedMs' = 0
  /\ UNCHANGED <<config, flags>>

Return(code) ==
  /\ pc' = "done"
  /\ outcome' = code
  /\ UNCHANGED <<config, flags, retry, delay>>

\* The tests before an attempt.
LoopReturns ==
  /\ pc = "top"
  /\ \/ getEffectiveStopSignal /\ Return("ALREADY_TERMINATED")
     \/ ~getEffectiveStopSignal /\ Elapsed > cfg.maxTotalWaitMs /\ Return("BUDGET_EXCEEDED")
     \/ /\ ~getEffectiveStopSignal /\ Elapsed <= cfg.maxTotalWaitMs
        /\ \/ life = "RECOVERING" /\ Return("NOT_CONNECTED")
           \/ life # "RECOVERING" /\ conn # "IDLE" /\ Return("THREAD_BUSY")
  /\ UNCHANGED clocks

\* Mutant of LoopGoesOn: the budget is not consulted.
LoopGoesOnUnbudgeted ==
  /\ pc = "top"
  /\ ~getEffectiveStopSignal
  /\ life = "RUNNING" /\ conn = "IDLE"
  /\ pc' = "call"
  /\ UNCHANGED <<config, outcome, flags, retry, clocks, delay>>

LoopGoesOn ==
  /\ pc = "top"
  /\ ~getEffectiveStopSignal
  /\ Elapsed <= cfg.maxTotalWaitMs
  /\ life = "RUNNING" /\ conn = "IDLE"
  /\ pc' = "call"
  /\ UNCHANGED <<config, outcome, flags, retry, clocks, delay>>

\* serviceRead() under m_sdkMutex.  The mutex has no time limit; the SDK
\* spends at most its timeout on the service and as much on a synchronous
\* reconnection.
Attempt ==
  /\ pc = "call"
  /\ \E w \in Waits, d \in Durations :
       /\ d <= 2 * sdkTimeout
       /\ wait' = w /\ queued' = queued + w /\ inCall' = inCall + d
       /\ longest' = Max2(longest, w + d)
  /\ pc' = "answer"
  /\ UNCHANGED <<config, outcome, flags, retry, slept, delay>>

\* Any status but the nine connection errors ends the read.
AnswerFinal ==
  /\ pc = "answer"
  /\ \E code \in {"OK", "SERVICE_FAILED"} : Return(code)
  /\ UNCHANGED clocks

AnswerExhausted ==
  /\ pc = "answer"
  /\ retry = cfg.maxRetries
  /\ Return("SERVICE_RETRY_EXHAUSTED")
  /\ UNCHANGED clocks

\* Mutant of AnswerRetry: the last attempt is retried too.
AnswerRetryAlways ==
  /\ pc = "answer"
  /\ pc' = "delay"
  /\ backoffMs' = calculateBackoff(cfg, retry) /\ elapsedMs' = 0
  /\ UNCHANGED <<config, outcome, flags, retry, clocks, sleptStopped>>

\* A connection error with attempts left: delayFunction(retry).
AnswerRetry ==
  /\ pc = "answer"
  /\ retry # cfg.maxRetries
  /\ pc' = "delay"
  /\ backoffMs' = calculateBackoff(cfg, retry) /\ elapsedMs' = 0
  /\ UNCHANGED <<config, outcome, flags, retry, clocks, sleptStopped>>

\* Mutant of DelaySegment: the stop signal is not tested between segments.
DelaySegmentUnstopped ==
  /\ pc = "delay"
  /\ elapsedMs < backoffMs
  /\ pc' = "sleep"
  /\ UNCHANGED <<config, outcome, flags, retry, clocks, delay>>

DelaySegment ==
  /\ pc = "delay"
  /\ elapsedMs < backoffMs
  /\ ~getEffectiveStopSignal
  /\ pc' = "sleep"
  /\ UNCHANGED <<config, outcome, flags, retry, clocks, delay>>

\* wait_for() returns after the whole segment, or at once when a notification
\* finds the stop signal set; setGiveUpSignal() does not notify, so the stop
\* signal alone does not end it.
DelayWakes ==
  LET sleepMs == Min2(SegmentMs, backoffMs - elapsedMs) IN
  /\ pc = "sleep"
  /\ \E ms \in {0, sleepMs} :
       /\ ms = 0 => getEffectiveStopSignal
       /\ slept' = slept + ms
       /\ sleptStopped' = IF getEffectiveStopSignal THEN sleptStopped + ms ELSE sleptStopped
  /\ elapsedMs' = elapsedMs + sleepMs
  /\ pc' = "delay"
  /\ UNCHANGED <<config, outcome, flags, retry, inCall, queued, wait, longest, backoffMs>>

\* Mutant of DelayEnds: the stop signal does not end the backoff.
DelayEndsOnTimeOnly ==
  /\ pc = "delay"
  /\ elapsedMs >= backoffMs
  /\ pc' = "top"
  /\ retry' = retry + 1
  /\ UNCHANGED <<config, outcome, flags, clocks, delay>>

\* delayFunction() returns and the loop counts the attempt.
DelayEnds ==
  /\ pc = "delay"
  /\ elapsedMs >= backoffMs \/ getEffectiveStopSignal
  /\ pc' = "top"
  /\ retry' = retry + 1
  /\ UNCHANGED <<config, outcome, flags, clocks, delay>>

ReadStep ==
  \/ LoopReturns \/ LoopGoesOn \/ Attempt
  \/ AnswerFinal \/ AnswerExhausted \/ AnswerRetry
  \/ DelaySegment \/ DelayWakes \/ DelayEnds

Environment == SignalShutdown \/ LifeChange \/ ConnChange

Next ==
  \/ \E c \in Candidates, d \in BOOLEAN : Create(c, d)
  \/ GetConfigFails \/ validateConfiguration \/ applyConfiguration
  \/ Environment
  \/ BatchRead \/ ReadStep

Spec == Init /\ [][Next]_vars

\* The calling thread runs and the SDK's calls return.
FairSpec == Spec /\ WF_vars(ReadStep)

-----------------------------------------------------------------------------
(* Properties.                                                             *)

\* Every variable keeps its type; the loop counter stays within maxRetries,
\* so the "unreachable" exit after the loop of batchRead() is unreachable.
TypeOK ==
  /\ pc \in {"new", "rejected", "validate", "apply", "ready", "top", "call", "answer",
             "delay", "sleep", "done"}
  /\ cfg \in Configs /\ useDefault \in BOOLEAN /\ sdkTimeout \in Nat
  /\ outcome \in Outcomes
  /\ life \in {"RUNNING", "RECOVERING", "GIVEN_UP"}
  /\ conn \in {"IDLE", "CONNECTING"} /\ down \in BOOLEAN
  /\ retry \in Nat /\ (pc \in {"top", "call", "answer", "delay", "sleep"} => retry <= cfg.maxRetries)
  /\ inCall \in Nat /\ queued \in Nat /\ slept \in Nat /\ wait \in Nat /\ longest \in Nat
  /\ backoffMs \in Int /\ elapsedMs \in Nat /\ sleptStopped \in Nat

\* configureClient() never leaves a client running on a configuration that
\* check() refuses, and the SDK's timeout is the one of that configuration.
RunsOnValidConfig ==
  Configured => check(cfg) /\ sdkTimeout = cfg.timeoutMs

\* applyDefaultIfInvalid() repairs every configuration but one whose log level
\* is out of range, the only field applyProfile() does not set.
DefaultsHeal ==
  pc = "rejected" /\ useDefault /\ outcome = "INVALID_CONFIG" => ~checkLogLevel(cfg)

\* batchRead() blocks for no more than its budget, one attempt of 2 * timeoutMs,
\* that attempt's wait for m_sdkMutex and one backoff: the soft budget of
\* maxTotalWaitMs, tested only before an attempt.
BoundedBlocking ==
  Elapsed <= cfg.maxTotalWaitMs + 2 * cfg.timeoutMs + wait + cfg.retryMaxBackoffMs

\* What check() requires of maxTotalWaitMs is enough for every attempt: the
\* read is cut short only if some attempt took longer than timeoutMs, and only
\* if threads queued for m_sdkMutex or the backoffs exceed 2 * timeoutMs.
AllAttemptsRun ==
  outcome = "BUDGET_EXCEEDED" =>
    longest > cfg.timeoutMs /\ (queued > 0 \/ slept > 2 * cfg.timeoutMs)

\* Once the stop signal is set delayFunction() sleeps for one segment at most,
\* even if nobody notifies m_retryCv.
PromptStop == sleptStopped <= SegmentMs

\* The steady-clock fallback of connect() and disconnect() is 2 * timeoutMs +
\* 500 ms although it is computed in uint32_t: check() keeps timeoutMs far
\* enough from the end of the range, unless the budget itself is at its end.
WallClockCovers ==
  pc = "ready" /\ cfg.maxTotalWaitMs <= UMax - 500 => wallDeadline(cfg) = 2 * cfg.timeoutMs + 500

\* Every batchRead() returns, whatever the server answers.
ReadReturns == pc = "top" ~> pc = "done"
=============================================================================
