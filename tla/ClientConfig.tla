---------------------------- MODULE ClientConfig ----------------------------
(***************************************************************************)
(* struct ClientConfig (src/include/OPCUAPacking/Types.h): the network     *)
(* profiles, check() and applyDefaultIfInvalid(), and the two quantities   *)
(* ua.cpp computes from a configuration.  Times are in ms.                 *)
(* uint32_t arithmetic is modulo UMax + 1; the 64-bit computations of the  *)
(* code do not overflow and are plain.                                     *)
(***************************************************************************)
EXTENDS Integers

CONSTANT UMax   \* largest uint32_t: 2^32 - 1

ASSUME UMaxAssumption == UMax \in Nat /\ UMax >= 1000000

uint32 == 0..UMax
U32(x) == x % (UMax + 1)

Configs ==
  [timeoutMs : uint32, sessionTimeoutMs : uint32, secureChannelLifeTimeMs : uint32,
   maxTotalWaitMs : uint32, giveUpThresholdMs : Int, maxRetries : uint32,
   retryBackoffBaseMs : uint32, retryMaxBackoffMs : uint32, logLevel : uint32,
   connectivityCheckIntervalMs : uint32, watchdogIntervalMs : uint32]

\* The member initializers.
DefaultConfig ==
  [timeoutMs |-> 10000, sessionTimeoutMs |-> 600000,
   secureChannelLifeTimeMs |-> 600000, maxTotalWaitMs |-> 0,
   giveUpThresholdMs |-> 60000, maxRetries |-> 3, retryBackoffBaseMs |-> 1000,
   retryMaxBackoffMs |-> 8000, logLevel |-> 400,
   connectivityCheckIntervalMs |-> 10000, watchdogIntervalMs |-> 5000]

NetworkProfile == {"LOCAL", "REMOTE", "MOBILE", "UNSTABLE"}

\* What applyProfile() assigns: everything but the log level.
profile ==
  [p \in NetworkProfile |->
    CASE p = "LOCAL" ->
           [timeout |-> 5000, session |-> 600000, retries |-> 2, base |-> 500,
            cap |-> 4000, budget |-> 30000, alive |-> 30000, watchdog |-> 10000,
            giveUp |-> 60000]
      [] p = "REMOTE" ->
           [timeout |-> 15000, session |-> 600000, retries |-> 3, base |-> 1000,
            cap |-> 10000, budget |-> 120000, alive |-> 15000, watchdog |-> 8000,
            giveUp |-> 180000]
      [] p = "MOBILE" ->
           [timeout |-> 30000, session |-> 600000, retries |-> 4, base |-> 2000,
            cap |-> 20000, budget |-> 300000, alive |-> 10000, watchdog |-> 5000,
            giveUp |-> 360000]
      [] p = "UNSTABLE" ->
           [timeout |-> 20000, session |-> 300000, retries |-> 5, base |-> 1000,
            cap |-> 15000, budget |-> 240000, alive |-> 5000, watchdog |-> 3000,
            giveUp |-> 270000]]

\* Mutant of applyProfile: the local budget is one millisecond short.
applyProfileShortBudget(c, p) ==
  [c EXCEPT !.timeoutMs = profile[p].timeout, !.sessionTimeoutMs = profile[p].session,
            !.maxTotalWaitMs = profile[p].budget - 1, !.maxRetries = profile[p].retries]

applyProfile(c, p) ==
  [timeoutMs |-> profile[p].timeout,
   sessionTimeoutMs |-> profile[p].session,
   secureChannelLifeTimeMs |-> profile[p].session,
   maxTotalWaitMs |-> profile[p].budget,
   giveUpThresholdMs |-> profile[p].giveUp,
   maxRetries |-> profile[p].retries,
   retryBackoffBaseMs |-> profile[p].base,
   retryMaxBackoffMs |-> profile[p].cap,
   logLevel |-> c.logLevel,
   connectivityCheckIntervalMs |-> profile[p].alive,
   watchdogIntervalMs |-> profile[p].watchdog]

-----------------------------------------------------------------------------
(* check(): the configuration is accepted if no rule adds an error.        *)

checkTimeouts(c) ==
  /\ c.timeoutMs > 0 /\ c.sessionTimeoutMs > 0
  /\ c.secureChannelLifeTimeMs >= c.sessionTimeoutMs
  /\ c.maxRetries <= 10
  /\ c.watchdogIntervalMs >= 1000 /\ c.watchdogIntervalMs <= 30000
  /\ c.watchdogIntervalMs < c.sessionTimeoutMs

checkBackoff(c) ==
  /\ c.retryBackoffBaseMs > 0
  /\ c.retryMaxBackoffMs >= c.retryBackoffBaseMs
  /\ c.connectivityCheckIntervalMs >= 1000
  /\ c.connectivityCheckIntervalMs < c.sessionTimeoutMs
  /\ c.retryBackoffBaseMs < c.sessionTimeoutMs
  /\ c.timeoutMs < c.sessionTimeoutMs
  /\ c.retryMaxBackoffMs < c.timeoutMs

checkLogLevel(c) == c.logLevel >= 100 /\ c.logLevel <= 600

checkGiveUp(c) ==
  /\ c.giveUpThresholdMs >= 2 * c.watchdogIntervalMs
  /\ c.giveUpThresholdMs > 0
  /\ c.giveUpThresholdMs < c.sessionTimeoutMs

\* Mutant of requiredBudget: the first attempt is forgotten.
requiredBudgetOfRetries(c) ==
  2 * c.timeoutMs * (IF c.maxRetries = 0 THEN 1 ELSE c.maxRetries)

requiredBudget(c) == 2 * c.timeoutMs * (c.maxRetries + 1)

\* Mutant of checkTotalWait: the required budget is not compared.
checkTotalWaitUnrequired(c) ==
  /\ c.maxTotalWaitMs > c.timeoutMs
  /\ c.maxTotalWaitMs < c.sessionTimeoutMs

checkTotalWait(c) ==
  /\ c.maxTotalWaitMs > 0
  /\ c.maxTotalWaitMs > c.timeoutMs
  /\ c.maxTotalWaitMs < c.sessionTimeoutMs
  /\ c.maxRetries > 0 => c.maxTotalWaitMs >= U32(c.timeoutMs + c.retryMaxBackoffMs)
  /\ requiredBudget(c) <= UMax
  /\ c.maxTotalWaitMs >= requiredBudget(c)

check(c) ==
  checkTimeouts(c) /\ checkBackoff(c) /\ checkLogLevel(c) /\ checkGiveUp(c) /\ checkTotalWait(c)

\* applyDefaultIfInvalid(): the configuration it leaves behind; the call
\* fails when that one is not accepted either.
applyDefaultIfInvalid(c) == IF check(c) THEN c ELSE applyProfile(c, "LOCAL")

-----------------------------------------------------------------------------
(* What ua.cpp computes from a configuration.                              *)

\* calculateBackoff(): base << retry in 64 bits, at most the cap.
calculateBackoff(c, retry) ==
  IF retry >= 32 \/ c.retryBackoffBaseMs * 2^retry > c.retryMaxBackoffMs
  THEN c.retryMaxBackoffMs
  ELSE c.retryBackoffBaseMs * 2^retry

\* The steady-clock fallback of connect() and disconnect(), in uint32_t.
wallDeadline(c) == U32(U32(2 * c.timeoutMs) + 500)
=============================================================================
