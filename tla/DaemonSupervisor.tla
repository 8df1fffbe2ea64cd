-------------------------- MODULE DaemonSupervisor --------------------------
(***************************************************************************)
(* DaemonSupervisor (src/daemon/supervisor.ts) and its RestartPolicy: one  *)
(* managed runtime, restarted after an unexpected exit with a backoff that *)
(* grows with the consecutive failures, and slowed down to a circuit       *)
(* breaker after DegradedAfter of them.                                    *)
(*                                                                         *)
(* Every call of restartAfter is a sleeper: a promise that nothing cancels *)
(* and that carries the lifecycle generation it was created in.  The code  *)
(* uses clock readings only in differences, so the model keeps durations:  *)
(* what a sleeper has left, how long the runtime has been up.              *)
(***************************************************************************)
EXTENDS Naturals, Sequences

CONSTANTS
  NormalDelays,     \* NORMAL_DELAYS_MS: delay after the n-th failure, then the last
  DegradedAfter,    \* DEGRADED_AFTER_FAILURES
  DegradedDelay,    \* DEGRADED_RETRY_MS
  HealthyReset,     \* HEALTHY_RESET_MS
  LongestDelay,     \* bound on the delays, where the history variable stops counting
  MaxGeneration     \* bound on the number of calls of start() and stop()

ASSUME PolicyAssumption ==
  /\ NormalDelays \in Seq(0..LongestDelay) /\ NormalDelays # <<>>
  /\ DegradedAfter \in Nat \ {0}
  /\ HealthyReset \in Nat \ {0}
  /\ LongestDelay \in Nat
  /\ DegradedDelay \in 0..LongestDelay
  /\ MaxGeneration \in Nat

VARIABLES
  desiredRunning,   \* this.desiredRunning
  generation,       \* this.lifecycleGeneration
  current,          \* this.current is set
  state,            \* this.state
  failures,         \* consecutiveFailures of the policy, counted up to DegradedAfter
  uptime,           \* now() - runtimeStartedAt, counted up to HealthyReset
  sleepers,         \* pending restartAfter calls
  sinceExit         \* history: time since the last exit, counted up to LongestDelay

vars == <<desiredRunning, generation, current, state, failures, uptime, sleepers, sinceExit>>

RunningStates == {"starting", "auth", "online"}
WaitingStates == {"recovering", "degraded"}

UpTo(n, bound) == IF n < bound THEN n ELSE bound

\* RestartPolicy.nextAfterExit for the n-th consecutive failure.
IsDegraded(n) == n >= DegradedAfter
DelayAfter(n) ==
  IF IsDegraded(n) THEN DegradedDelay ELSE NormalDelays[UpTo(n, Len(NormalDelays))]

TypeOK ==
  /\ desiredRunning \in BOOLEAN
  /\ generation \in 0..MaxGeneration
  /\ current \in BOOLEAN
  /\ state \in RunningStates \cup WaitingStates \cup {"stopped"}
  /\ failures \in 0..DegradedAfter
  /\ uptime \in 0..HealthyReset
  /\ sleepers \subseteq [gen : 0..generation, left : 0..LongestDelay]
  /\ sinceExit \in 0..LongestDelay

Init ==
  /\ desiredRunning = FALSE
  /\ generation = 0
  /\ current = FALSE
  /\ state = "stopped"
  /\ failures = 0
  /\ uptime = 0
  /\ sleepers = {}
  /\ sinceExit = 0

-----------------------------------------------------------------------------
(***************************************************************************)
(* handleRuntimeExit, for a runtime that went after `before` failures in   *)
(* the given generation, while the other sleepers are `others`.            *)
(***************************************************************************)

\* Mutant: the open circuit breaker schedules no further retry.
RuntimeGoneForGood(before, others, gen) ==
  LET n == UpTo(before + 1, DegradedAfter) IN
  /\ current' = FALSE
  /\ failures' = n
  /\ state' = IF IsDegraded(n) THEN "degraded" ELSE "recovering"
  /\ sleepers' = IF IsDegraded(n) THEN others
                 ELSE others \cup {[gen |-> gen, left |-> DelayAfter(n)]}
  /\ uptime' = 0
  /\ sinceExit' = 0

RuntimeGone(before, others, gen) ==
  LET n == UpTo(before + 1, DegradedAfter) IN
  /\ current' = FALSE
  /\ failures' = n
  /\ state' = IF IsDegraded(n) THEN "degraded" ELSE "recovering"
  /\ sleepers' = others \cup {[gen |-> gen, left |-> DelayAfter(n)]}
  /\ uptime' = 0
  /\ sinceExit' = 0

\* startRuntime: the runtime comes up, or its start() throws and it is gone.
LaunchRuntime(before, others, gen) ==
  \/ /\ current' = TRUE
     /\ state' = "starting"
     /\ failures' = before
     /\ uptime' = 0
     /\ sleepers' = others
     /\ UNCHANGED sinceExit
  \/ RuntimeGone(before, others, gen)

Start ==
  /\ ~ desiredRunning
  /\ generation < MaxGeneration
  /\ desiredRunning' = TRUE
  /\ generation' = generation + 1
  /\ LaunchRuntime(0, sleepers, generation + 1)

\* The runtime is detached before it is asked to stop: nothing it emits from
\* here on reaches the supervisor.  The sleepers sleep on.
Stop ==
  /\ desiredRunning \/ state # "stopped"
  /\ generation < MaxGeneration
  /\ desiredRunning' = FALSE
  /\ generation' = generation + 1
  /\ state' = "stopped"
  /\ current' = FALSE
  /\ UNCHANGED <<failures, uptime, sleepers, sinceExit>>

\* auth.required and device.ready of the current runtime.
RuntimeReports ==
  /\ current
  /\ state' \in {"auth", "online"}
  /\ UNCHANGED <<desiredRunning, generation, current, failures, uptime, sleepers, sinceExit>>

RuntimeExits ==
  /\ current
  /\ RuntimeGone(IF uptime >= HealthyReset THEN 0 ELSE failures, sleepers, generation)
  /\ UNCHANGED <<desiredRunning, generation>>

\* Mutant: restartAfter looks at desiredRunning and at nothing else.
WakeOfAnyGeneration(s) ==
  /\ s.left = 0
  /\ IF desiredRunning /\ ~ current
       THEN LaunchRuntime(failures, sleepers \ {s}, generation)
       ELSE /\ sleepers' = sleepers \ {s}
            /\ UNCHANGED <<current, state, failures, uptime, sinceExit>>
  /\ UNCHANGED <<desiredRunning, generation>>

\* Mutant: restartAfter trusts the moment it was scheduled in.
WakeAnyway(s) ==
  /\ s.left = 0
  /\ IF ~ current
       THEN LaunchRuntime(failures, sleepers \ {s}, generation)
       ELSE /\ sleepers' = sleepers \ {s}
            /\ UNCHANGED <<current, state, failures, uptime, sinceExit>>
  /\ UNCHANGED <<desiredRunning, generation>>

\* restartAfter goes on after its sleep, or some time later.
Wake(s) ==
  /\ s.left = 0
  /\ IF desiredRunning /\ s.gen = generation /\ ~ current
       THEN LaunchRuntime(failures, sleepers \ {s}, generation)
       ELSE /\ sleepers' = sleepers \ {s}
            /\ UNCHANGED <<current, state, failures, uptime, sinceExit>>
  /\ UNCHANGED <<desiredRunning, generation>>

Tick ==
  /\ uptime' = IF current THEN UpTo(uptime + 1, HealthyReset) ELSE uptime
  /\ sinceExit' = UpTo(sinceExit + 1, LongestDelay)
  /\ sleepers' = {[s EXCEPT !.left = IF @ = 0 THEN 0 ELSE @ - 1] : s \in sleepers}
  /\ UNCHANGED <<desiredRunning, generation, current, state, failures>>

WakeOne == \E s \in sleepers : Wake(s)

Next == Start \/ Stop \/ RuntimeReports \/ RuntimeExits \/ WakeOne \/ Tick

(***************************************************************************)
(* Fairness: time passes and every sleep ends.  The runtime may run for    *)
(* ever, throw in every start() or exit at once.                           *)
(***************************************************************************)
SleepsEnd ==
  /\ WF_vars(Tick)
  /\ \A g \in 0..MaxGeneration : WF_vars(\E s \in sleepers : s.gen = g /\ Wake(s))

Spec == Init /\ [][Next]_vars
FairSpec == Spec /\ SleepsEnd

-----------------------------------------------------------------------------
(***************************************************************************)
(* Properties.                                                             *)
(***************************************************************************)

\* The state the supervisor reports agrees with what it holds: a runtime exactly
\* in the running states, none after stop(), whatever sleeper wakes afterwards.
StateTellsTheTruth ==
  /\ state \in RunningStates <=> current
  /\ state = "stopped" <=> ~ desiredRunning

Retries == {s \in sleepers : s.gen = generation}

\* While a runtime is wanted and there is none, exactly one retry is on its way;
\* otherwise none is.  Zero would leave the daemon without a runtime for ever,
\* two would restart it twice.
OneRetryPending ==
  IF desiredRunning /\ ~ current
    THEN \E s \in Retries : Retries = {s}
    ELSE Retries = {}

\* State, runtime and retries agree, whatever sleeper wakes up in whatever generation.
StateAndRetriesAgree == TypeOK /\ StateTellsTheTruth /\ OneRetryPending

RestartsAreLate ==
  desiredRunning /\ desiredRunning' /\ ~ current /\ current' => sinceExit >= DelayAfter(failures)

\* A restart never comes before the backoff of the failures counted so far is
\* over: no sleeper of an earlier start() cuts it short.
BackoffHonoured == [][RestartsAreLate]_vars

\* As long as a runtime is wanted, another attempt to start one is made, after
\* any number of failures and with the circuit breaker open.  A failed attempt
\* sets sinceExit back to 0.
NeverGivesUp ==
  (desiredRunning /\ ~ current /\ sinceExit > 0) ~> (~ desiredRunning \/ current \/ sinceExit = 0)
=============================================================================
