----------------------------- MODULE ServiceProofs -----------------------------
(***************************************************************************)
(* Proofs about Service: about its supervisor, for every backoff table,    *)
(* every threshold of the circuit breaker and any number of start() and    *)
(* stop() calls, and about the other components, each of which the         *)
(* composition is shown to implement.                                      *)
(***************************************************************************)
EXTENDS Service, QueueLemmas

(***************************************************************************)
(* The supervisor.  The inductive invariant adds to the checked invariants *)
(* what a sleeper knows: what it has left and the time since the last exit *)
(* together make up the delay of the failures counted so far.              *)
(***************************************************************************)

\* The table is consulted only after a failure.
FailuresCounted == desiredRunning /\ ~ current => failures >= 1

\* The retry on its way has the rest of its delay earlier it.
RetrySleepsLongEnough ==
  \A s \in Retries : s.left + sinceExit >= DelayAfter(failures)

IInv ==
  /\ TypeOK
  /\ StateTellsTheTruth
  /\ OneRetryPending
  /\ FailuresCounted
  /\ RetrySleepsLongEnough

-----------------------------------------------------------------------------
\* A duration that is counted up to a bound stays within it.
LEMMA UpToType ==
  ASSUME NEW n \in Nat, NEW bound \in Nat
  PROVE  UpTo(n, bound) \in 0..bound /\ UpTo(n, bound) <= n
  BY DEF UpTo

\* The delay after any failure is one of the table or that of the breaker.
LEMMA DelayType ==
  ASSUME NEW n \in Nat, n >= 1
  PROVE  DelayAfter(n) \in 0..LongestDelay
<1>1. CASE IsDegraded(n)
  BY <1>1, PolicyAssumption DEF DelayAfter
<1>2. CASE ~ IsDegraded(n)
  <2>1. Len(NormalDelays) \in Nat /\ Len(NormalDelays) >= 1
    BY PolicyAssumption
  <2>2. UpTo(n, Len(NormalDelays)) \in 1..Len(NormalDelays)
    BY <2>1 DEF UpTo
  <2>3. NormalDelays[UpTo(n, Len(NormalDelays))] \in 0..LongestDelay
    BY <2>2, PolicyAssumption
  <2> QED
    BY <1>2, <2>3 DEF DelayAfter
<1> QED
  BY <1>1, <1>2

\* A runtime that goes in generation gen, with no other retry of gen on its way,
\* leaves the supervisor with exactly one.
LEMMA GoneKeepsIInv ==
  ASSUME NEW earlier \in 0..DegradedAfter,
         NEW gen \in 0..MaxGeneration,
         NEW others \in SUBSET [gen : 0..gen, left : 0..LongestDelay],
         \A s \in others : s.gen # gen,
         RuntimeGone(earlier, others, gen),
         desiredRunning' = TRUE, generation' = gen
  PROVE  IInv'
<1> DEFINE n == UpTo(earlier + 1, DegradedAfter)
           new == [gen |-> gen, left |-> DelayAfter(n)]
<1>1. n \in 1..DegradedAfter
  BY PolicyAssumption DEF UpTo
<1>2. DelayAfter(n) \in 0..LongestDelay
  BY <1>1, DelayType, PolicyAssumption
<1>3. /\ current' = FALSE /\ failures' = n /\ uptime' = 0 /\ sinceExit' = 0
      /\ sleepers' = others \cup {new}
      /\ state' \in WaitingStates
  BY DEF RuntimeGone, WaitingStates
<1>4. TypeOK'
  <2>1. new \in [gen : 0..gen, left : 0..LongestDelay]
    BY <1>2
  <2>2. sleepers' \subseteq [gen : 0..generation', left : 0..LongestDelay]
    BY <1>3, <2>1
  <2>3. failures' \in 0..DegradedAfter /\ uptime' \in 0..HealthyReset /\ sinceExit' \in 0..LongestDelay
    BY <1>1, <1>3, PolicyAssumption
  <2> QED
    BY <1>3, <2>2, <2>3 DEF TypeOK
<1>5. StateTellsTheTruth'
  BY <1>3 DEF StateTellsTheTruth, RunningStates, WaitingStates
<1>6. Retries' = {new}
  BY <1>3 DEF Retries
<1>7. OneRetryPending' /\ FailuresCounted'
  BY <1>1, <1>3, <1>6 DEF OneRetryPending, FailuresCounted
<1>8. RetrySleepsLongEnough'
  BY <1>2, <1>3, <1>6 DEF RetrySleepsLongEnough, DelayAfter, IsDegraded, UpTo
<1> QED
  BY <1>4, <1>5, <1>7, <1>8 DEF IInv

\* The same for an attempt to launch one, whether start() throws or not.
LEMMA LaunchKeepsIInv ==
  ASSUME IInv,
         NEW earlier \in 0..DegradedAfter,
         NEW gen \in 0..MaxGeneration,
         NEW others \in SUBSET [gen : 0..gen, left : 0..LongestDelay],
         \A s \in others : s.gen # gen,
         LaunchRuntime(earlier, others, gen),
         desiredRunning' = TRUE, generation' = gen
  PROVE  IInv'
<1>1. CASE RuntimeGone(earlier, others, gen)
  BY <1>1, GoneKeepsIInv
<1>2. CASE /\ current' = TRUE /\ state' = "starting" /\ failures' = earlier
           /\ uptime' = 0 /\ sleepers' = others /\ UNCHANGED sinceExit
  <2>1. Retries' = {}
    BY <1>2 DEF Retries
  <2>2. TypeOK'
    BY <1>2, PolicyAssumption DEF IInv, TypeOK, RunningStates
  <2>3. StateTellsTheTruth' /\ OneRetryPending' /\ FailuresCounted' /\ RetrySleepsLongEnough'
    BY <1>2, <2>1 DEF StateTellsTheTruth, OneRetryPending, FailuresCounted,
                      RetrySleepsLongEnough, RunningStates
  <2> QED
    BY <2>2, <2>3 DEF IInv
<1> QED
  BY <1>1, <1>2 DEF LaunchRuntime

-----------------------------------------------------------------------------
LEMMA InitIInv == Init => IInv
<1> SUFFICES ASSUME Init PROVE IInv
  OBVIOUS
<1>1. Retries = {}
  BY DEF Init, Retries
<1>2. TypeOK
  <2>1. /\ 0 \in 0..MaxGeneration /\ 0 \in 0..DegradedAfter
        /\ 0 \in 0..HealthyReset /\ 0 \in 0..LongestDelay
    BY PolicyAssumption
  <2>2. sleepers \subseteq [gen : 0..generation, left : 0..LongestDelay]
    BY DEF Init
  <2> QED
    BY <2>1, <2>2 DEF Init, TypeOK
<1>3. StateTellsTheTruth
  BY DEF Init, StateTellsTheTruth, RunningStates
<1>5. FailuresCounted
  BY DEF Init, FailuresCounted, WaitingStates
<1>4. OneRetryPending /\ RetrySleepsLongEnough
  BY <1>1 DEF Init, OneRetryPending, RetrySleepsLongEnough
<1> QED
  BY <1>2, <1>3, <1>4, <1>5 DEF IInv

LEMMA StartKeepsIInv == IInv /\ Start => IInv'
<1> SUFFICES ASSUME IInv, Start PROVE IInv'
  OBVIOUS
<1>1. generation + 1 \in 0..MaxGeneration /\ 0 \in 0..DegradedAfter
  BY PolicyAssumption DEF IInv, TypeOK, Start
<1>2. sleepers \in SUBSET [gen : 0..generation + 1, left : 0..LongestDelay]
  BY PolicyAssumption DEF IInv, TypeOK
<1>3. \A s \in sleepers : s.gen # generation + 1
  BY PolicyAssumption DEF IInv, TypeOK
<1> QED
  BY <1>1, <1>2, <1>3, LaunchKeepsIInv DEF Start

LEMMA StopKeepsIInv == IInv /\ Stop => IInv'
<1> SUFFICES ASSUME IInv, Stop PROVE IInv'
  OBVIOUS
<1>1. generation' \in 0..MaxGeneration /\ generation' = generation + 1
  BY PolicyAssumption DEF IInv, TypeOK, Stop
<1>2. Retries' = {}
  BY <1>1, PolicyAssumption DEF IInv, TypeOK, Stop, Retries
<1>3. TypeOK'
  <2>1. [gen : 0..generation, left : 0..LongestDelay] \subseteq [gen : 0..generation', left : 0..LongestDelay]
    BY <1>1 DEF IInv, TypeOK
  <2> QED
    BY <1>1, <2>1 DEF IInv, TypeOK, Stop
<1> QED
  BY <1>2, <1>3 DEF Stop, IInv, StateTellsTheTruth, OneRetryPending, FailuresCounted,
                    RetrySleepsLongEnough, RunningStates

LEMMA ReportsKeepsIInv == IInv /\ RuntimeReports => IInv'
<1> SUFFICES ASSUME IInv, RuntimeReports PROVE IInv'
  OBVIOUS
<1>1. Retries' = Retries
  BY DEF RuntimeReports, Retries
<1>2. TypeOK'
  BY DEF IInv, TypeOK, RuntimeReports, RunningStates
<1>3. StateTellsTheTruth'
  BY DEF IInv, TypeOK, StateTellsTheTruth, RuntimeReports, RunningStates
<1>4. OneRetryPending' /\ FailuresCounted' /\ RetrySleepsLongEnough'
  BY <1>1 DEF IInv, OneRetryPending, FailuresCounted, RetrySleepsLongEnough, DelayAfter,
              IsDegraded, UpTo, RuntimeReports
<1> QED
  BY <1>2, <1>3, <1>4 DEF IInv

LEMMA ExitsKeepsIInv == IInv /\ RuntimeExits => IInv'
<1> SUFFICES ASSUME IInv, RuntimeExits PROVE IInv'
  OBVIOUS
<1> DEFINE earlier == IF uptime >= HealthyReset THEN 0 ELSE failures
<1>1. earlier \in 0..DegradedAfter /\ generation \in 0..MaxGeneration
  BY PolicyAssumption DEF IInv, TypeOK
<1>2. desiredRunning = TRUE
  BY DEF IInv, TypeOK, StateTellsTheTruth, RuntimeExits, RunningStates
<1>3. \A s \in sleepers : s.gen # generation
  BY DEF IInv, OneRetryPending, Retries, RuntimeExits
<1>4. RuntimeGone(earlier, sleepers, generation) /\ desiredRunning' = TRUE /\ generation' = generation
  BY <1>2 DEF RuntimeExits
<1> QED
  BY <1>1, <1>3, <1>4, GoneKeepsIInv DEF IInv, TypeOK

LEMMA WakeKeepsIInv == IInv /\ WakeOne => IInv'
<1> SUFFICES ASSUME IInv, NEW s \in sleepers, Wake(s) PROVE IInv'
  BY DEF WakeOne
<1>1. CASE desiredRunning /\ s.gen = generation /\ ~ current
  <2>1. Retries = {s}
    BY <1>1 DEF IInv, OneRetryPending, Retries
  <2>2. \A t \in sleepers \ {s} : t.gen # generation
    BY <2>1 DEF Retries
  <2>3. /\ failures \in 0..DegradedAfter /\ generation \in 0..MaxGeneration
        /\ sleepers \ {s} \in SUBSET [gen : 0..generation, left : 0..LongestDelay]
    BY DEF IInv, TypeOK
  <2>4. /\ LaunchRuntime(failures, sleepers \ {s}, generation)
        /\ desiredRunning' = TRUE /\ generation' = generation
    BY <1>1 DEF Wake, IInv, TypeOK
  <2> QED
    BY <2>2, <2>3, <2>4, LaunchKeepsIInv
<1>2. CASE ~ (desiredRunning /\ s.gen = generation /\ ~ current)
  <2>1. /\ sleepers' = sleepers \ {s}
        /\ UNCHANGED <<desiredRunning, generation, current, state, failures, uptime, sinceExit>>
    BY <1>2 DEF Wake
  <2>2. Retries' = Retries
    BY <1>2, <2>1 DEF IInv, OneRetryPending, Retries
  <2>3. TypeOK' /\ StateTellsTheTruth'
    BY <2>1 DEF IInv, TypeOK, StateTellsTheTruth
  <2>4. OneRetryPending' /\ FailuresCounted' /\ RetrySleepsLongEnough'
    BY <2>1, <2>2 DEF IInv, OneRetryPending, FailuresCounted, RetrySleepsLongEnough,
                      DelayAfter, IsDegraded, UpTo
  <2> QED
    BY <2>3, <2>4 DEF IInv
<1> QED
  BY <1>1, <1>2

LEMMA TickKeepsIInv == IInv /\ Tick => IInv'
<1> SUFFICES ASSUME IInv, Tick PROVE IInv'
  OBVIOUS
<1> DEFINE Older(s) == [s EXCEPT !.left = IF @ = 0 THEN 0 ELSE @ - 1]
<1>1. \A s \in sleepers :
        /\ Older(s) \in [gen : 0..generation, left : 0..LongestDelay]
        /\ Older(s).gen = s.gen
        /\ Older(s).left = IF s.left = 0 THEN 0 ELSE s.left - 1
  <2> SUFFICES ASSUME NEW s \in [gen : 0..generation, left : 0..LongestDelay]
               PROVE  /\ Older(s) \in [gen : 0..generation, left : 0..LongestDelay]
                      /\ Older(s).gen = s.gen
                      /\ Older(s).left = IF s.left = 0 THEN 0 ELSE s.left - 1
    BY DEF IInv, TypeOK
  <2> QED
    BY PolicyAssumption
<1>2. sleepers' = {Older(s) : s \in sleepers}
  BY DEF Tick
<1>3. Retries' = {Older(s) : s \in Retries}
  BY <1>1, <1>2 DEF Retries, Tick
<1>4. TypeOK'
  <2>1. uptime' \in 0..HealthyReset /\ sinceExit' \in 0..LongestDelay
    BY PolicyAssumption, SMTT(20) DEF IInv, TypeOK, Tick, UpTo
  <2> QED
    BY <1>1, <1>2, <2>1 DEF IInv, TypeOK, Tick
<1>5. StateTellsTheTruth' /\ FailuresCounted'
  BY DEF IInv, StateTellsTheTruth, FailuresCounted, Tick
<1>6. OneRetryPending'
  <2>1. CASE desiredRunning /\ ~ current
    <3>1. PICK s \in Retries : Retries = {s}
      BY <2>1 DEF IInv, OneRetryPending
    <3>2. Retries' = {Older(s)}
      BY <1>3, <3>1
    <3> QED
      BY <2>1, <3>2 DEF OneRetryPending, Tick
  <2>2. CASE ~ (desiredRunning /\ ~ current)
    BY <1>3, <2>2 DEF IInv, OneRetryPending, Tick
  <2> QED
    BY <2>1, <2>2
<1>7. RetrySleepsLongEnough'
  <2> SUFFICES ASSUME NEW t \in Retries'
               PROVE  t.left + sinceExit' >= DelayAfter(failures')
    BY DEF RetrySleepsLongEnough
  <2>1. PICK s \in Retries : t = Older(s)
    BY <1>3
  <2>2. s \in sleepers /\ s.left \in 0..LongestDelay
    BY DEF Retries, IInv, TypeOK
  <2>3. s.left + sinceExit >= DelayAfter(failures)
    BY DEF IInv, RetrySleepsLongEnough
  <2>4. DelayAfter(failures) \in 0..LongestDelay
    <3>1. Retries # {}
      BY <2>1
    <3>2. failures \in Nat /\ failures >= 1
      BY <3>1, PolicyAssumption DEF IInv, TypeOK, OneRetryPending, FailuresCounted
    <3> QED
      BY <3>2, DelayType
  <2>5. t.left = IF s.left = 0 THEN 0 ELSE s.left - 1
    BY <1>1, <2>1, <2>2
  <2>6. DelayAfter(failures') = DelayAfter(failures)
    BY DEF Tick, DelayAfter, IsDegraded, UpTo
  <2>7. sinceExit \in 0..LongestDelay /\ sinceExit' = UpTo(sinceExit + 1, LongestDelay)
    BY DEF IInv, TypeOK, Tick
  <2> QED
    BY <2>2, <2>3, <2>4, <2>5, <2>6, <2>7, PolicyAssumption DEF UpTo
<1> QED
  BY <1>4, <1>5, <1>6, <1>7 DEF IInv

LEMMA StutterKeepsIInv == IInv /\ UNCHANGED vars => IInv'
<1> SUFFICES ASSUME IInv, UNCHANGED vars PROVE IInv'
  OBVIOUS
<1> QED
  BY DEF vars, IInv, TypeOK, StateTellsTheTruth, OneRetryPending, FailuresCounted,
         RetrySleepsLongEnough, Retries, DelayAfter, IsDegraded, UpTo

LEMMA NextKeepsIInv == IInv /\ [Next]_vars => IInv'
  BY StartKeepsIInv, StopKeepsIInv, ReportsKeepsIInv, ExitsKeepsIInv, WakeKeepsIInv,
     TickKeepsIInv, StutterKeepsIInv DEF Next

\* The conjunction above holds in every reachable state.
THEOREM SupervisorInvariant == Spec => []IInv
  BY InitIInv, NextKeepsIInv, PTL DEF Spec

-----------------------------------------------------------------------------
\* Every variable of the supervisor keeps its type, whatever the backoff table.
THEOREM SupervisorTypeCorrect == Spec => []TypeOK
<1>1. IInv => TypeOK
  BY DEF IInv
<1> QED
  BY <1>1, SupervisorInvariant, PTL

\* state, current and desiredRunning agree: no sleeper brings a runtime back after
\* stop(), and the reported state is a running one exactly while there is one.
THEOREM StatusIsTruthful == Spec => []StateTellsTheTruth
<1>1. IInv => StateTellsTheTruth
  BY DEF IInv
<1> QED
  BY <1>1, SupervisorInvariant, PTL

\* There is exactly one live retry while the runtime is down and wanted.
THEOREM NeverZeroNorTwoRetries == Spec => []OneRetryPending
<1>1. IInv => OneRetryPending
  BY DEF IInv
<1> QED
  BY <1>1, SupervisorInvariant, PTL

\* The two together, with the types: what the supervisor says of itself is true and
\* the retry it owes is under way.
THEOREM StatusAndRetriesCorrect == Spec => []StateAndRetriesAgree
<1>1. IInv => StateAndRetriesAgree
  BY DEF IInv, StateAndRetriesAgree
<1> QED
  BY <1>1, SupervisorInvariant, PTL

LEMMA StepsHonourBackoff == IInv /\ [Next]_vars => RestartsAreLate
<1> SUFFICES ASSUME IInv, [Next]_vars, desiredRunning, desiredRunning', ~ current, current'
             PROVE  sinceExit >= DelayAfter(failures)
  BY DEF RestartsAreLate
<1>1. PICK s \in sleepers : Wake(s)
  BY DEF Next, Start, Stop, RuntimeReports, RuntimeExits, WakeOne, Tick, vars
<1>2. s \in Retries /\ s.left = 0
  BY <1>1 DEF Wake, Retries
<1>3. sinceExit \in Nat
  BY PolicyAssumption DEF IInv, TypeOK
<1> QED
  BY <1>2, <1>3 DEF IInv, RetrySleepsLongEnough

\* No restart comes earlier the backoff is over, in any step of any behaviour: not
\* even by a sleeper that a stop() and a start() have outlived.
THEOREM RestartsHonourBackoff == Spec => BackoffHonoured
  BY SupervisorInvariant, StepsHonourBackoff, PTL DEF Spec, BackoffHonoured

-----------------------------------------------------------------------------
(***************************************************************************)
(* The composition implements every component: each step of it is a step   *)
(* of one of them and leaves the variables of the others alone.            *)
(***************************************************************************)
LEMMA ServiceStep ==
  ASSUME [ServiceNext]_serviceVars
  PROVE  /\ [Next]_supervisorVars /\ [Install!Next]_(Install!vars) /\ [Control!Next]_(Control!vars)
         /\ [Repair!Next]_(Repair!vars) /\ [Config!Next]_(Config!vars)
         /\ [History!Next]_(History!vars) /\ [Log!Next]_(Log!vars) /\ [View!Next]_(View!vars)
<1> USE DEF serviceVars, supervisorVars, installVars, controlVars, repairVars, configVars,
            historyVars, logVars, viewVars, Install!vars, Control!vars, Repair!vars,
            Config!vars, History!vars, Log!vars, View!vars
<1>1. CASE SupervisorMoves
  BY <1>1 DEF SupervisorMoves
<1>2. CASE BuildsChange
  BY <1>2 DEF BuildsChange
<1>3. CASE CommandsRun
  BY <1>3 DEF CommandsRun
<1>4. CASE TunnelIsRepaired
  BY <1>4 DEF TunnelIsRepaired
<1>5. CASE ConfigChanges
  BY <1>5 DEF ConfigChanges
<1>6. CASE HistoryIsKept
  BY <1>6 DEF HistoryIsKept
<1>7. CASE LogIsWritten
  BY <1>7 DEF LogIsWritten
<1>8. CASE UserLooks
  BY <1>8 DEF UserLooks
<1>9. CASE UNCHANGED serviceVars
  BY <1>9
<1> QED
  BY <1>1, <1>2, <1>3, <1>4, <1>5, <1>6, <1>7, <1>8, <1>9 DEF ServiceNext

\* Whatever runs beside it, every component behaves as its own specification says.
THEOREM ServiceImplementsItsParts ==
  ServiceSpec => /\ Spec /\ Install!Spec /\ Control!Spec /\ Repair!Spec
                 /\ Config!Spec /\ History!Spec /\ Log!Spec /\ View!Spec
<1>1. ServiceInit => /\ Init /\ Install!Init /\ Control!Init /\ Repair!Init
                     /\ Config!Init /\ History!Init /\ Log!Init /\ View!Init
  BY DEF ServiceInit
<1>2. [ServiceNext]_serviceVars =>
        /\ [Next]_vars /\ [Install!Next]_(Install!vars) /\ [Control!Next]_(Control!vars)
        /\ [Repair!Next]_(Repair!vars) /\ [Config!Next]_(Config!vars)
        /\ [History!Next]_(History!vars) /\ [Log!Next]_(Log!vars) /\ [View!Next]_(View!vars)
  BY ServiceStep DEF supervisorVars
<1> QED
  BY <1>1, <1>2, PTL DEF ServiceSpec, Spec, Install!Spec, Control!Spec, Repair!Spec,
                         Config!Spec, History!Spec, Log!Spec, View!Spec

-----------------------------------------------------------------------------
(***************************************************************************)
(* The commands that control the service.  A command knows where it is in  *)
(* its script; one that has the field to itself knows besides what it has  *)
(* read (the service is wanted) and what it has put in place (the build on *)
(* trial, and the one to go back to).                                      *)
(***************************************************************************)
Steps == {"read", "promote", "restore", "want running", "want stopped",
          "start", "stop", "restart", "probe", "wait", "check"}

\* The steps a command takes, and the one it takes next.
Whole(c) == IF cmd[c].back THEN Control!Fallback ELSE Control!Script[cmd[c].op]
Left(c) == Len(cmd[c].todo)

Command == [op : DOMAIN Control!Script \cup {"none"}, todo : Seq(Steps), back : BOOLEAN,
            found : Int, alone : BOOLEAN,
            answer : {"none", "ok", "failed", "rolled back", "unverified"}]

FollowsScript(c) ==
  Control!Busy(c) =>
    /\ cmd[c].op \in DOMAIN Control!Script
    /\ cmd[c].back => cmd[c].op = "update"
    /\ cmd[c].answer = "none"
    /\ Left(c) <= Len(Whole(c))
    /\ \A j \in 1..Left(c) : cmd[c].todo[j] = Whole(c)[Len(Whole(c)) - Left(c) + j]

(* The commands that have the field to themselves.                            *)
Undisturbed(c) == Control!Busy(c) /\ cmd[c].alone

KnowsWhatIsWanted(c) ==
  Undisturbed(c) /\ Head(cmd[c].todo) \in {"probe", "start", "restart"} => desired = "running"

(* The update has a build in place that has not passed its gate.              *)
OnTrial(c) == IF cmd[c].back THEN Left(c) = 5 ELSE Left(c) <= 4

KnowsTheBuild(c) ==
  Undisturbed(c) /\ cmd[c].op = "update" =>
    /\ OnTrial(c) => installed = builds /\ previous = cmd[c].found
    /\ ~OnTrial(c) => installed = cmd[c].found
    /\ Left(c) <= 2 => daemon \in {installed, Control!None}

Shapes ==
  /\ desired \in {"running", "stopped"} /\ loaded \in BOOLEAN
  /\ good \subseteq 1..MaxPromotions
  /\ daemon \in 0..MaxPromotions /\ installed \in 0..MaxPromotions /\ previous \in 0..MaxPromotions
  /\ builds \in 1..MaxPromotions

ControlIInv ==
  /\ Shapes
  /\ cmd \in [Commands -> Command]
  /\ \A c \in Commands :
       /\ FollowsScript(c)
       /\ Undisturbed(c) => \A d \in Commands \ {c} : ~Control!Busy(d)
       /\ KnowsWhatIsWanted(c)
       /\ KnowsTheBuild(c)


\* What an update and a rollback do after their first steps.
LEMMA OneThenGate ==
  ASSUME NEW a
  PROVE  <<a>> \o Control!Gate = <<a, "read", "restart", "wait", "check">>
<1> DEFINE S == {a, "read", "restart", "wait", "check"}
           s == <<a>>
           t == <<"read", "restart", "wait", "check">>
           r == <<a, "read", "restart", "wait", "check">>
<1>1. s \in Seq(S) /\ t \in Seq(S) /\ r \in Seq(S) /\ Len(s) = 1 /\ Len(t) = 4 /\ Len(r) = 5
  OBVIOUS
<1>2. \A i \in 1..5 : r[i] = IF i <= 1 THEN s[i] ELSE t[i - 1]
  OBVIOUS
<1> HIDE DEF S, s, t, r
<1>5. Len(r) = Len(s) + Len(t) /\ \A i \in 1..Len(r) : r[i] = IF i <= Len(s) THEN s[i] ELSE t[i - Len(s)]
  BY <1>1, <1>2
<1>3. s \o t = r
  BY <1>1, <1>5, ConcatIs
<1>4. QED
  BY <1>3 DEF s, t, r, Control!Gate

LEMMA TwoThenGate ==
  ASSUME NEW a, NEW b
  PROVE  <<a, b>> \o Control!Gate = <<a, b, "read", "restart", "wait", "check">>
<1> DEFINE S == {a, b, "read", "restart", "wait", "check"}
           s == <<a, b>>
           t == <<"read", "restart", "wait", "check">>
           r == <<a, b, "read", "restart", "wait", "check">>
<1>1. s \in Seq(S) /\ t \in Seq(S) /\ r \in Seq(S) /\ Len(s) = 2 /\ Len(t) = 4 /\ Len(r) = 6
  OBVIOUS
<1>2. \A i \in 1..6 : r[i] = IF i <= 2 THEN s[i] ELSE t[i - 2]
  OBVIOUS
<1> HIDE DEF S, s, t, r
<1>5. Len(r) = Len(s) + Len(t) /\ \A i \in 1..Len(r) : r[i] = IF i <= Len(s) THEN s[i] ELSE t[i - Len(s)]
  BY <1>1, <1>2
<1>3. s \o t = r
  BY <1>1, <1>5, ConcatIs
<1>4. QED
  BY <1>3 DEF s, t, r, Control!Gate

LEMMA ScriptSteps ==
  /\ DOMAIN Control!Script = {"install", "start", "stop", "restart", "update", "rollback", "ensure"}
  /\ Control!Script["install"] = <<"promote", "want running", "start", "wait">>
  /\ Control!Script["start"] = <<"want running", "start", "wait">>
  /\ Control!Script["stop"] = <<"want stopped", "stop">>
  /\ Control!Script["restart"] = <<"read", "restart", "wait", "check">>
  /\ Control!Script["update"] = <<"read", "promote", "read", "restart", "wait", "check">>
  /\ Control!Script["rollback"] = <<"read", "restore", "read", "restart", "wait", "check">>
  /\ Control!Script["ensure"] = <<"read", "probe", "start", "wait">>
  /\ Control!Fallback = <<"restore", "read", "restart", "wait", "check">>
<1>1. <<"read", "promote">> \o Control!Gate = <<"read", "promote", "read", "restart", "wait", "check">>
  BY TwoThenGate
<1>2. <<"read", "restore">> \o Control!Gate = <<"read", "restore", "read", "restart", "wait", "check">>
  BY TwoThenGate
<1>3. Control!Fallback = <<"restore", "read", "restart", "wait", "check">>
  BY OneThenGate DEF Control!Fallback
<1>4. QED
  BY <1>1, <1>2, <1>3 DEF Control!Script, Control!Gate

LEMMA ScriptLengths ==
  /\ Len(Control!Fallback) = 5
  /\ Len(Control!Script["install"]) = 4 /\ Len(Control!Script["start"]) = 3 /\ Len(Control!Script["stop"]) = 2
  /\ Len(Control!Script["restart"]) = 4 /\ Len(Control!Script["update"]) = 6
  /\ Len(Control!Script["rollback"]) = 6 /\ Len(Control!Script["ensure"]) = 4
  /\ \A op \in DOMAIN Control!Script : Len(Control!Script[op]) \in Nat /\ Len(Control!Script[op]) <= 6
<1>1. /\ Len(<<"promote", "want running", "start", "wait">>) = 4
      /\ Len(<<"want running", "start", "wait">>) = 3
      /\ Len(<<"want stopped", "stop">>) = 2
      /\ Len(<<"read", "restart", "wait", "check">>) = 4
      /\ Len(<<"read", "probe", "start", "wait">>) = 4
      /\ Len(<<"restore", "read", "restart", "wait", "check">>) = 5
  OBVIOUS
<1>2. /\ Len(<<"read", "promote", "read", "restart", "wait", "check">>) = 6
      /\ Len(<<"read", "restore", "read", "restart", "wait", "check">>) = 6
  OBVIOUS
<1>3. /\ Len(Control!Fallback) = 5
      /\ Len(Control!Script["install"]) = 4 /\ Len(Control!Script["start"]) = 3 /\ Len(Control!Script["stop"]) = 2
      /\ Len(Control!Script["restart"]) = 4 /\ Len(Control!Script["update"]) = 6
      /\ Len(Control!Script["rollback"]) = 6 /\ Len(Control!Script["ensure"]) = 4
  BY <1>1, <1>2, ScriptSteps, Zenon
<1>4. \A op \in DOMAIN Control!Script : \/ op = "install" \/ op = "start" \/ op = "stop" \/ op = "restart"
                                \/ op = "update" \/ op = "rollback" \/ op = "ensure"
  BY ScriptSteps, Zenon
<1>5. 2 \in Nat /\ 2 <= 6 /\ 3 \in Nat /\ 3 <= 6 /\ 4 \in Nat /\ 4 <= 6 /\ 6 \in Nat /\ 6 <= 6
  OBVIOUS
<1>6. ASSUME NEW op \in DOMAIN Control!Script PROVE Len(Control!Script[op]) \in Nat /\ Len(Control!Script[op]) <= 6
  BY <1>3, <1>4, <1>5, Zenon
<1>7. QED
  BY <1>3, <1>6, Zenon

LEMMA ScriptElements ==
  /\ Control!Script["install"][1] = "promote" /\ Control!Script["install"][2] = "want running" /\ Control!Script["install"][3] = "start" /\ Control!Script["install"][4] = "wait"
  /\ Control!Script["start"][1] = "want running" /\ Control!Script["start"][2] = "start" /\ Control!Script["start"][3] = "wait"
  /\ Control!Script["stop"][1] = "want stopped" /\ Control!Script["stop"][2] = "stop"
  /\ Control!Script["restart"][1] = "read" /\ Control!Script["restart"][2] = "restart" /\ Control!Script["restart"][3] = "wait" /\ Control!Script["restart"][4] = "check"
  /\ Control!Script["update"][1] = "read" /\ Control!Script["update"][2] = "promote" /\ Control!Script["update"][3] = "read" /\ Control!Script["update"][4] = "restart" /\ Control!Script["update"][5] = "wait" /\ Control!Script["update"][6] = "check"
  /\ Control!Script["rollback"][1] = "read" /\ Control!Script["rollback"][2] = "restore" /\ Control!Script["rollback"][3] = "read" /\ Control!Script["rollback"][4] = "restart" /\ Control!Script["rollback"][5] = "wait" /\ Control!Script["rollback"][6] = "check"
  /\ Control!Script["ensure"][1] = "read" /\ Control!Script["ensure"][2] = "probe" /\ Control!Script["ensure"][3] = "start" /\ Control!Script["ensure"][4] = "wait"
  /\ Control!Fallback[1] = "restore" /\ Control!Fallback[2] = "read" /\ Control!Fallback[3] = "restart" /\ Control!Fallback[4] = "wait" /\ Control!Fallback[5] = "check"
<1>1. Control!Script["install"][1] = "promote" /\ Control!Script["install"][2] = "want running" /\ Control!Script["install"][3] = "start" /\ Control!Script["install"][4] = "wait"
  <2>1. <<"promote", "want running", "start", "wait">>[1] = "promote" /\ <<"promote", "want running", "start", "wait">>[2] = "want running" /\ <<"promote", "want running", "start", "wait">>[3] = "start" /\ <<"promote", "want running", "start", "wait">>[4] = "wait"
    OBVIOUS
  <2>2. QED
    BY <2>1, ScriptSteps, Zenon
<1>2. Control!Script["start"][1] = "want running" /\ Control!Script["start"][2] = "start" /\ Control!Script["start"][3] = "wait"
  <2>1. <<"want running", "start", "wait">>[1] = "want running" /\ <<"want running", "start", "wait">>[2] = "start" /\ <<"want running", "start", "wait">>[3] = "wait"
    OBVIOUS
  <2>2. QED
    BY <2>1, ScriptSteps, Zenon
<1>3. Control!Script["stop"][1] = "want stopped" /\ Control!Script["stop"][2] = "stop"
  <2>1. <<"want stopped", "stop">>[1] = "want stopped" /\ <<"want stopped", "stop">>[2] = "stop"
    OBVIOUS
  <2>2. QED
    BY <2>1, ScriptSteps, Zenon
<1>4. Control!Script["restart"][1] = "read" /\ Control!Script["restart"][2] = "restart" /\ Control!Script["restart"][3] = "wait" /\ Control!Script["restart"][4] = "check"
  <2>1. <<"read", "restart", "wait", "check">>[1] = "read" /\ <<"read", "restart", "wait", "check">>[2] = "restart" /\ <<"read", "restart", "wait", "check">>[3] = "wait" /\ <<"read", "restart", "wait", "check">>[4] = "check"
    OBVIOUS
  <2>2. QED
    BY <2>1, ScriptSteps, Zenon
<1>5. Control!Script["update"][1] = "read" /\ Control!Script["update"][2] = "promote" /\ Control!Script["update"][3] = "read" /\ Control!Script["update"][4] = "restart" /\ Control!Script["update"][5] = "wait" /\ Control!Script["update"][6] = "check"
  <2>1. <<"read", "promote", "read", "restart", "wait", "check">>[1] = "read" /\ <<"read", "promote", "read", "restart", "wait", "check">>[2] = "promote" /\ <<"read", "promote", "read", "restart", "wait", "check">>[3] = "read" /\ <<"read", "promote", "read", "restart", "wait", "check">>[4] = "restart" /\ <<"read", "promote", "read", "restart", "wait", "check">>[5] = "wait" /\ <<"read", "promote", "read", "restart", "wait", "check">>[6] = "check"
    OBVIOUS
  <2>2. QED
    BY <2>1, ScriptSteps, Zenon
<1>6. Control!Script["rollback"][1] = "read" /\ Control!Script["rollback"][2] = "restore" /\ Control!Script["rollback"][3] = "read" /\ Control!Script["rollback"][4] = "restart" /\ Control!Script["rollback"][5] = "wait" /\ Control!Script["rollback"][6] = "check"
  <2>1. <<"read", "restore", "read", "restart", "wait", "check">>[1] = "read" /\ <<"read", "restore", "read", "restart", "wait", "check">>[2] = "restore" /\ <<"read", "restore", "read", "restart", "wait", "check">>[3] = "read" /\ <<"read", "restore", "read", "restart", "wait", "check">>[4] = "restart" /\ <<"read", "restore", "read", "restart", "wait", "check">>[5] = "wait" /\ <<"read", "restore", "read", "restart", "wait", "check">>[6] = "check"
    OBVIOUS
  <2>2. QED
    BY <2>1, ScriptSteps, Zenon
<1>7. Control!Script["ensure"][1] = "read" /\ Control!Script["ensure"][2] = "probe" /\ Control!Script["ensure"][3] = "start" /\ Control!Script["ensure"][4] = "wait"
  <2>1. <<"read", "probe", "start", "wait">>[1] = "read" /\ <<"read", "probe", "start", "wait">>[2] = "probe" /\ <<"read", "probe", "start", "wait">>[3] = "start" /\ <<"read", "probe", "start", "wait">>[4] = "wait"
    OBVIOUS
  <2>2. QED
    BY <2>1, ScriptSteps, Zenon
<1>8. Control!Fallback[1] = "restore" /\ Control!Fallback[2] = "read" /\ Control!Fallback[3] = "restart" /\ Control!Fallback[4] = "wait" /\ Control!Fallback[5] = "check"
  <2>1. <<"restore", "read", "restart", "wait", "check">>[1] = "restore" /\ <<"restore", "read", "restart", "wait", "check">>[2] = "read" /\ <<"restore", "read", "restart", "wait", "check">>[3] = "restart" /\ <<"restore", "read", "restart", "wait", "check">>[4] = "wait" /\ <<"restore", "read", "restart", "wait", "check">>[5] = "check"
    OBVIOUS
  <2>2. QED
    BY <2>1, ScriptSteps, Zenon
<1>9. QED
  BY <1>1, <1>2, <1>3, <1>4, <1>5, <1>6, <1>7, <1>8

\* Where a command is, told by what it has left.
LEMMA WhereItIs ==
  ASSUME ControlIInv, NEW c \in Commands, Control!Busy(c)
  PROVE  /\ Left(c) \in 1..6 /\ Len(Whole(c)) \in Nat
         /\ cmd[c].todo \in Seq(Steps) /\ cmd[c].op \in DOMAIN Control!Script
         /\ Head(cmd[c].todo) = Whole(c)[Len(Whole(c)) - Left(c) + 1]
         /\ Left(c) > 1 => Head(Tail(cmd[c].todo)) = Whole(c)[Len(Whole(c)) - Left(c) + 2]
         /\ Len(Tail(cmd[c].todo)) = Left(c) - 1
         /\ Tail(cmd[c].todo) \in Seq(Steps)
         /\ \A j \in 1..Left(c)-1 : Tail(cmd[c].todo)[j] = cmd[c].todo[j+1]
<1>1. cmd[c] \in Command /\ FollowsScript(c)
  BY DEF ControlIInv
<1>2. cmd[c].todo \in Seq(Steps) /\ cmd[c].todo # <<>>
  BY <1>1 DEF Command, Control!Busy
<1>3. /\ Left(c) \in Nat \ {0}
      /\ Head(cmd[c].todo) = cmd[c].todo[1]
      /\ Tail(cmd[c].todo) \in Seq(Steps)
      /\ Len(Tail(cmd[c].todo)) = Left(c) - 1
      /\ \A j \in 1..Left(c)-1 : Tail(cmd[c].todo)[j] = cmd[c].todo[j+1]
  BY <1>2, HeadTailProperties, EmptySeq, LenProperties DEF Left
<1>4. Len(Whole(c)) \in Nat /\ Len(Whole(c)) <= 6 /\ cmd[c].op \in DOMAIN Control!Script
  <2>1. cmd[c].op \in DOMAIN Control!Script
    BY <1>1 DEF FollowsScript
  <2>2. Len(Control!Fallback) \in Nat /\ Len(Control!Fallback) <= 6
    BY ScriptLengths
  <2>5. Len(Control!Script[cmd[c].op]) \in Nat /\ Len(Control!Script[cmd[c].op]) <= 6
    BY <2>1, ScriptLengths
  <2>3. Whole(c) = Control!Fallback \/ Whole(c) = Control!Script[cmd[c].op]
    BY DEF Whole
  <2>4. QED
    BY <2>1, <2>2, <2>3, <2>5
<1>5. Left(c) > 1 => Head(Tail(cmd[c].todo)) = cmd[c].todo[2]
  <2>1. HAVE Left(c) > 1
  <2>2. Tail(cmd[c].todo) # <<>>
    BY <1>3, <2>1
  <2>3. Head(Tail(cmd[c].todo)) = Tail(cmd[c].todo)[1]
    BY <1>3, <2>2, HeadTailProperties
  <2>4. QED
    BY <1>3, <2>1, <2>3
<1>6. Left(c) <= Len(Whole(c)) /\ \A j \in 1..Left(c) : cmd[c].todo[j] = Whole(c)[Len(Whole(c)) - Left(c) + j]
  BY <1>1 DEF FollowsScript
<1>7. /\ Left(c) \in 1..6
      /\ cmd[c].todo[1] = Whole(c)[Len(Whole(c)) - Left(c) + 1]
      /\ Left(c) > 1 => cmd[c].todo[2] = Whole(c)[Len(Whole(c)) - Left(c) + 2]
  <2>1. Left(c) \in 1..6
    BY <1>3, <1>4, <1>6
  <2>2. 1 \in 1..Left(c) /\ (Left(c) > 1 => 2 \in 1..Left(c))
    BY <2>1
  <2>3. \A j \in 1..Left(c) : cmd[c].todo[j] = Whole(c)[Len(Whole(c)) - Left(c) + j]
    BY <1>6
  <2>4. cmd[c].todo[1] = Whole(c)[Len(Whole(c)) - Left(c) + 1]
    BY <2>2, <2>3
  <2>5. Left(c) > 1 => cmd[c].todo[2] = Whole(c)[Len(Whole(c)) - Left(c) + 2]
    BY <2>2, <2>3
  <2>6. QED
    BY <2>1, <2>4, <2>5
<1>8. /\ cmd[c].todo \in Seq(Steps) /\ cmd[c].op \in DOMAIN Control!Script
      /\ Len(Tail(cmd[c].todo)) = Left(c) - 1
      /\ Tail(cmd[c].todo) \in Seq(Steps)
      /\ \A j \in 1..Left(c)-1 : Tail(cmd[c].todo)[j] = cmd[c].todo[j+1]
  BY <1>2, <1>3, <1>4
<1>9. /\ Head(cmd[c].todo) = Whole(c)[Len(Whole(c)) - Left(c) + 1]
      /\ Left(c) > 1 => Head(Tail(cmd[c].todo)) = Whole(c)[Len(Whole(c)) - Left(c) + 2]
  BY <1>3, <1>5, <1>7
<1>10. QED
  BY <1>4, <1>7, <1>8, <1>9

Now(c) == Head(cmd[c].todo)
Then(c) == Head(Tail(cmd[c].todo))

LEMMA Places ==
  ASSUME ControlIInv, NEW c \in Commands, Control!Busy(c)
  PROVE  /\ (Now(c) = "start" => Left(c) = 2) /\ (Now(c) = "restart" => Left(c) = 3) /\ (Now(c) = "check" => Left(c) = 1)
         /\ cmd[c].op = "stop" /\ Now(c) # "stop" => Left(c) = 2
         /\ cmd[c].op = "stop" => Now(c) \in {"stop", "want stopped"}
         /\ Left(c) # 1 /\ Then(c) \in {"start", "restart", "probe"} => Now(c) \in {"read", "want running", "probe"}
         /\ cmd[c].op = "update" =>
              /\ Left(c) = 6 => Now(c) = "read" /\ ~cmd[c].back
              /\ Left(c) = 5 /\ cmd[c].back => Now(c) = "restore"
              /\ Left(c) = 5 /\ ~cmd[c].back => Now(c) = "promote"
              /\ Left(c) = 4 => Now(c) = "read"
              /\ Left(c) = 3 => Now(c) = "restart"
              /\ Left(c) = 2 => Now(c) = "wait"
              /\ Left(c) = 1 => Now(c) = "check"
<1>1. /\ Left(c) \in 1..6 /\ cmd[c].op \in DOMAIN Control!Script
      /\ Now(c) = Whole(c)[Len(Whole(c)) - Left(c) + 1]
      /\ Left(c) > 1 => Then(c) = Whole(c)[Len(Whole(c)) - Left(c) + 2]
      /\ Left(c) <= Len(Whole(c)) /\ (cmd[c].back => cmd[c].op = "update")
      /\ cmd[c].back \in BOOLEAN
  BY WhereItIs DEF Now, Then, ControlIInv, FollowsScript, Command
<1> DEFINE Goal == /\ (Now(c) = "start" => Left(c) = 2) /\ (Now(c) = "restart" => Left(c) = 3) /\ (Now(c) = "check" => Left(c) = 1)
                   /\ Left(c) # 1 /\ Then(c) \in {"start", "restart", "probe"} => Now(c) \in {"read", "want running", "probe"}
<1>2. ASSUME ~cmd[c].back, cmd[c].op = "install"
      PROVE /\ Goal
  <2>1. Whole(c) = Control!Script["install"] /\ Len(Whole(c)) = 4
    BY <1>2, ScriptLengths DEF Whole
  <2>2. Left(c) = 1 \/ Left(c) = 2 \/ Left(c) = 3 \/ Left(c) = 4
    BY <1>1, <2>1
  <2>3. Left(c) = 1 => Now(c) = Control!Script["install"][4]
    BY <1>1, <2>1
  <2>4. Left(c) = 2 => Now(c) = Control!Script["install"][3] /\ Then(c) = Control!Script["install"][4]
    BY <1>1, <2>1
  <2>5. Left(c) = 3 => Now(c) = Control!Script["install"][2] /\ Then(c) = Control!Script["install"][3]
    BY <1>1, <2>1
  <2>6. Left(c) = 4 => Now(c) = Control!Script["install"][1] /\ Then(c) = Control!Script["install"][2]
    BY <1>1, <2>1
  <2>7. Left(c) = 1 => Now(c) = "wait"
    BY <2>3, ScriptElements, Zenon
  <2>8. Left(c) = 2 => Now(c) = "start" /\ Then(c) = "wait"
    BY <2>4, ScriptElements, Zenon
  <2>9. Left(c) = 3 => Now(c) = "want running" /\ Then(c) = "start"
    BY <2>5, ScriptElements, Zenon
  <2>10. Left(c) = 4 => Now(c) = "promote" /\ Then(c) = "want running"
    BY <2>6, ScriptElements, Zenon
  <2>11. QED
    BY <2>2, <2>7, <2>8, <2>9, <2>10
<1>3. ASSUME ~cmd[c].back, cmd[c].op = "start"
      PROVE /\ Goal
  <2>1. Whole(c) = Control!Script["start"] /\ Len(Whole(c)) = 3
    BY <1>3, ScriptLengths DEF Whole
  <2>2. Left(c) = 1 \/ Left(c) = 2 \/ Left(c) = 3
    BY <1>1, <2>1
  <2>3. Left(c) = 1 => Now(c) = Control!Script["start"][3]
    BY <1>1, <2>1
  <2>4. Left(c) = 2 => Now(c) = Control!Script["start"][2] /\ Then(c) = Control!Script["start"][3]
    BY <1>1, <2>1
  <2>5. Left(c) = 3 => Now(c) = Control!Script["start"][1] /\ Then(c) = Control!Script["start"][2]
    BY <1>1, <2>1
  <2>6. Left(c) = 1 => Now(c) = "wait"
    BY <2>3, ScriptElements, Zenon
  <2>7. Left(c) = 2 => Now(c) = "start" /\ Then(c) = "wait"
    BY <2>4, ScriptElements, Zenon
  <2>8. Left(c) = 3 => Now(c) = "want running" /\ Then(c) = "start"
    BY <2>5, ScriptElements, Zenon
  <2>9. QED
    BY <2>2, <2>6, <2>7, <2>8
<1>4. ASSUME ~cmd[c].back, cmd[c].op = "stop"
      PROVE /\ Goal
            /\ (Now(c) = "stop" => Left(c) = 1) /\ (Now(c) # "stop" => Left(c) = 2)
            /\ Now(c) \in {"stop", "want stopped"}
  <2>1. Whole(c) = Control!Script["stop"] /\ Len(Whole(c)) = 2
    BY <1>4, ScriptLengths DEF Whole
  <2>2. Left(c) = 1 \/ Left(c) = 2
    BY <1>1, <2>1
  <2>3. Left(c) = 1 => Now(c) = Control!Script["stop"][2]
    BY <1>1, <2>1
  <2>4. Left(c) = 2 => Now(c) = Control!Script["stop"][1] /\ Then(c) = Control!Script["stop"][2]
    BY <1>1, <2>1
  <2>5. Left(c) = 1 => Now(c) = "stop"
    BY <2>3, ScriptElements, Zenon
  <2>6. Left(c) = 2 => Now(c) = "want stopped" /\ Then(c) = "stop"
    BY <2>4, ScriptElements, Zenon
  <2>7. QED
    BY <2>2, <2>5, <2>6
<1>5. ASSUME ~cmd[c].back, cmd[c].op = "restart"
      PROVE /\ Goal
  <2>1. Whole(c) = Control!Script["restart"] /\ Len(Whole(c)) = 4
    BY <1>5, ScriptLengths DEF Whole
  <2>2. Left(c) = 1 \/ Left(c) = 2 \/ Left(c) = 3 \/ Left(c) = 4
    BY <1>1, <2>1
  <2>3. Left(c) = 1 => Now(c) = Control!Script["restart"][4]
    BY <1>1, <2>1
  <2>4. Left(c) = 2 => Now(c) = Control!Script["restart"][3] /\ Then(c) = Control!Script["restart"][4]
    BY <1>1, <2>1
  <2>5. Left(c) = 3 => Now(c) = Control!Script["restart"][2] /\ Then(c) = Control!Script["restart"][3]
    BY <1>1, <2>1
  <2>6. Left(c) = 4 => Now(c) = Control!Script["restart"][1] /\ Then(c) = Control!Script["restart"][2]
    BY <1>1, <2>1
  <2>7. Left(c) = 1 => Now(c) = "check"
    BY <2>3, ScriptElements, Zenon
  <2>8. Left(c) = 2 => Now(c) = "wait" /\ Then(c) = "check"
    BY <2>4, ScriptElements, Zenon
  <2>9. Left(c) = 3 => Now(c) = "restart" /\ Then(c) = "wait"
    BY <2>5, ScriptElements, Zenon
  <2>10. Left(c) = 4 => Now(c) = "read" /\ Then(c) = "restart"
    BY <2>6, ScriptElements, Zenon
  <2>11. QED
    BY <2>2, <2>7, <2>8, <2>9, <2>10
<1>6. ASSUME ~cmd[c].back, cmd[c].op = "update"
      PROVE /\ Goal
            /\ Left(c) = 6 => Now(c) = "read"
            /\ Left(c) = 5 => Now(c) = "promote"
            /\ Left(c) = 4 => Now(c) = "read"
            /\ Left(c) = 3 => Now(c) = "restart"
            /\ Left(c) = 2 => Now(c) = "wait"
            /\ Left(c) = 1 => Now(c) = "check"
  <2>1. Whole(c) = Control!Script["update"] /\ Len(Whole(c)) = 6
    BY <1>6, ScriptLengths DEF Whole
  <2>2. Left(c) = 1 \/ Left(c) = 2 \/ Left(c) = 3 \/ Left(c) = 4 \/ Left(c) = 5 \/ Left(c) = 6
    BY <1>1, <2>1
  <2>3. Left(c) = 1 => Now(c) = Control!Script["update"][6]
    BY <1>1, <2>1
  <2>4. Left(c) = 2 => Now(c) = Control!Script["update"][5] /\ Then(c) = Control!Script["update"][6]
    BY <1>1, <2>1
  <2>5. Left(c) = 3 => Now(c) = Control!Script["update"][4] /\ Then(c) = Control!Script["update"][5]
    BY <1>1, <2>1
  <2>6. Left(c) = 4 => Now(c) = Control!Script["update"][3] /\ Then(c) = Control!Script["update"][4]
    BY <1>1, <2>1
  <2>7. Left(c) = 5 => Now(c) = Control!Script["update"][2] /\ Then(c) = Control!Script["update"][3]
    BY <1>1, <2>1
  <2>8. Left(c) = 6 => Now(c) = Control!Script["update"][1] /\ Then(c) = Control!Script["update"][2]
    BY <1>1, <2>1
  <2>9. Left(c) = 1 => Now(c) = "check"
    BY <2>3, ScriptElements, Zenon
  <2>10. Left(c) = 2 => Now(c) = "wait" /\ Then(c) = "check"
    BY <2>4, ScriptElements, Zenon
  <2>11. Left(c) = 3 => Now(c) = "restart" /\ Then(c) = "wait"
    BY <2>5, ScriptElements, Zenon
  <2>12. Left(c) = 4 => Now(c) = "read" /\ Then(c) = "restart"
    BY <2>6, ScriptElements, Zenon
  <2>13. Left(c) = 5 => Now(c) = "promote" /\ Then(c) = "read"
    BY <2>7, ScriptElements, Zenon
  <2>14. Left(c) = 6 => Now(c) = "read" /\ Then(c) = "promote"
    BY <2>8, ScriptElements, Zenon
  <2>15. QED
    BY <2>2, <2>9, <2>10, <2>11, <2>12, <2>13, <2>14
<1>7. ASSUME ~cmd[c].back, cmd[c].op = "rollback"
      PROVE /\ Goal
  <2>1. Whole(c) = Control!Script["rollback"] /\ Len(Whole(c)) = 6
    BY <1>7, ScriptLengths DEF Whole
  <2>2. Left(c) = 1 \/ Left(c) = 2 \/ Left(c) = 3 \/ Left(c) = 4 \/ Left(c) = 5 \/ Left(c) = 6
    BY <1>1, <2>1
  <2>3. Left(c) = 1 => Now(c) = Control!Script["rollback"][6]
    BY <1>1, <2>1
  <2>4. Left(c) = 2 => Now(c) = Control!Script["rollback"][5] /\ Then(c) = Control!Script["rollback"][6]
    BY <1>1, <2>1
  <2>5. Left(c) = 3 => Now(c) = Control!Script["rollback"][4] /\ Then(c) = Control!Script["rollback"][5]
    BY <1>1, <2>1
  <2>6. Left(c) = 4 => Now(c) = Control!Script["rollback"][3] /\ Then(c) = Control!Script["rollback"][4]
    BY <1>1, <2>1
  <2>7. Left(c) = 5 => Now(c) = Control!Script["rollback"][2] /\ Then(c) = Control!Script["rollback"][3]
    BY <1>1, <2>1
  <2>8. Left(c) = 6 => Now(c) = Control!Script["rollback"][1] /\ Then(c) = Control!Script["rollback"][2]
    BY <1>1, <2>1
  <2>9. Left(c) = 1 => Now(c) = "check"
    BY <2>3, ScriptElements, Zenon
  <2>10. Left(c) = 2 => Now(c) = "wait" /\ Then(c) = "check"
    BY <2>4, ScriptElements, Zenon
  <2>11. Left(c) = 3 => Now(c) = "restart" /\ Then(c) = "wait"
    BY <2>5, ScriptElements, Zenon
  <2>12. Left(c) = 4 => Now(c) = "read" /\ Then(c) = "restart"
    BY <2>6, ScriptElements, Zenon
  <2>13. Left(c) = 5 => Now(c) = "restore" /\ Then(c) = "read"
    BY <2>7, ScriptElements, Zenon
  <2>14. Left(c) = 6 => Now(c) = "read" /\ Then(c) = "restore"
    BY <2>8, ScriptElements, Zenon
  <2>15. QED
    BY <2>2, <2>9, <2>10, <2>11, <2>12, <2>13, <2>14
<1>8. ASSUME ~cmd[c].back, cmd[c].op = "ensure"
      PROVE /\ Goal
  <2>1. Whole(c) = Control!Script["ensure"] /\ Len(Whole(c)) = 4
    BY <1>8, ScriptLengths DEF Whole
  <2>2. Left(c) = 1 \/ Left(c) = 2 \/ Left(c) = 3 \/ Left(c) = 4
    BY <1>1, <2>1
  <2>3. Left(c) = 1 => Now(c) = Control!Script["ensure"][4]
    BY <1>1, <2>1
  <2>4. Left(c) = 2 => Now(c) = Control!Script["ensure"][3] /\ Then(c) = Control!Script["ensure"][4]
    BY <1>1, <2>1
  <2>5. Left(c) = 3 => Now(c) = Control!Script["ensure"][2] /\ Then(c) = Control!Script["ensure"][3]
    BY <1>1, <2>1
  <2>6. Left(c) = 4 => Now(c) = Control!Script["ensure"][1] /\ Then(c) = Control!Script["ensure"][2]
    BY <1>1, <2>1
  <2>7. Left(c) = 1 => Now(c) = "wait"
    BY <2>3, ScriptElements, Zenon
  <2>8. Left(c) = 2 => Now(c) = "start" /\ Then(c) = "wait"
    BY <2>4, ScriptElements, Zenon
  <2>9. Left(c) = 3 => Now(c) = "probe" /\ Then(c) = "start"
    BY <2>5, ScriptElements, Zenon
  <2>10. Left(c) = 4 => Now(c) = "read" /\ Then(c) = "probe"
    BY <2>6, ScriptElements, Zenon
  <2>11. QED
    BY <2>2, <2>7, <2>8, <2>9, <2>10
<1>9. ASSUME cmd[c].back
      PROVE /\ Goal
            /\ Left(c) = 5 => Now(c) = "restore"
            /\ Left(c) = 4 => Now(c) = "read"
            /\ Left(c) = 3 => Now(c) = "restart"
            /\ Left(c) = 2 => Now(c) = "wait"
            /\ Left(c) = 1 => Now(c) = "check"
            /\ Left(c) # 6
  <2>1. Whole(c) = Control!Fallback /\ Len(Whole(c)) = 5
    BY <1>9, ScriptLengths DEF Whole
  <2>2. Left(c) = 1 \/ Left(c) = 2 \/ Left(c) = 3 \/ Left(c) = 4 \/ Left(c) = 5
    BY <1>1, <2>1
  <2>3. Left(c) = 1 => Now(c) = Control!Fallback[5]
    BY <1>1, <2>1
  <2>4. Left(c) = 2 => Now(c) = Control!Fallback[4] /\ Then(c) = Control!Fallback[5]
    BY <1>1, <2>1
  <2>5. Left(c) = 3 => Now(c) = Control!Fallback[3] /\ Then(c) = Control!Fallback[4]
    BY <1>1, <2>1
  <2>6. Left(c) = 4 => Now(c) = Control!Fallback[2] /\ Then(c) = Control!Fallback[3]
    BY <1>1, <2>1
  <2>7. Left(c) = 5 => Now(c) = Control!Fallback[1] /\ Then(c) = Control!Fallback[2]
    BY <1>1, <2>1
  <2>8. Left(c) = 1 => Now(c) = "check"
    BY <2>3, ScriptElements, Zenon
  <2>9. Left(c) = 2 => Now(c) = "wait" /\ Then(c) = "check"
    BY <2>4, ScriptElements, Zenon
  <2>10. Left(c) = 3 => Now(c) = "restart" /\ Then(c) = "wait"
    BY <2>5, ScriptElements, Zenon
  <2>11. Left(c) = 4 => Now(c) = "read" /\ Then(c) = "restart"
    BY <2>6, ScriptElements, Zenon
  <2>12. Left(c) = 5 => Now(c) = "restore" /\ Then(c) = "read"
    BY <2>7, ScriptElements, Zenon
  <2>13. Left(c) # 6
    BY <1>1, <2>1
  <2>14. QED
    BY <2>2, <2>8, <2>9, <2>10, <2>11, <2>12, <2>13
<1>10. CASE cmd[c].back
  <2>1. cmd[c].op = "update"
    BY <1>1, <1>10
  <2>2. QED
    BY <1>9, <1>10, <2>1
<1>11. CASE ~cmd[c].back
  <2>1. \/ cmd[c].op = "install" \/ cmd[c].op = "start" \/ cmd[c].op = "stop" \/ cmd[c].op = "restart"
        \/ cmd[c].op = "update" \/ cmd[c].op = "rollback" \/ cmd[c].op = "ensure"
    BY <1>1, ScriptSteps
  <2>2. CASE cmd[c].op = "update"
    BY <1>6, <1>11, <2>2
  <2>3. CASE cmd[c].op = "stop"
    BY <1>4, <1>11, <2>3
  <2>4. CASE cmd[c].op # "update" /\ cmd[c].op # "stop"
    BY <1>2, <1>3, <1>5, <1>7, <1>8, <1>11, <2>1, <2>4
  <2>5. QED
    BY <2>2, <2>3, <2>4
<1>12. QED
  BY <1>10, <1>11

\* A step of a command's own: the next one, the end, or the fall back of an update.
Moved(c) ==
  /\ cmd' \in [Commands -> Command]
  /\ \A d \in Commands \ {c} : cmd'[d] = cmd[d]
  /\ cmd'[c].op = cmd[c].op /\ cmd'[c].alone = cmd[c].alone /\ cmd'[c].found = cmd[c].found

Advanced(c) ==
  /\ Moved(c)
  /\ Left(c) # 1 => /\ Left(c)' = Left(c) - 1 /\ Now(c)' = Then(c) /\ Control!Busy(c)'
                   /\ cmd'[c].back = cmd[c].back /\ cmd'[c].answer = cmd[c].answer
                   /\ FollowsScript(c)'
  /\ Left(c) = 1 => /\ ~Control!Busy(c)' /\ cmd'[c].answer = IF cmd[c].back THEN "rolled back" ELSE "ok"

Failed(c) ==
  /\ Moved(c)
  /\ IF cmd[c].op = "update" /\ ~cmd[c].back /\ Left(c) \in 1..4
     THEN /\ Control!Busy(c)' /\ Left(c)' = 5 /\ Now(c)' = "restore" /\ cmd'[c].back /\ FollowsScript(c)'
          /\ cmd'[c].answer = cmd[c].answer
     ELSE ~Control!Busy(c)' /\ cmd'[c].answer = IF cmd[c].back THEN "unverified" ELSE "failed"

LEMMA AdvanceMoves ==
  ASSUME ControlIInv, NEW c \in Commands, Control!Busy(c), Control!Advance(c)
  PROVE  Advanced(c)
<1>1. /\ Left(c) \in 1..6 /\ Len(Whole(c)) \in Nat
      /\ cmd[c].todo \in Seq(Steps) /\ cmd[c].op \in DOMAIN Control!Script
      /\ Len(Tail(cmd[c].todo)) = Left(c) - 1
      /\ Tail(cmd[c].todo) \in Seq(Steps)
      /\ \A j \in 1..Left(c)-1 : Tail(cmd[c].todo)[j] = cmd[c].todo[j+1]
  BY WhereItIs
<1>2. cmd \in [Commands -> Command]
  BY DEF ControlIInv
<1>3. CASE Left(c) = 1
  <2>1. cmd' = [cmd EXCEPT ![c].todo = <<>>, ![c].answer = IF cmd[c].back THEN "rolled back" ELSE "ok"]
    BY <1>3 DEF Control!Advance, Control!Ends, Left
  <2>2. <<>> \in Seq(Steps)
    OBVIOUS
  <2>3. Moved(c)
    BY <1>2, <2>1, <2>2, ZenonT(30) DEF Moved, Command
  <2>4. QED
    BY <1>2, <1>3, <2>1, <2>3 DEF Advanced, Control!Busy, Command
<1>4. CASE Left(c) # 1
  <2>1. cmd' = [cmd EXCEPT ![c].todo = Tail(cmd[c].todo)]
    BY <1>4 DEF Control!Advance, Left
  <2>2. Moved(c)
    BY <1>1, <1>2, <2>1 DEF Moved, Command
  <2>3. cmd'[c].todo = Tail(cmd[c].todo) /\ cmd'[c].back = cmd[c].back /\ cmd'[c].answer = cmd[c].answer
    BY <1>2, <2>1 DEF Command
  <2>4. Left(c)' = Left(c) - 1 /\ Now(c)' = Then(c)
    BY <1>1, <2>3 DEF Left, Now, Then
  <2>5. Control!Busy(c)'
    <3>0. Len(Tail(cmd[c].todo)) # 0
      BY <1>1, <1>4
    <3>1. Len(<<>>) = 0
      OBVIOUS
    <3>2. Tail(cmd[c].todo) # <<>>
      BY <3>0, <3>1, Zenon
    <3>3. QED
      BY <2>3, <3>2 DEF Control!Busy
  <2>6. FollowsScript(c)'
    <3>1. Whole(c)' = Whole(c)
      BY <2>2, <2>3 DEF Whole, Moved
    <3>2. FollowsScript(c)
      BY DEF ControlIInv
    <3>3. Left(c)' <= Len(Whole(c)')
      BY <1>1, <2>4, <3>1, <3>2 DEF FollowsScript
    <3>4. ASSUME NEW j \in 1..Left(c)'
          PROVE  cmd'[c].todo[j] = Whole(c)'[Len(Whole(c)') - Left(c)' + j]
      <4>1. j + 1 \in 1..Left(c) /\ j \in 1..Left(c)-1
        BY <1>1, <2>4
      <4>2. cmd'[c].todo[j] = Whole(c)[Len(Whole(c)) - Left(c) + (j + 1)]
        BY <1>1, <2>3, <3>2, <4>1 DEF FollowsScript
      <4>3. Len(Whole(c)) - Left(c) + (j + 1) = Len(Whole(c)') - Left(c)' + j
        <5>1. Left(c)' = Left(c) - 1 /\ Len(Whole(c)') = Len(Whole(c)) /\ j \in Int
          BY <1>1, <2>4, <3>1, <4>1
        <5>2. \A a, b, k \in Int : a - b + (k + 1) = a - (b - 1) + k
          OBVIOUS
        <5>3. Len(Whole(c)) \in Int /\ Left(c) \in Int
          BY <1>1
        <5>4. Len(Whole(c)) - Left(c) + (j + 1) = Len(Whole(c)) - (Left(c) - 1) + j
          BY <5>1, <5>2, <5>3, Zenon
        <5>5. QED
          BY <5>1, <5>4
      <4>4. QED
        BY <3>1, <4>2, <4>3
    <3>5. QED
      BY <2>2, <2>3, <3>2, <3>3, <3>4 DEF FollowsScript, Moved
  <2>7. QED
    BY <1>4, <2>2, <2>3, <2>4, <2>5, <2>6 DEF Advanced
<1>5. QED
  BY <1>3, <1>4

LEMMA FailMoves ==
  ASSUME ControlIInv, NEW c \in Commands, Control!Busy(c), Control!Fail(c)
  PROVE  Failed(c)
<1>1. Left(c) \in 1..6 /\ cmd[c].op \in DOMAIN Control!Script
  BY WhereItIs
<1>2. cmd \in [Commands -> Command] /\ FollowsScript(c)
  BY DEF ControlIInv
<1>3. CASE cmd[c].op = "update" /\ ~cmd[c].back /\ Left(c) \in 1..4
  <2>1. Len(Control!Gate) = 4
    BY DEF Control!Gate
  <2>9. Left(c) <= Len(Control!Gate)
    BY <1>3, <2>1
  <2>2. cmd' = [cmd EXCEPT ![c].todo = Control!Fallback, ![c].back = TRUE]
    BY <1>3, <2>9 DEF Control!Fail, Left
  <2>3. Control!Fallback \in Seq(Steps) /\ Len(Control!Fallback) = 5 /\ Control!Fallback # <<>> /\ Head(Control!Fallback) = "restore"
    <3>1. <<"restore", "read", "restart", "wait", "check">> \in Seq(Steps)
      BY DEF Steps
    <3>2. Control!Fallback \in Seq(Steps)
      BY <3>1, ScriptSteps, Zenon
    <3>3. Len(Control!Fallback) = 5 /\ Control!Fallback[1] = "restore"
      BY ScriptLengths, ScriptElements, Zenon
    <3>4. QED
      BY <3>2, <3>3, HeadTailProperties, EmptySeq
  <2>4. Moved(c)
    BY <1>2, <2>2, <2>3 DEF Moved, Command
  <2>5. cmd'[c].todo = Control!Fallback /\ cmd'[c].back /\ cmd'[c].answer = cmd[c].answer
    BY <1>2, <2>2 DEF Command
  <2>6. Left(c)' = 5 /\ Now(c)' = "restore" /\ Control!Busy(c)' /\ Whole(c)' = Control!Fallback
    BY <2>3, <2>5 DEF Left, Now, Control!Busy, Whole
  <2>7. FollowsScript(c)'
    <3>1. \A j \in 1..5 : Control!Fallback[j] = Control!Fallback[5 - 5 + j]
      OBVIOUS
    <3>2. \A j \in 1..Left(c)' : cmd'[c].todo[j] = Whole(c)'[Len(Whole(c)') - Left(c)' + j]
      <4>1. Left(c)' = 5 /\ Len(Whole(c)') = 5
        BY <2>3, <2>6
      <4>2. QED
        BY <2>5, <2>6, <3>1, <4>1
    <3>3. cmd'[c].op = "update" /\ cmd'[c].answer = "none" /\ cmd'[c].op \in DOMAIN Control!Script
      BY <1>1, <1>2, <1>3, <2>4, <2>5 DEF FollowsScript, Moved
    <3>4. Left(c)' <= Len(Whole(c)')
      <4>1. Left(c)' = 5 /\ Len(Whole(c)') = 5
        BY <2>3, <2>6
      <4>2. QED
        BY <4>1
    <3>5. QED
      BY <3>2, <3>3, <3>4 DEF FollowsScript
  <2>8. QED
    BY <1>3, <2>4, <2>5, <2>6, <2>7 DEF Failed
<1>4. CASE ~(cmd[c].op = "update" /\ ~cmd[c].back /\ Left(c) \in 1..4)
  <2>1. Len(Control!Gate) = 4
    BY DEF Control!Gate
  <2>7. ~(cmd[c].op = "update" /\ ~cmd[c].back /\ Left(c) <= Len(Control!Gate))
    BY <1>1, <1>4, <2>1
  <2>2. cmd' = [cmd EXCEPT ![c].todo = <<>>, ![c].answer = IF cmd[c].back THEN "unverified" ELSE "failed"]
    BY <2>7 DEF Control!Fail, Left, Control!Ends
  <2>3. <<>> \in Seq(Steps)
    OBVIOUS
  <2>4. Moved(c)
    BY <1>2, <2>2, <2>3, ZenonT(30) DEF Moved, Command
  <2>5. cmd'[c].todo = <<>> /\ cmd'[c].answer = IF cmd[c].back THEN "unverified" ELSE "failed"
    BY <1>2, <2>2 DEF Command
  <2>6. QED
    BY <1>4, <2>4, <2>5 DEF Failed, Control!Busy
<1>5. QED
  BY <1>3, <1>4

Knows(c) == KnowsWhatIsWanted(c) /\ KnowsTheBuild(c)

LEMMA OwnStepKeeps ==
  ASSUME ControlIInv, NEW c \in Commands, Control!Busy(c),
         Advanced(c) \/ Failed(c) \/ (Moved(c) /\ ~Control!Busy(c)'),
         Shapes',
         Undisturbed(c) /\ Control!Busy(c)' => Knows(c)'
  PROVE  ControlIInv'
<1>1. Moved(c) /\ (Control!Busy(c)' => FollowsScript(c)')
  <2>1. CASE Advanced(c)
    BY <2>1 DEF Advanced
  <2>2. CASE Failed(c)
    BY <2>2 DEF Failed
  <2>3. QED
    BY <2>1, <2>2
<1>2. FollowsScript(c)'
  BY <1>1 DEF FollowsScript
<1>3. ASSUME NEW d \in Commands \ {c}
      PROVE  FollowsScript(d)' /\ ~Undisturbed(d)' /\ (Control!Busy(d)' <=> Control!Busy(d))
  <2>1. cmd'[d] = cmd[d]
    BY <1>1 DEF Moved
  <2>2. FollowsScript(d) /\ ~Undisturbed(d)
    BY DEF ControlIInv
  <2>3. QED
    BY <2>1, <2>2 DEF FollowsScript, Undisturbed, Control!Busy, Whole, Left
<1>4. Undisturbed(c)' => Undisturbed(c) /\ Control!Busy(c)'
  BY <1>1 DEF Undisturbed, Moved
<1>5. Knows(c)'
  BY <1>4 DEF Knows, KnowsWhatIsWanted, KnowsTheBuild
<1>6. \A d \in Commands \ {c} : Knows(d)'
  BY <1>3 DEF Knows, KnowsWhatIsWanted, KnowsTheBuild
<1>7. Undisturbed(c)' => \A d \in Commands \ {c} : ~Control!Busy(d)'
  BY <1>3, <1>4 DEF ControlIInv
<1>8. \A d \in Commands : /\ FollowsScript(d)' /\ Knows(d)'
                          /\ Undisturbed(d)' => \A e \in Commands \ {d} : ~Control!Busy(e)'
  BY <1>2, <1>3, <1>5, <1>6, <1>7
<1>9. QED
  BY <1>1, <1>8 DEF ControlIInv, Moved, Knows

\* What the tables say of a command that goes on.
LEMMA GoesOn ==
  ASSUME ControlIInv, NEW c \in Commands, Control!Busy(c), Advanced(c), Control!Busy(c)', Undisturbed(c),
         Now(c)' \in {"probe", "start", "restart"} => desired' = "running",
         cmd[c].op = "update" =>
           /\ OnTrial(c)' => installed' = builds' /\ previous' = cmd[c].found
           /\ ~OnTrial(c)' => installed' = cmd[c].found
           /\ Left(c)' <= 2 => daemon' \in {installed', Control!None}
  PROVE  Knows(c)'
<1>1. cmd'[c].op = cmd[c].op /\ cmd'[c].found = cmd[c].found
  BY DEF Advanced, Moved
<1>2. KnowsWhatIsWanted(c)'
  BY DEF KnowsWhatIsWanted, Now
<1>3. KnowsTheBuild(c)'
  BY <1>1 DEF KnowsTheBuild
<1>4. QED
  BY <1>2, <1>3 DEF Knows

LEMMA FailKeeps ==
  ASSUME ControlIInv, NEW c \in Commands, Control!Busy(c), Control!Fail(c),
         UNCHANGED <<good, desired, loaded, daemon, installed, previous, builds>>
  PROVE  ControlIInv'
<1>1. Failed(c)
  BY FailMoves
<1>2. Shapes'
  BY DEF ControlIInv, Shapes
<1>3. ASSUME Undisturbed(c), Control!Busy(c)'
      PROVE  Knows(c)'
  <2>1. /\ cmd[c].op = "update" /\ ~cmd[c].back /\ Left(c) \in 1..4
        /\ Left(c)' = 5 /\ Now(c)' = "restore" /\ cmd'[c].back
        /\ cmd'[c].op = cmd[c].op /\ cmd'[c].found = cmd[c].found
    BY <1>1, <1>3 DEF Failed, Moved
  <2>2. OnTrial(c) /\ KnowsTheBuild(c)
    BY <2>1 DEF OnTrial, ControlIInv
  <2>3. installed = builds /\ previous = cmd[c].found
    BY <1>3, <2>1, <2>2 DEF KnowsTheBuild
  <2>4. OnTrial(c)' /\ ~(Left(c)' <= 2)
    BY <2>1 DEF OnTrial
  <2>5. KnowsTheBuild(c)'
    BY <2>1, <2>3, <2>4 DEF KnowsTheBuild
  <2>6. KnowsWhatIsWanted(c)'
    BY <2>1 DEF KnowsWhatIsWanted, Now
  <2>7. QED
    BY <2>5, <2>6 DEF Knows
<1>4. QED
  BY <1>1, <1>2, <1>3, OwnStepKeeps

\* A step that changes neither the builds nor the daemon, and is done.
LEMMA QuietStepKeeps ==
  ASSUME ControlIInv, NEW c \in Commands, Control!Busy(c), Control!Advance(c), Shapes',
         Now(c) \notin {"promote", "restore", "restart"},
         Control!Busy(c)' /\ Undisturbed(c) /\ Then(c) \in {"probe", "start", "restart"} => desired' = "running",
         cmd[c].op = "update" => UNCHANGED <<daemon, installed, previous, builds>>
  PROVE  ControlIInv'
<1>1. Advanced(c)
  BY AdvanceMoves
<1>2. ASSUME Undisturbed(c), Control!Busy(c)'
      PROVE  Knows(c)'
  <2>1. /\ Left(c) # 1 /\ Left(c)' = Left(c) - 1 /\ Now(c)' = Then(c)
        /\ cmd'[c].back = cmd[c].back
    BY <1>1, <1>2 DEF Advanced
  <2>2. Left(c) \in 1..6
    BY WhereItIs
  <2>3. ASSUME cmd[c].op = "update"
        PROVE  /\ OnTrial(c)' => installed' = builds' /\ previous' = cmd[c].found
               /\ ~OnTrial(c)' => installed' = cmd[c].found
               /\ Left(c)' <= 2 => daemon' \in {installed', Control!None}
    <3>1. Left(c) # 5 /\ Left(c) # 3 /\ (Left(c) = 6 => ~cmd[c].back)
      BY <2>3, Places
    <3>2. (OnTrial(c)' <=> OnTrial(c)) /\ (Left(c)' <= 2 => Left(c) <= 2)
      BY <2>1, <2>2, <3>1 DEF OnTrial
    <3>3. KnowsTheBuild(c)
      BY DEF ControlIInv
    <3>4. QED
      BY <1>2, <2>3, <3>2, <3>3 DEF KnowsTheBuild
  <2>4. QED
    BY <1>1, <1>2, <2>1, <2>3, GoesOn
<1>3. QED
  BY <1>1, <1>2, OwnStepKeeps

LEMMA ReadDesiredKeeps ==
  ASSUME ControlIInv, NEW c \in Commands, Control!ReadDesired(c)
  PROVE  ControlIInv'
<1>1. Control!Busy(c) /\ Now(c) = "read"
  BY DEF Control!ReadDesired, Control!Doing, Now
<1>2. CASE desired = "stopped"
  BY <1>1, <1>2, FailKeeps DEF Control!ReadDesired, Control!managerVars, Control!buildVars
<1>3. CASE desired # "stopped"
  <2>1. desired' = "running" /\ Control!Advance(c) /\ Shapes'
    BY <1>3 DEF Control!ReadDesired, Control!managerVars, Control!buildVars, ControlIInv, Shapes
  <2>2. QED
    BY <1>1, <2>1, QuietStepKeeps DEF Control!ReadDesired, Control!managerVars, Control!buildVars
<1>4. QED
  BY <1>2, <1>3

LEMMA WriteDesiredKeeps ==
  ASSUME ControlIInv, NEW c \in Commands, Control!WriteDesired(c)
  PROVE  ControlIInv'
<1>1. Control!Busy(c) /\ Control!Advance(c) /\ Shapes' /\ UNCHANGED <<daemon, installed, previous, builds>>
  BY DEF Control!WriteDesired, Control!Doing, Control!managerVars, Control!buildVars, ControlIInv, Shapes
<1>2. CASE Now(c) = "want running" /\ desired' = "running"
  BY <1>1, <1>2, QuietStepKeeps
<1>3. CASE Now(c) = "want stopped"
  <2>1. Control!Busy(c)' => ~(Then(c) \in {"probe", "start", "restart"})
    <3>1. Left(c) # 1 => ~(Then(c) \in {"probe", "start", "restart"})
      BY <1>1, <1>3, Places
    <3>2. Control!Busy(c)' => Left(c) # 1
      BY <1>1, AdvanceMoves DEF Advanced
    <3>3. QED
      BY <3>1, <3>2
  <2>2. QED
    BY <1>1, <1>3, <2>1, QuietStepKeeps
<1>4. QED
  BY <1>2, <1>3 DEF Control!WriteDesired, Control!Doing, Now

LEMMA ProbeKeeps ==
  ASSUME ControlIInv, NEW c \in Commands, Control!Probe(c)
  PROVE  ControlIInv'
<1>1. /\ Control!Busy(c) /\ Now(c) = "probe" /\ Shapes'
      /\ UNCHANGED <<desired, daemon, installed, previous, builds>>
  BY DEF Control!Probe, Control!Doing, Now, Control!managerVars, Control!buildVars, ControlIInv, Shapes
<1>2. CASE Control!Ends(c, "ok")
  <2>1. <<>> \in Seq(Steps) /\ cmd \in [Commands -> Command]
    BY DEF ControlIInv
  <2>2. Moved(c) /\ ~Control!Busy(c)'
    BY <1>2, <2>1 DEF Control!Ends, Moved, Control!Busy, Command
  <2>3. QED
    BY <1>1, <2>2, OwnStepKeeps
<1>3. CASE Control!Advance(c)
  <2>1. Undisturbed(c) => desired = "running"
    BY <1>1 DEF ControlIInv, KnowsWhatIsWanted, Now
  <2>2. QED
    BY <1>1, <1>3, <2>1, QuietStepKeeps
<1>4. QED
  BY <1>2, <1>3 DEF Control!Probe

LEMMA WaitKeeps ==
  ASSUME ControlIInv, NEW c \in Commands, Control!WaitForHealthy(c)
  PROVE  ControlIInv'
<1>1. /\ Control!Busy(c) /\ Now(c) = "wait" /\ Shapes'
      /\ UNCHANGED <<good, desired, loaded, daemon, installed, previous, builds>>
  BY DEF Control!WaitForHealthy, Control!Doing, Now, Control!managerVars, Control!buildVars, ControlIInv, Shapes
<1>2. CASE Control!Advance(c)
  <2>1. Control!Busy(c)' => ~(Then(c) \in {"probe", "start", "restart"})
    <3>1. Left(c) # 1 => ~(Then(c) \in {"probe", "start", "restart"})
      BY <1>1, Places
    <3>2. Control!Busy(c)' => Left(c) # 1
      BY <1>1, <1>2, AdvanceMoves DEF Advanced
    <3>3. QED
      BY <3>1, <3>2
  <2>2. QED
    BY <1>1, <1>2, <2>1, QuietStepKeeps
<1>3. CASE Control!Fail(c)
  BY <1>1, <1>3, FailKeeps
<1>4. QED
  BY <1>2, <1>3 DEF Control!WaitForHealthy

LEMMA CheckKeeps ==
  ASSUME ControlIInv, NEW c \in Commands, Control!HealthCheck(c)
  PROVE  ControlIInv'
<1>1. /\ Control!Busy(c) /\ Now(c) = "check" /\ Shapes'
      /\ UNCHANGED <<good, desired, loaded, daemon, installed, previous, builds>>
  BY DEF Control!HealthCheck, Control!Doing, Now, Control!managerVars, Control!buildVars, ControlIInv, Shapes
<1>2. CASE Control!Advance(c)
  <2>1. ~Control!Busy(c)'
    BY <1>1, <1>2, AdvanceMoves, Places DEF Advanced
  <2>2. QED
    BY <1>1, <1>2, <2>1, QuietStepKeeps
<1>3. CASE Control!Fail(c)
  BY <1>1, <1>3, FailKeeps
<1>4. QED
  BY <1>2, <1>3 DEF Control!HealthCheck

LEMMA ManagerStartKeeps ==
  ASSUME ControlIInv, NEW c \in Commands, Control!ManagerStart(c)
  PROVE  ControlIInv'
<1>1. /\ Control!Busy(c) /\ Now(c) = "start" /\ Control!Advance(c) /\ Shapes'
  BY DEF Control!ManagerStart, Control!Doing, Now, Control!buildVars, ControlIInv, Shapes
<1>2. cmd[c].op # "update"
  <2>1. Left(c) = 2
    BY <1>1, Places
  <2>2. QED
    BY <1>1, <2>1, Places
<1>3. Control!Busy(c)' => ~(Then(c) \in {"probe", "start", "restart"})
  <2>1. Left(c) # 1 => ~(Then(c) \in {"probe", "start", "restart"})
    BY <1>1, Places
  <2>2. Control!Busy(c)' => Left(c) # 1
    BY <1>1, AdvanceMoves DEF Advanced
  <2>3. QED
    BY <2>1, <2>2
<1>4. QED
  BY <1>1, <1>2, <1>3, QuietStepKeeps

LEMMA ManagerStopKeeps ==
  ASSUME ControlIInv, NEW c \in Commands, Control!ManagerStop(c)
  PROVE  ControlIInv'
<1>0. daemon' = 0 /\ loaded' = FALSE /\ UNCHANGED <<good, desired, installed, previous, builds>>
  BY DEF Control!ManagerStop, Control!buildVars, Control!None
<1>1. /\ Control!Busy(c) /\ Now(c) = "stop" /\ Control!Advance(c) /\ Shapes'
  <2>1. 0 \in 0..MaxPromotions
    BY ThereIsABuild DEF Control!ControlAssumption
  <2>2. Shapes'
    BY <1>0, <2>1 DEF ControlIInv, Shapes
  <2>3. QED
    BY <2>2 DEF Control!ManagerStop, Control!Doing, Now
<1>2. cmd[c].op # "update"
  <2>1. Left(c) \in 1..6
    BY <1>1, WhereItIs
  <2>2. cmd[c].op = "update" =>
          Left(c) # 6 /\ Left(c) # 4 /\ Left(c) # 3 /\ Left(c) # 2 /\ Left(c) # 1 /\ Left(c) # 5
    <3>1. cmd[c].back \in BOOLEAN
      BY DEF ControlIInv, Command
    <3>2. QED
      BY <1>1, <3>1, Places
  <2>3. QED
    BY <2>1, <2>2
<1>3. Control!Busy(c)' => ~(Then(c) \in {"probe", "start", "restart"})
  <2>1. Left(c) # 1 => ~(Then(c) \in {"probe", "start", "restart"})
    BY <1>1, Places
  <2>2. Control!Busy(c)' => Left(c) # 1
    BY <1>1, AdvanceMoves DEF Advanced
  <2>3. QED
    BY <2>1, <2>2
<1>4. QED
  BY <1>1, <1>2, <1>3, QuietStepKeeps

LEMMA ManagerRestartKeeps ==
  ASSUME ControlIInv, NEW c \in Commands, Control!ManagerRestart(c)
  PROVE  ControlIInv'
<1>1. /\ Control!Busy(c) /\ Now(c) = "restart" /\ Control!Advance(c) /\ Shapes'
      /\ daemon' = installed /\ UNCHANGED <<installed, previous, builds>>
  BY DEF Control!ManagerRestart, Control!Doing, Now, Control!buildVars, ControlIInv, Shapes
<1>2. Advanced(c) /\ Left(c) = 3
  BY <1>1, AdvanceMoves, Places
<1>3. ASSUME Undisturbed(c), Control!Busy(c)'
      PROVE  Knows(c)'
  <2>1. Left(c)' = 2 /\ Now(c)' = Then(c) /\ cmd'[c].back = cmd[c].back
    BY <1>2 DEF Advanced
  <2>2. ~(Then(c) \in {"probe", "start", "restart"})
    <3>1. Left(c) # 1
      BY <1>2
    <3>2. QED
      BY <1>1, <3>1, Places
  <2>3. cmd[c].op = "update" =>
           /\ OnTrial(c)' => installed' = builds' /\ previous' = cmd[c].found
           /\ ~OnTrial(c)' => installed' = cmd[c].found
           /\ Left(c)' <= 2 => daemon' \in {installed', Control!None}
    <3>1. OnTrial(c)' <=> OnTrial(c)
      BY <1>2, <2>1 DEF OnTrial
    <3>2. KnowsTheBuild(c)
      BY DEF ControlIInv
    <3>3. QED
      BY <1>1, <1>3, <3>1, <3>2 DEF KnowsTheBuild
  <2>4. QED
    BY <1>1, <1>2, <1>3, <2>1, <2>2, <2>3, GoesOn
<1>4. QED
  BY <1>1, <1>2, <1>3, OwnStepKeeps

LEMMA PromoteKeeps ==
  ASSUME ControlIInv, NEW c \in Commands, Control!Promote(c)
  PROVE  ControlIInv'
<1>1. /\ Control!Busy(c) /\ Now(c) = "promote" /\ Control!Advance(c) /\ Shapes'
      /\ builds' = builds + 1 /\ installed' = builds' /\ previous' = installed
  BY ThereIsABuild DEF Control!Promote, Control!Doing, Now, Control!managerVars, ControlIInv, Shapes, Control!ControlAssumption
<1>2. Advanced(c) /\ Left(c) \in 1..6
  BY <1>1, AdvanceMoves, WhereItIs
<1>3. ASSUME Undisturbed(c), Control!Busy(c)'
      PROVE  Knows(c)'
  <2>1. Left(c) # 1 /\ Left(c)' = Left(c) - 1 /\ Now(c)' = Then(c) /\ cmd'[c].back = cmd[c].back
    BY <1>2, <1>3 DEF Advanced
  <2>2. ~(Then(c) \in {"probe", "start", "restart"})
    BY <1>1, <2>1, Places
  <2>3. ASSUME cmd[c].op = "update"
        PROVE  /\ OnTrial(c)' => installed' = builds' /\ previous' = cmd[c].found
               /\ ~OnTrial(c)' => installed' = cmd[c].found
               /\ Left(c)' <= 2 => daemon' \in {installed', Control!None}
    <3>1. Left(c) = 5 /\ cmd[c].back = FALSE
      <4>1. Left(c) # 6 /\ Left(c) # 4 /\ Left(c) # 3 /\ Left(c) # 2 /\ Left(c) # 1
        BY <1>1, <2>3, Places
      <4>2. Left(c) = 5
        BY <1>2, <4>1
      <4>3. cmd[c].back \in BOOLEAN
        BY DEF ControlIInv, Command
      <4>4. QED
        BY <1>1, <2>3, <4>2, <4>3, Places
    <3>2. OnTrial(c)' /\ ~OnTrial(c) /\ ~(Left(c)' <= 2)
      BY <2>1, <3>1 DEF OnTrial
    <3>3. KnowsTheBuild(c)
      BY DEF ControlIInv
    <3>4. QED
      BY <1>1, <1>3, <2>3, <3>2, <3>3 DEF KnowsTheBuild
  <2>4. QED
    BY <1>1, <1>2, <1>3, <2>1, <2>2, <2>3, GoesOn
<1>4. QED
  BY <1>1, <1>2, <1>3, OwnStepKeeps

LEMMA RestoreKeeps ==
  ASSUME ControlIInv, NEW c \in Commands, Control!Restore(c)
  PROVE  ControlIInv'
<1>1. /\ Control!Busy(c) /\ Now(c) = "restore" /\ Control!Advance(c) /\ Shapes'
      /\ installed' = previous
  BY DEF Control!Restore, Control!Doing, Now, Control!managerVars, ControlIInv, Shapes
<1>2. Advanced(c) /\ Left(c) \in 1..6
  BY <1>1, AdvanceMoves, WhereItIs
<1>3. ASSUME Undisturbed(c), Control!Busy(c)'
      PROVE  Knows(c)'
  <2>1. Left(c) # 1 /\ Left(c)' = Left(c) - 1 /\ Now(c)' = Then(c) /\ cmd'[c].back = cmd[c].back
    BY <1>2, <1>3 DEF Advanced
  <2>2. ~(Then(c) \in {"probe", "start", "restart"})
    BY <1>1, <2>1, Places
  <2>3. ASSUME cmd[c].op = "update"
        PROVE  /\ OnTrial(c)' => installed' = builds' /\ previous' = cmd[c].found
               /\ ~OnTrial(c)' => installed' = cmd[c].found
               /\ Left(c)' <= 2 => daemon' \in {installed', Control!None}
    <3>1. Left(c) = 5 /\ cmd[c].back
      <4>1. Left(c) # 6 /\ Left(c) # 4 /\ Left(c) # 3 /\ Left(c) # 2 /\ Left(c) # 1
        BY <1>1, <2>3, Places
      <4>2. Left(c) = 5
        BY <1>2, <4>1
      <4>3. cmd[c].back \in BOOLEAN
        BY DEF ControlIInv, Command
      <4>4. QED
        BY <1>1, <2>3, <4>2, <4>3, Places
    <3>2. ~OnTrial(c)' /\ OnTrial(c) /\ ~(Left(c)' <= 2)
      BY <2>1, <3>1 DEF OnTrial
    <3>3. KnowsTheBuild(c)
      BY DEF ControlIInv
    <3>4. QED
      BY <1>1, <1>3, <2>3, <3>2, <3>3 DEF KnowsTheBuild
  <2>4. QED
    BY <1>1, <1>2, <1>3, <2>1, <2>2, <2>3, GoesOn
<1>4. QED
  BY <1>1, <1>2, <1>3, OwnStepKeeps

LEMMA ThrowKeeps ==
  ASSUME ControlIInv, NEW c \in Commands, Control!StepThrows(c)
  PROVE  ControlIInv'
  BY FailKeeps DEF Control!StepThrows, Control!Doing, Control!managerVars, Control!buildVars

LEMMA DaemonDiesKeeps ==
  ASSUME ControlIInv, Control!DaemonDies
  PROVE  ControlIInv'
<1>1. Shapes'
  BY ThereIsABuild DEF Control!DaemonDies, Control!buildVars, ControlIInv, Shapes, Control!None, Control!ControlAssumption
<1>2. \A c \in Commands : Control!Busy(c)' = Control!Busy(c) /\ Left(c)' = Left(c) /\ OnTrial(c)' = OnTrial(c) /\ Whole(c)' = Whole(c)
                          /\ Undisturbed(c)' = Undisturbed(c)
  BY DEF Control!DaemonDies, Control!Busy, Left, OnTrial, Whole, Undisturbed
<1>3. \A c \in Commands : FollowsScript(c)'
  BY <1>2 DEF ControlIInv, FollowsScript, Control!DaemonDies
<1>4. \A c \in Commands : KnowsWhatIsWanted(c)'
  BY <1>2 DEF ControlIInv, KnowsWhatIsWanted, Control!DaemonDies
<1>5. \A c \in Commands : KnowsTheBuild(c)'
  BY <1>2 DEF ControlIInv, KnowsTheBuild, Control!DaemonDies, Control!buildVars
<1>6. QED
  BY <1>1, <1>2, <1>3, <1>4, <1>5 DEF ControlIInv, Control!DaemonDies

LEMMA IssueKeeps ==
  ASSUME ControlIInv, NEW c \in Commands, NEW op \in DOMAIN Control!Script, Control!Issue(c, op)
  PROVE  ControlIInv'
<1> DEFINE new == [op |-> op, todo |-> Control!Script[op], back |-> FALSE, found |-> installed,
                   alone |-> \A d \in Commands : ~Control!Busy(d), answer |-> "none"]
<1>1. Shapes' /\ cmd \in [Commands -> Command] /\ installed \in Int
  BY ThereIsABuild DEF Control!Issue, ControlIInv, Shapes, Control!ControlAssumption
<1>2. Control!Script[op] \in Seq(Steps) /\ Control!Script[op] # <<>>
  <2>1. /\ <<"promote", "want running", "start", "wait">> \in Seq(Steps)
        /\ <<"want running", "start", "wait">> \in Seq(Steps)
        /\ <<"want stopped", "stop">> \in Seq(Steps)
        /\ <<"read", "restart", "wait", "check">> \in Seq(Steps)
        /\ <<"read", "probe", "start", "wait">> \in Seq(Steps)
    BY DEF Steps
  <2>2. /\ <<"read", "promote", "read", "restart", "wait", "check">> \in Seq(Steps)
        /\ <<"read", "restore", "read", "restart", "wait", "check">> \in Seq(Steps)
    BY DEF Steps
  <2>3. \/ op = "install" \/ op = "start" \/ op = "stop" \/ op = "restart"
        \/ op = "update" \/ op = "rollback" \/ op = "ensure"
    BY ScriptSteps
  <2>4. Control!Script[op] \in Seq(Steps)
    BY <2>1, <2>2, <2>3, ScriptSteps, Zenon
  <2>5. Control!Script[op][1] \in Steps /\ 1 \in DOMAIN Control!Script[op]
    <3>1. Len(Control!Script["install"]) # 0 /\ Len(Control!Script["start"]) # 0 /\ Len(Control!Script["stop"]) # 0
          /\ Len(Control!Script["restart"]) # 0 /\ Len(Control!Script["update"]) # 0
          /\ Len(Control!Script["rollback"]) # 0 /\ Len(Control!Script["ensure"]) # 0
      BY ScriptLengths
    <3>2. Len(Control!Script[op]) # 0
      BY <2>3, <3>1, Zenon
    <3>3. QED
      BY <2>4, <3>2
  <2>6. QED
    BY <2>4, <2>5
<1>3. new \in Command
  BY <1>1, <1>2 DEF Command
<1>4. cmd' = [d \in Commands |-> IF d = c THEN new ELSE [cmd[d] EXCEPT !.alone = @ /\ ~Control!Busy(d)]]
  BY DEF Control!Issue
<1>5. cmd' \in [Commands -> Command]
  <2> HIDE DEF new
  <2>1. \A d \in Commands : [cmd[d] EXCEPT !.alone = @ /\ ~Control!Busy(d)] \in Command
    <3>1. SUFFICES ASSUME NEW d \in Commands PROVE [cmd[d] EXCEPT !.alone = @ /\ ~Control!Busy(d)] \in Command
      OBVIOUS
    <3>2. cmd[d] \in Command /\ Control!Busy(d) \in BOOLEAN
      BY <1>1 DEF Control!Busy
    <3>3. QED
      BY <3>2 DEF Command
  <2>2. QED
    BY <1>3, <1>4, <2>1
<1>6. ~Control!Busy(c)
  BY DEF Control!Issue
<1>7. FollowsScript(c)' /\ Control!Busy(c)' /\ cmd'[c].todo = Control!Script[op] /\ cmd'[c].op = op /\ ~cmd'[c].back
      /\ cmd'[c].alone = (\A d \in Commands : ~Control!Busy(d)) /\ cmd'[c].found = installed
  <2>1. cmd'[c] = new
    BY <1>4
  <2>2. /\ cmd'[c].todo = Control!Script[op] /\ cmd'[c].op = op /\ ~cmd'[c].back /\ cmd'[c].answer = "none"
        /\ cmd'[c].alone = (\A d \in Commands : ~Control!Busy(d)) /\ cmd'[c].found = installed
    BY <2>1
  <2>3. Whole(c)' = Control!Script[op] /\ Left(c)' = Len(Control!Script[op]) /\ Len(Control!Script[op]) \in Nat
    BY <1>2, <2>2, LenProperties DEF Whole, Left
  <2>4. \A n \in Nat : \A j \in 1..n : n - n + j = j
    OBVIOUS
  <2>5. ASSUME NEW j \in 1..Left(c)'
        PROVE  cmd'[c].todo[j] = Whole(c)'[Len(Whole(c)') - Left(c)' + j]
    <3>1. Len(Control!Script[op]) - Len(Control!Script[op]) + j = j
      BY <2>3, <2>4
    <3>2. QED
      BY <2>2, <2>3, <3>1
  <2>6. Left(c)' <= Len(Whole(c)')
    BY <2>3
  <2>7. QED
    BY <1>2, <2>2, <2>5, <2>6 DEF FollowsScript, Control!Busy
<1>8. ASSUME NEW d \in Commands \ {c}
      PROVE  FollowsScript(d)' /\ ~Undisturbed(d)' /\ (Control!Busy(d)' <=> Control!Busy(d))
  <2>1. cmd[d] \in Command
    BY <1>1
  <2>2. /\ cmd'[d].todo = cmd[d].todo /\ cmd'[d].op = cmd[d].op /\ cmd'[d].back = cmd[d].back
        /\ cmd'[d].answer = cmd[d].answer /\ cmd'[d].alone = (cmd[d].alone /\ ~Control!Busy(d))
    BY <1>4, <2>1 DEF Command
  <2>3. (Control!Busy(d)' <=> Control!Busy(d)) /\ Left(d)' = Left(d) /\ Whole(d)' = Whole(d)
    BY <2>2 DEF Control!Busy, Left, Whole
  <2>4. FollowsScript(d)
    BY DEF ControlIInv
  <2>5. FollowsScript(d)'
    BY <2>2, <2>3, <2>4 DEF FollowsScript
  <2>6. QED
    BY <2>2, <2>3, <2>5 DEF Undisturbed
<1>9. Undisturbed(c)' => \A d \in Commands \ {c} : ~Control!Busy(d)'
  BY <1>7, <1>8 DEF Undisturbed
<1>10. Knows(c)'
  <2>1. ControlIInv => TRUE
    OBVIOUS
  <2>2. ~(Now(c)' \in {"probe", "start", "restart"})
    <3>1. Now(c)' = Control!Script[op][1]
      BY <1>2, <1>7, HeadTailProperties DEF Now
    <3>2. \/ op = "install" \/ op = "start" \/ op = "stop" \/ op = "restart"
          \/ op = "update" \/ op = "rollback" \/ op = "ensure"
      BY ScriptSteps
    <3>3. Control!Script[op][1] \in {"promote", "want running", "want stopped", "read"}
      BY <3>2, ScriptElements, Zenon
    <3>4. QED
      BY <3>1, <3>3
  <2>3. KnowsWhatIsWanted(c)'
    BY <2>2 DEF KnowsWhatIsWanted, Now
  <2>4. op = "update" => Left(c)' = 6
    BY <1>7, ScriptLengths DEF Left
  <2>5. op = "update" => ~OnTrial(c)' /\ ~(Left(c)' <= 2)
    BY <1>7, <2>4 DEF OnTrial
  <2>6. KnowsTheBuild(c)'
    BY <1>7, <2>5 DEF KnowsTheBuild, Control!Issue
  <2>7. QED
    BY <2>3, <2>6 DEF Knows
<1>11. \A d \in Commands : FollowsScript(d)' /\ Knows(d)' /\ (Undisturbed(d)' => \A e \in Commands \ {d} : ~Control!Busy(e)')
  BY <1>7, <1>8, <1>9, <1>10 DEF Knows, KnowsWhatIsWanted, KnowsTheBuild
<1>12. QED
  BY <1>1, <1>5, <1>11 DEF ControlIInv, Knows

LEMMA ControlInitIInv == Control!Init => ControlIInv
<1> SUFFICES ASSUME Control!Init PROVE ControlIInv
  OBVIOUS
<1>1. Shapes
  BY ThereIsABuild DEF Control!Init, Shapes, Control!None, Control!ControlAssumption
<1>2. Control!Ready \in Command
  BY DEF Control!Ready, Command, Control!None
<1>3. cmd \in [Commands -> Command] /\ \A c \in Commands : ~Control!Busy(c)
  BY <1>2 DEF Control!Init, Control!Busy, Control!Ready
<1>4. QED
  BY <1>1, <1>3 DEF ControlIInv, FollowsScript, Undisturbed, KnowsWhatIsWanted, KnowsTheBuild

LEMMA ControlNextKeepsIInv == ControlIInv /\ [Control!Next]_(Control!vars) => ControlIInv'
<1> SUFFICES ASSUME ControlIInv, [Control!Next]_(Control!vars) PROVE ControlIInv'
  OBVIOUS
<1>1. CASE UNCHANGED Control!vars
  BY <1>1 DEF Control!vars, ControlIInv, Shapes, FollowsScript, Undisturbed, KnowsWhatIsWanted, KnowsTheBuild, Control!Busy, Left, Whole, OnTrial
<1>2. CASE Control!DaemonDies
  BY <1>2, DaemonDiesKeeps
<1>3. ASSUME NEW c \in Commands,
             \/ \E op \in DOMAIN Control!Script : Control!Issue(c, op)
             \/ Control!ReadDesired(c) \/ Control!WriteDesired(c)
             \/ Control!Promote(c) \/ Control!Restore(c) \/ Control!StepThrows(c)
             \/ Control!ManagerStart(c) \/ Control!ManagerRestart(c) \/ Control!ManagerStop(c)
             \/ Control!Probe(c) \/ Control!WaitForHealthy(c) \/ Control!HealthCheck(c)
      PROVE  ControlIInv'
  BY <1>3, IssueKeeps, ReadDesiredKeeps, WriteDesiredKeeps, PromoteKeeps, RestoreKeeps, ThrowKeeps,
     ManagerStartKeeps, ManagerRestartKeeps, ManagerStopKeeps, ProbeKeeps, WaitKeeps, CheckKeeps
<1>4. QED
  BY <1>1, <1>2, <1>3 DEF Control!Next

\* The steps of the command c itself, once it has been issued.
OwnStep(c) ==
  \/ Control!ReadDesired(c) \/ Control!WriteDesired(c) \/ Control!Promote(c) \/ Control!Restore(c) \/ Control!StepThrows(c)
  \/ Control!ManagerStart(c) \/ Control!ManagerRestart(c) \/ Control!ManagerStop(c)
  \/ Control!Probe(c) \/ Control!WaitForHealthy(c) \/ Control!HealthCheck(c)

\* While a command has the field to itself, nobody else does anything but begin, and
\* the daemon may die.
LEMMA Alone ==
  ASSUME ControlIInv, [Control!Next]_(Control!vars), NEW c \in Commands, Undisturbed(c)
  PROVE  \/ OwnStep(c)
         \/ Control!DaemonDies \/ UNCHANGED Control!vars
         \/ /\ ~cmd'[c].alone /\ cmd'[c].todo = cmd[c].todo
<1>1. ASSUME NEW d \in Commands, OwnStep(d)
      PROVE  Control!Busy(d)
  BY <1>1 DEF OwnStep, Control!ReadDesired, Control!WriteDesired, Control!Promote, Control!Restore, Control!StepThrows, Control!ManagerStart,
              Control!ManagerRestart, Control!ManagerStop, Control!Probe, Control!WaitForHealthy, Control!HealthCheck, Control!Doing
<1>2. \A d \in Commands \ {c} : ~OwnStep(d)
  BY <1>1 DEF ControlIInv
<1>3. ASSUME NEW d \in Commands, NEW op \in DOMAIN Control!Script, Control!Issue(d, op)
      PROVE  ~cmd'[c].alone /\ cmd'[c].todo = cmd[c].todo
  <2>1. d # c /\ cmd[c] \in Command /\ Control!Busy(c)
    BY <1>3 DEF Control!Issue, Undisturbed, ControlIInv
  <2>2. cmd'[c] = [cmd[c] EXCEPT !.alone = @ /\ ~Control!Busy(c)]
    BY <1>3, <2>1 DEF Control!Issue
  <2>3. QED
    BY <2>1, <2>2 DEF Command
<1>4. CASE \E d \in Commands : OwnStep(d)
  BY <1>2, <1>4
<1>5. CASE \E d \in Commands : \E op \in DOMAIN Control!Script : Control!Issue(d, op)
  BY <1>3, <1>5
<1>6. QED
  BY <1>4, <1>5 DEF Control!Next, OwnStep

StopStep ==
  /\ Control!TypeOK'
  /\ \A c \in Commands : cmd[c].alone /\ Control!Busy(c) /\ cmd'[c].alone =>
       /\ cmd[c].op = "stop" /\ cmd'[c].answer = "ok" => daemon' = Control!None /\ ~loaded'
       /\ daemon = Control!None /\ daemon' # Control!None => desired = "running"

LEMMA StopStepHolds == ControlIInv /\ [Control!Next]_(Control!vars) => StopStep
<1> SUFFICES ASSUME ControlIInv, [Control!Next]_(Control!vars) PROVE StopStep
  OBVIOUS
<1>1. Control!TypeOK'
  <2>1. ControlIInv'
    BY ControlNextKeepsIInv
  <2>2. QED
    BY <2>1 DEF ControlIInv, Shapes, Control!TypeOK, Command
<1>2. ASSUME NEW c \in Commands, Undisturbed(c), cmd'[c].alone
      PROVE  OwnStep(c) \/ Control!DaemonDies \/ UNCHANGED Control!vars
  BY <1>2, Alone
<1>3. ASSUME NEW c \in Commands, Undisturbed(c), cmd'[c].alone, daemon = Control!None, daemon' # Control!None
      PROVE  desired = "running"
  <2>1. Control!ManagerStart(c) \/ Control!ManagerRestart(c)
    BY <1>2, <1>3 DEF OwnStep, Control!DaemonDies, Control!vars, Control!ReadDesired, Control!WriteDesired, Control!Promote, Control!Restore, Control!StepThrows,
              Control!ManagerStop, Control!Probe, Control!WaitForHealthy, Control!HealthCheck, Control!managerVars
  <2>2. Head(cmd[c].todo) \in {"start", "restart"}
    BY <2>1 DEF Control!ManagerStart, Control!ManagerRestart, Control!Doing
  <2>3. QED
    BY <1>3, <2>2 DEF ControlIInv, KnowsWhatIsWanted
<1>4. ASSUME NEW c \in Commands, Undisturbed(c), cmd'[c].alone, cmd[c].op = "stop", cmd'[c].answer = "ok"
      PROVE  daemon' = Control!None /\ ~loaded'
  <2>1. cmd[c].answer = "none" /\ Control!Busy(c) /\ cmd[c] \in Command
    BY <1>4 DEF ControlIInv, FollowsScript, Undisturbed
  <2>2. OwnStep(c)
    BY <1>2, <1>4, <2>1 DEF Control!DaemonDies, Control!vars
  <2>3. Now(c) \in {"stop", "want stopped"} /\ (Now(c) # "stop" => Left(c) = 2)
    BY <1>4, <2>1, Places
  <2>4. CASE Control!Advance(c) /\ Now(c) # "stop"
    <3>1. Advanced(c) /\ Left(c) = 2
      BY <2>1, <2>3, <2>4, AdvanceMoves
    <3>2. cmd'[c].answer = "none"
      BY <2>1, <3>1 DEF Advanced
    <3>3. QED
      BY <1>4, <3>2
  <2>5. CASE Control!Fail(c)
    <3>1. cmd'[c].answer \in {"unverified", "failed"}
      BY <1>4, <2>1, <2>5, FailMoves DEF Failed
    <3>2. QED
      BY <1>4, <3>1
  <2>6. CASE Control!ManagerStop(c)
    BY <2>6 DEF Control!ManagerStop
  <2>7. QED
    BY <2>2, <2>3, <2>4, <2>5, <2>6 DEF OwnStep, Control!ReadDesired, Control!WriteDesired, Control!Promote, Control!Restore, Control!StepThrows,
       Control!ManagerStart, Control!ManagerRestart, Control!Probe, Control!WaitForHealthy, Control!HealthCheck, Control!Doing, Now
<1>5. QED
  BY <1>1, <1>3, <1>4 DEF StopStep, Undisturbed

LEMMA CommandsRespectStop == Control!Spec => Control!StopHolds
<1>1. ControlIInv /\ [Control!Next]_(Control!vars) => [StopStep]_(Control!vars)
  BY StopStepHolds
<1>2. QED
  BY <1>1, ControlInitIInv, ControlNextKeepsIInv, PTL DEF Control!Spec, Control!StopHolds, StopStep

Gated(c) ==
  CASE cmd'[c].answer = "ok" -> daemon \in good /\ daemon = installed
    [] cmd'[c].answer = "rolled back" ->
         /\ daemon \in good
         /\ installed = cmd[c].found /\ daemon = installed
    [] cmd'[c].answer = "failed" -> installed = cmd[c].found
    [] OTHER -> installed \in {cmd[c].found, builds}

UpdateStep ==
  \A c \in Commands :
    cmd[c].op = "update" /\ cmd[c].alone /\ Control!Busy(c) /\ cmd'[c].todo = <<>> => Gated(c)

LEMMA UpdateStepHolds == ControlIInv /\ [Control!Next]_(Control!vars) => UpdateStep
<1> SUFFICES ASSUME ControlIInv, [Control!Next]_(Control!vars),
                    NEW c \in Commands, cmd[c].op = "update", Undisturbed(c), cmd'[c].todo = <<>>
             PROVE  Gated(c)
  BY DEF UpdateStep, Undisturbed
<1>1. Control!Busy(c) /\ cmd[c] \in Command /\ KnowsTheBuild(c) /\ FollowsScript(c) /\ Left(c) \in 1..6
  BY WhereItIs DEF Undisturbed, ControlIInv
<1>2. OwnStep(c)
  BY <1>1, Alone DEF Control!DaemonDies, Control!vars, Control!Busy
<1>3. CASE Control!Advance(c)
  <2>1. Left(c) = 1 /\ cmd'[c].answer = IF cmd[c].back THEN "rolled back" ELSE "ok"
    BY <1>1, <1>3, AdvanceMoves DEF Advanced, Control!Busy
  <2>2. Now(c) = "check"
    BY <1>1, <2>1, Places
  <2>3. Control!HealthCheck(c) /\ daemon \in good
    <3>1. Control!HealthCheck(c)
      BY <1>2, <2>2 DEF OwnStep, Control!ReadDesired, Control!WriteDesired, Control!Promote, Control!Restore, Control!StepThrows,
        Control!ManagerStart, Control!ManagerRestart, Control!ManagerStop, Control!Probe, Control!WaitForHealthy, Control!HealthCheck, Control!Doing, Now
    <3>2. CASE daemon \in good
      BY <3>1, <3>2
    <3>3. CASE daemon \notin good
      <4>1. Failed(c)
        BY <1>1, <3>1, <3>3, FailMoves DEF Control!HealthCheck
      <4>2. cmd'[c].answer \in {"unverified", "failed"} \/ Control!Busy(c)'
        BY <4>1 DEF Failed
      <4>3. QED
        BY <2>1, <4>2 DEF Control!Busy
    <3>4. QED
      BY <3>2, <3>3
  <2>4. daemon # Control!None
    BY <2>3 DEF ControlIInv, Shapes, Control!None
  <2>5. daemon = installed
    <3>1. Left(c) = 1 => Left(c) <= 2
      BY <1>1
    <3>2. QED
      BY <1>1, <2>1, <2>4, <3>1 DEF KnowsTheBuild, Undisturbed
  <2>6. cmd[c].back => installed = cmd[c].found
    <3>1. cmd[c].back => ~OnTrial(c)
      <4>1. Left(c) = 1 => Left(c) # 5
        OBVIOUS
      <4>2. QED
        BY <2>1, <4>1 DEF OnTrial
    <3>2. QED
      BY <1>1, <3>1 DEF KnowsTheBuild
  <2>7. QED
    BY <2>1, <2>3, <2>5, <2>6 DEF Gated
<1>4. CASE Control!Fail(c)
  <2>1. Failed(c) /\ ~Control!Busy(c)'
    BY <1>1, <1>4, FailMoves DEF Control!Busy
  <2>2. ~(~cmd[c].back /\ Left(c) \in 1..4) /\ cmd'[c].answer = IF cmd[c].back THEN "unverified" ELSE "failed"
    BY <2>1 DEF Failed
  <2>3. CASE cmd[c].back
    <3>1. installed \in {cmd[c].found, builds}
      BY <1>1 DEF KnowsTheBuild
    <3>2. QED
      BY <2>2, <2>3, <3>1 DEF Gated
  <2>4. CASE ~cmd[c].back
    <3>1. ~OnTrial(c)
      BY <1>1, <2>2, <2>4 DEF OnTrial
    <3>2. installed = cmd[c].found
      BY <1>1, <3>1 DEF KnowsTheBuild
    <3>3. QED
      BY <2>2, <2>4, <3>2 DEF Gated
  <2>5. QED
    BY <2>3, <2>4
<1>5. ~Control!Ends(c, "ok") \/ ~Control!Probe(c)
  <2>1. Now(c) # "probe"
    <3>1. cmd[c].back \in BOOLEAN
      BY <1>1 DEF Command
    <3>2. Left(c) = 1 \/ Left(c) = 2 \/ Left(c) = 3 \/ Left(c) = 4 \/ Left(c) = 5 \/ Left(c) = 6
      BY <1>1
    <3>3. QED
      BY <1>1, <3>1, <3>2, Places
  <2>2. QED
    BY <2>1 DEF Control!Probe, Control!Doing, Now
<1>6. QED
  BY <1>2, <1>3, <1>4, <1>5 DEF OwnStep, Control!ReadDesired, Control!WriteDesired, Control!Promote, Control!Restore, Control!StepThrows,
    Control!ManagerStart, Control!ManagerRestart, Control!ManagerStop, Control!Probe, Control!WaitForHealthy, Control!HealthCheck

LEMMA CommandsPassTheGate == Control!Spec => Control!UpdatesAreGated
<1>1. ControlIInv /\ [Control!Next]_(Control!vars) => [UpdateStep]_(Control!vars)
  BY UpdateStepHolds
<1>2. QED
  BY <1>1, ControlInitIInv, ControlNextKeepsIInv, PTL DEF Control!Spec, Control!UpdatesAreGated, UpdateStep, Gated

\* A service that was stopped on purpose stays away, whatever runs beside the commands.
THEOREM StopIsRespected == ServiceSpec => StopHolds
  BY ServiceImplementsItsParts, CommandsRespectStop DEF StopHolds

\* An update that nobody interferes with ends with a build that has passed the gate.
THEOREM UpdatesPassTheGate == ServiceSpec => UpdatesAreGated
  BY ServiceImplementsItsParts, CommandsPassTheGate DEF UpdatesAreGated

-----------------------------------------------------------------------------
(***************************************************************************)
(* The repair of the tunnel.  What a repair knows of the history is the    *)
(* end of the restarts that were made, and what came before does not count *)
(* any more; from its decision on, a restart belongs to the account.       *)
(***************************************************************************)
Stages == {"idle", "probing", "deciding", "restarting", "writing"}
Histories == {h \in Seq(0..now) : Len(h) <= MaxRestarts}
Seen == [merged : [liveness : BOOLEAN, readiness : BOOLEAN], stale : BOOLEAN] \cup {<<>>}

RepairShapes ==
  /\ now \in 0..MaxTime /\ tunnel \in {"dead", "alive", "ready"} /\ mishaps \in Nat
  /\ history \in Histories /\ restarts \in Seq(0..now)
  /\ repair \in [Repairs -> [at : Stages, past : Histories, seen : Seen, next : Histories]]
  /\ \A r \in Repairs : repair[r].at = "restarting" => repair[r].next # <<>>

\* h is the end of the restarts t, and those that came before it do not count any more.
Remembers(h, t) ==
  /\ Len(h) <= Len(t)
  /\ \A i \in 1..Len(h) : h[i] = t[(Len(t) - Len(h)) + i]
  /\ \A i \in 1..(Len(t) - Len(h)) : now - t[i] > Window

Budgeted(t) ==
  \A i, j \in 1..Len(t) : i < j => /\ t[j] - t[i] >= Cooldown
                                   /\ t[j] - t[i] <= Window => j - i < MaxRestarts

\* The restarts with the one that r has decided on.
Decided(r) == Append(restarts, repair[r].next[Len(repair[r].next)])

OneAtATime ==
  \A r, s \in Repairs : repair[r].at # "idle" /\ repair[s].at # "idle" => r = s

Known ==
  /\ (\A r \in Repairs : repair[r].at # "writing") => Remembers(history, restarts)
  /\ \A r \in Repairs :
       CASE repair[r].at \in {"probing", "deciding"} -> repair[r].past = history
         [] repair[r].at = "restarting" ->
              Budgeted(Decided(r)) /\ Remembers(repair[r].next, Decided(r))
         [] repair[r].at = "writing" -> Remembers(repair[r].next, restarts)
         [] OTHER -> TRUE

RepairIInv ==
  /\ RepairShapes
  /\ Budgeted(restarts)
  /\ mishaps # 0 => restarts = <<>>
  /\ mishaps = 0 => OneAtATime /\ Known

-----------------------------------------------------------------------------
Counting(h) == {i \in DOMAIN h : h[i] <= now /\ now - h[i] <= Window}

\* A history that is bounded is not cut, but for what does not count any more.
LEMMA RecentIs ==
  ASSUME now \in Nat, NEW h \in Histories
  PROVE  Repair!Recent(h) = Keep(h, Counting(h)) /\ Repair!Recent(h) \in Histories
<1> DEFINE kept == Keep(h, Counting(h))
<1>1. MaxRestarts \in Nat /\ h \in Seq(0..now) /\ Len(h) <= MaxRestarts
  BY WindowOutlastsCooldown DEF Repair!RecoveryAssumption, Histories
<1>2. kept \in Seq(0..now) /\ Len(kept) <= Len(h)
  BY <1>1, KeepElements
<1>3. Len(kept) \in Nat /\ Len(h) \in Nat
  BY <1>1, <1>2, LenProperties
<1>4. Len(kept) <= MaxRestarts
  BY <1>1, <1>2, <1>3
<1>5. Repair!Recent(h) = SubSeq(kept, 1, Len(kept))
  <2>1. Repair!Recent(h) = SubSeq(kept, IF Len(kept) > MaxRestarts THEN Len(kept) - MaxRestarts + 1 ELSE 1,
                           Len(kept))
    <3>1. Repair!Keep(h, Counting(h)) = kept
      BY DEF Repair!Keep, Keep
    <3> HIDE DEF kept
    <3> QED
      BY <3>1, Zenon DEF Repair!Recent, Counting
  <2> HIDE DEF kept
  <2>2. ~ (Len(kept) > MaxRestarts)
    BY <1>1, <1>3, <1>4
  <2> QED
    BY <2>1, <2>2, Zenon
<1>6. SubSeq(kept, 1, Len(kept)) = kept
  BY <1>2, SubSeqFull
<1> QED
  BY <1>2, <1>4, <1>5, <1>6 DEF Histories

\* The restarts come in the order of their times.
LEMMA InOrder ==
  ASSUME NEW n \in Nat, NEW t \in Seq(0..n), Budgeted(t)
  PROVE  \A i, j \in 1..Len(t) : i < j => t[i] <= t[j]
<1>1. \A i \in 1..Len(t) : t[i] \in 0..n
  BY ElementOfSeq
<1>2. Cooldown \in Nat
  BY WindowOutlastsCooldown DEF Repair!RecoveryAssumption
<1> QED
  BY <1>1, <1>2 DEF Budgeted

LEMMA RecentRemembers ==
  ASSUME now \in Nat, NEW t \in Seq(0..now), Budgeted(t), NEW h \in Histories, Remembers(h, t)
  PROVE  Remembers(Repair!Recent(h), t)
<1> DEFINE a == Len(h)  d == Len(t) - Len(h)
<1>1. /\ a \in Nat /\ d \in Nat /\ Len(t) \in Nat /\ Len(t) = d + a
      /\ h \in Seq(0..now) /\ DOMAIN h = 1..a
      /\ \A i \in 1..Len(t) : t[i] \in 0..now
      /\ \A i \in 1..a : h[i] \in 0..now
  <2>1. Len(h) \in Nat /\ Len(t) \in Nat /\ Len(h) <= Len(t) /\ h \in Seq(0..now)
    BY LenProperties DEF Histories, Remembers
  <2>2. \A i \in 1..Len(t) : t[i] \in 0..now
    BY ElementOfSeq
  <2>3. (\A i \in 1..Len(h) : h[i] \in 0..now) /\ DOMAIN h = 1..Len(h)
    BY <2>1, ElementOfSeq, LenProperties
  <2> QED
    BY <2>1, <2>2, <2>3
<1>2. (\A i \in 1..a : h[i] = t[d + i]) /\ (\A i \in 1..d : now - t[i] > Window)
  BY DEF Remembers
<1>3. Window \in Nat
  BY WindowOutlastsCooldown DEF Repair!RecoveryAssumption
<1> HIDE DEF a, d
<1>4. \A i, j \in 1..a : i < j => h[i] <= h[j]
  <2> SUFFICES ASSUME NEW i \in 1..a, NEW j \in 1..a, i < j PROVE h[i] <= h[j]
    OBVIOUS
  <2>1. d + i \in 1..Len(t) /\ d + j \in 1..Len(t) /\ d + i < d + j
    BY <1>1
  <2>2. t[d + i] <= t[d + j]
    BY <2>1, InOrder
  <2> QED
    BY <2>2, <1>2
<1>5. \E m \in 0..a : \A i \in 1..a : i \in Counting(h) <=> i > m
  <2>1. ASSUME NEW i \in 1..a PROVE i \in Counting(h) <=> now - h[i] <= Window
    <3>1. i \in DOMAIN h /\ h[i] <= now
      BY <1>1
    <3> QED
      BY <3>1 DEF Counting
  <2>2. CASE \E i \in 1..a : i \in Counting(h)
    <3> DEFINE T == {i \in 1..a : i \in Counting(h)}
    <3>1. PICK l \in T : \A i \in T : l <= i
      <4>1. T \subseteq Nat
        BY <1>1
      <4>2. T # {}
        BY <2>2
      <4> HIDE DEF T
      <4> QED
        BY <4>1, <4>2, LeastNumber
    <3>2. l - 1 \in 0..a /\ l \in 1..a /\ now - h[l] <= Window
      BY <3>1, <2>1, <1>1
    <3>3. ASSUME NEW i \in 1..a PROVE i \in Counting(h) <=> i > l - 1
      <4>1. CASE i < l
        BY <4>1, <3>1, <3>2, <1>1
      <4>2. CASE i = l
        BY <4>2, <3>1, <3>2, <1>1
      <4>3. CASE i > l
        <5>1. h[l] <= h[i]
          BY <4>3, <3>2, <1>4
        <5>2. now - h[i] <= Window
          BY <5>1, <3>2, <1>1, <1>3
        <5> QED
          BY <4>3, <5>2, <2>1, <3>2
      <4> QED
        BY <4>1, <4>2, <4>3, <3>2, <1>1
    <3> QED
      BY <3>2, <3>3
  <2>3. CASE ~ \E i \in 1..a : i \in Counting(h)
    <3>1. a \in 0..a /\ \A i \in 1..a : ~ (i > a)
      BY <1>1
    <3> QED
      BY <2>3, <3>1
  <2> QED
    BY <2>2, <2>3
<1>6. PICK m \in 0..a : \A i \in 1..a : i \in Counting(h) <=> i > m
  BY <1>5
<1> DEFINE r == Repair!Recent(h)
<1>7. Len(r) = a - m /\ \A i \in 1..(a - m) : r[i] = h[m + i]
  <2>1. r = Keep(h, Counting(h))
    BY RecentIs
  <2>2. m \in 0..Len(h) /\ \A i \in 1..Len(h) : i \in Counting(h) <=> i > m
    BY <1>6 DEF a
  <2> QED
    <3>1. /\ Len(Keep(h, Counting(h))) = Len(h) - m
          /\ \A i \in 1..(Len(h) - m) : Keep(h, Counting(h))[i] = h[m + i]
      <4>1. h \in Seq(0..now)
        BY <1>1
      <4> QED
        BY <2>2, <4>1, KeepRest, Z3
    <3> QED
      BY <2>1, <3>1 DEF a
<1>8. \A i \in 1..m : now - h[i] > Window
  <2> SUFFICES ASSUME NEW i \in 1..m PROVE now - h[i] > Window
    OBVIOUS
  <2>1. i \in 1..a /\ ~ (i > m)
    BY <1>1, <1>6
  <2>2. h[i] \in 0..now /\ i \notin Counting(h)
    BY <1>1, <1>6, <2>1
  <2> QED
    BY <2>1, <2>2, <1>1, <1>3 DEF Counting
<1> HIDE DEF r
<1>9. m \in Nat /\ Len(r) \in Nat /\ Len(r) <= Len(t) /\ Len(t) - Len(r) = d + m
  BY <1>1, <1>6, <1>7
<1>10. \A i \in 1..Len(r) : r[i] = t[(Len(t) - Len(r)) + i]
  <2> SUFFICES ASSUME NEW i \in 1..Len(r) PROVE r[i] = t[(d + m) + i]
    BY <1>9
  <2>1. m + i \in 1..a /\ d + (m + i) = (d + m) + i
    BY <1>1, <1>6, <1>7
  <2>2. r[i] = h[m + i]
    BY <1>7
  <2> QED
    BY <2>1, <2>2, <1>2
<1>11. \A i \in 1..(Len(t) - Len(r)) : now - t[i] > Window
  <2> SUFFICES ASSUME NEW i \in 1..(d + m) PROVE now - t[i] > Window
    BY <1>9
  <2>1. CASE i <= d
    BY <2>1, <1>1, <1>2
  <2>2. CASE i > d
    <3>1. i - d \in 1..m /\ d + (i - d) = i /\ i - d \in 1..a
      BY <2>2, <1>1, <1>6
    <3>2. h[i - d] = t[i]
      BY <3>1, <1>2
    <3> QED
      BY <3>1, <3>2, <1>8
  <2> QED
    BY <2>1, <2>2, <1>1, <1>9
<1> QED
  BY <1>9, <1>10, <1>11 DEF Remembers, r

\* A restart that is decided on stays within the budget and is remembered.
LEMMA DecidedWithinBudget ==
  ASSUME now \in Nat, NEW t \in Seq(0..now), Budgeted(t), NEW h \in Seq(0..now),
         Remembers(h, t), Len(h) < MaxRestarts, ~ Repair!InCooldown(h)
  PROVE  Budgeted(Append(t, now)) /\ Remembers(Append(h, now), Append(t, now))
<1> DEFINE a == Len(h)  d == Len(t) - Len(h)  b == Len(t)
           u == Append(t, now)  k == Append(h, now)
<1>1. /\ a \in Nat /\ d \in Nat /\ b \in Nat /\ b = d + a
      /\ \A i \in 1..b : t[i] \in 0..now
      /\ \A i \in 1..a : h[i] \in 0..now
  <2>1. Len(h) \in Nat /\ Len(t) \in Nat /\ Len(h) <= Len(t)
    BY LenProperties DEF Remembers
  <2>2. \A i \in 1..Len(t) : t[i] \in 0..now
    BY ElementOfSeq
  <2>3. \A i \in 1..Len(h) : h[i] \in 0..now
    BY ElementOfSeq
  <2> QED
    BY <2>1, <2>2, <2>3
<1>2. (\A i \in 1..a : h[i] = t[d + i]) /\ (\A i \in 1..d : now - t[i] > Window)
  BY DEF Remembers
<1>3. Window \in Nat /\ Cooldown \in Nat /\ Cooldown <= Window /\ MaxRestarts \in Nat
  BY WindowOutlastsCooldown DEF Repair!RecoveryAssumption
<1>4. Len(u) = b + 1 /\ (\A i \in 1..b : u[i] = t[i]) /\ u[b + 1] = now
  BY AppendProperties
<1>5. Len(k) = a + 1 /\ (\A i \in 1..a : k[i] = h[i]) /\ k[a + 1] = now
  BY AppendProperties
<1>6. a # 0 => now - h[a] >= Cooldown
  <2>1. a # 0 => h # <<>>
    BY EmptySeq
  <2> QED
    BY <2>1, <1>1, <1>3 DEF Repair!InCooldown
<1>7. \A i, j \in 1..b : i < j => t[i] <= t[j]
  BY InOrder
<1>8. \A i, j \in 1..b : i < j => /\ t[j] - t[i] >= Cooldown
                                  /\ t[j] - t[i] <= Window => j - i < MaxRestarts
  BY DEF Budgeted
<1>9. a < MaxRestarts
  OBVIOUS
<1> HIDE DEF a, d, b, u, k
<1>10. ASSUME NEW i \in 1..b
       PROVE  now - t[i] >= Cooldown /\ (now - t[i] <= Window => (b + 1) - i < MaxRestarts)
  <2>1. CASE i <= d
    <3>1. now - t[i] > Window
      BY <2>1, <1>1, <1>2
    <3> QED
      BY <3>1, <1>1, <1>3
  <2>2. CASE i > d
    <3>1. a # 0 /\ d + a \in 1..b /\ a \in 1..a
      BY <2>2, <1>1
    <3>2. now - t[b] >= Cooldown
      BY <3>1, <1>1, <1>2, <1>6
    <3>3. t[i] <= t[b]
      <4>1. b \in 1..b /\ t[b] \in 0..now /\ t[i] \in 0..now
        BY <1>1
      <4>2. CASE i = b
        BY <4>1, <4>2
      <4>3. CASE i < b
        BY <4>1, <4>3, <1>7
      <4> QED
        BY <4>1, <4>2, <4>3, <1>1
    <3>4. now - t[i] >= Cooldown
      BY <3>1, <3>2, <3>3, <1>1, <1>3, SMTT(20)
    <3>5. (b + 1) - i < MaxRestarts
      BY <2>2, <1>1, <1>3, <1>9
    <3> QED
      BY <3>4, <3>5
  <2> QED
    BY <2>1, <2>2, <1>1
<1>11. Budgeted(u)
  <2> SUFFICES ASSUME NEW i \in 1..(b + 1), NEW j \in 1..(b + 1), i < j
               PROVE  /\ u[j] - u[i] >= Cooldown
                      /\ u[j] - u[i] <= Window => j - i < MaxRestarts
    BY <1>4 DEF Budgeted
  <2>1. i \in 1..b /\ u[i] = t[i]
    BY <1>1, <1>4
  <2>2. CASE j \in 1..b
    BY <2>1, <2>2, <1>4, <1>8
  <2>3. CASE j = b + 1
    BY <2>1, <2>3, <1>4, <1>10
  <2> QED
    BY <2>2, <2>3, <1>1
<1>12. Remembers(k, u)
  <2>1. Len(k) <= Len(u) /\ Len(u) - Len(k) = d
    BY <1>1, <1>4, <1>5
  <2>2. ASSUME NEW i \in 1..(a + 1) PROVE k[i] = u[d + i]
    <3>1. CASE i \in 1..a
      <4>1. d + i \in 1..b
        BY <3>1, <1>1
      <4> QED
        BY <3>1, <4>1, <1>2, <1>4, <1>5
    <3>2. CASE i = a + 1
      <4>1. d + i = b + 1
        BY <3>2, <1>1
      <4> QED
        BY <3>2, <4>1, <1>4, <1>5
    <3> QED
      BY <3>1, <3>2, <1>1
  <2>3. ASSUME NEW i \in 1..d PROVE now - u[i] > Window
    <3>1. i \in 1..b
      BY <1>1
    <3> QED
      BY <3>1, <1>2, <1>4
  <2>4. \A i \in 1..Len(k) : k[i] = u[(Len(u) - Len(k)) + i]
    BY <2>1, <2>2, <1>5
  <2>5. \A i \in 1..(Len(u) - Len(k)) : now - u[i] > Window
    BY <2>1, <2>3
  <2> QED
    BY <2>1, <2>4, <2>5 DEF Remembers
<1> QED
  BY <1>11, <1>12 DEF u, k

-----------------------------------------------------------------------------
Row == [at : Stages, past : Histories, seen : Seen, next : Histories]

LEMMA NothingRestarted == Budgeted(<<>>) /\ Remembers(<<>>, <<>>)
  BY EmptySeq DEF Budgeted, Remembers

\* Histories stay histories while time does not go back.
LEMMA HistoriesGrow ==
  ASSUME now \in Nat, now' \in Nat, now <= now'
  PROVE  Histories \subseteq Histories' /\ Seq(0..now) \subseteq Seq(0..now')
<1>1. 0..now \subseteq 0..now'
  OBVIOUS
<1>2. Seq(0..now) \subseteq Seq(0..now')
  BY <1>1, SeqMonotonic
<1> QED
  BY <1>2 DEF Histories

LEMMA SeenTypes == Repair!Observations \subseteq Seen
<1>1. \A a \in Repair!Answers : a \in [answered : BOOLEAN, liveness : BOOLEAN, readiness : BOOLEAN]
  <2>1. Repair!Silent \in [answered : BOOLEAN, liveness : BOOLEAN, readiness : BOOLEAN]
    BY DEF Repair!Silent
  <2>2. (tunnel = "ready") \in BOOLEAN
    OBVIOUS
  <2> DEFINE ready == tunnel = "ready"
  <2>3. [answered |-> TRUE, liveness |-> TRUE, readiness |-> ready]
          \in [answered : BOOLEAN, liveness : BOOLEAN, readiness : BOOLEAN]
    BY <2>2
  <2>4. \A a \in Repair!Answers : a = Repair!Silent \/ a = [answered |-> TRUE, liveness |-> TRUE, readiness |-> ready]
    BY Zenon DEF Repair!Answers
  <2> HIDE DEF ready
  <2> QED
    BY <2>1, <2>3, <2>4, Zenon
<1>2. ASSUME NEW sources \in [1..2 -> Repair!Answers], NEW stale \in {FALSE, sources[2].answered}
      PROVE  [merged |-> Repair!Merged(sources), stale |-> stale] \in Seen
  <2>1. sources[2] \in Repair!Answers
    OBVIOUS
  <2>2. stale \in BOOLEAN
    BY <2>1, <1>1
  <2>3. Repair!Merged(sources) \in [liveness : BOOLEAN, readiness : BOOLEAN]
    BY DEF Repair!Merged
  <2> QED
    BY <2>2, <2>3 DEF Seen
<1> QED
  BY <1>2 DEF Repair!Observations

\* If one repair is at work at most, it is its knowledge that matters.
LEMMA KnownByOne ==
  ASSUME NEW r \in Repairs, \A s \in Repairs \ {r} : repair'[s].at = "idle",
         (repair[r].at # "writing" => Remembers(history, restarts))',
         (repair[r].at \in {"probing", "deciding"} => repair[r].past = history)',
         (repair[r].at = "restarting" =>
            Budgeted(Decided(r)) /\ Remembers(repair[r].next, Decided(r)))',
         (repair[r].at = "writing" => Remembers(repair[r].next, restarts))'
  PROVE  OneAtATime' /\ Known'
<1>1. OneAtATime'
  BY DEF OneAtATime
<1>2. (\A s \in Repairs : repair'[s].at # "writing") => Remembers(history, restarts)'
  OBVIOUS
<1>3. ASSUME NEW s \in Repairs
      PROVE  (CASE repair[s].at \in {"probing", "deciding"} -> repair[s].past = history
                [] repair[s].at = "restarting" ->
                     Budgeted(Decided(s)) /\ Remembers(repair[s].next, Decided(s))
                [] repair[s].at = "writing" -> Remembers(repair[s].next, restarts)
                [] OTHER -> TRUE)'
  <2>1. CASE s = r
    BY <2>1
  <2>2. CASE s # r
    <3>1. repair'[s].at = "idle"
      BY <2>2
    <3> QED
      BY <3>1
  <2> QED
    BY <2>1, <2>2
<1> QED
  BY <1>1, <1>2, <1>3 DEF Known

\* A mishap ends the account.
LEMMA MishapKeeps ==
  ASSUME RepairIInv, Repair!Mishap, RepairShapes'
  PROVE  RepairIInv'
<1>1. restarts' = <<>> /\ mishaps' # 0
  BY DEF Repair!Mishap, RepairIInv, RepairShapes
<1> QED
  BY <1>1, NothingRestarted DEF RepairIInv, Budgeted

\* What a step of r leaves alone.
LEMMA OneRowChanges ==
  ASSUME RepairIInv, NEW r \in Repairs, NEW row \in Row, repair' = [repair EXCEPT ![r] = row]
  PROVE  /\ repair' \in [Repairs -> Row] /\ repair'[r] = row
         /\ \A s \in Repairs \ {r} : repair'[s] = repair[s]
  BY DEF RepairIInv, RepairShapes, Row

LEMMA BeginKeeps ==
  ASSUME RepairIInv, NEW r \in Repairs, Repair!Begin(r)
  PROVE  RepairIInv'
<1> DEFINE row == [repair[r] EXCEPT !.at = "probing", !.past = history]
<1>1. row \in Row /\ row.at = "probing" /\ row.past = history
  BY DEF RepairIInv, RepairShapes, Row, Stages
<1>2. repair' = [repair EXCEPT ![r] = row]
  BY DEF Repair!Begin
<1> HIDE DEF row
<1>3. /\ repair' \in [Repairs -> Row] /\ repair'[r] = row
      /\ \A s \in Repairs \ {r} : repair'[s] = repair[s]
  BY <1>1, <1>2, OneRowChanges
<1>4. UNCHANGED <<now, tunnel, history>>
  BY DEF Repair!Begin, Repair!world
<1>5. CASE \A other \in Repairs : repair[other].at = "idle"
  <2>1. UNCHANGED <<restarts, mishaps>>
    BY <1>5 DEF Repair!Begin
  <2>2. RepairShapes'
    BY <2>1, <1>1, <1>3, <1>4 DEF RepairIInv, RepairShapes, Row, Histories
  <2>3. ASSUME mishaps = 0 PROVE OneAtATime' /\ Known'
    <3>1. Remembers(history, restarts)
      BY <2>3, <1>5 DEF RepairIInv, Known
    <3>2. Remembers(history, restarts)'
      BY <3>1, <2>1, <1>4 DEF Remembers
    <3> QED
      BY <3>2, <1>1, <1>3, <1>4, <1>5, KnownByOne
  <2> QED
    BY <2>1, <2>2, <2>3 DEF RepairIInv, Budgeted
<1>6. CASE ~ \A other \in Repairs : repair[other].at = "idle"
  <2>1. Repair!Mishap
    BY <1>6 DEF Repair!Begin
  <2>2. RepairShapes'
    <3>1. mishaps' \in Nat /\ restarts' = <<>>
      BY <2>1 DEF Repair!Mishap, RepairIInv, RepairShapes
    <3>2. restarts' \in Seq(0..now)
      BY <3>1, EmptySeq
    <3> QED
      BY <3>1, <3>2, <1>1, <1>3, <1>4 DEF RepairIInv, RepairShapes, Row, Histories
  <2> QED
    BY <2>1, <2>2, MishapKeeps
<1> QED
  BY <1>5, <1>6

\* While there was no mishap, nobody else is at work.
LEMMA OthersIdle ==
  ASSUME RepairIInv, mishaps = 0, NEW r \in Repairs, repair[r].at # "idle"
  PROVE  \A s \in Repairs \ {r} : repair[s].at = "idle"
  BY DEF RepairIInv, OneAtATime

LEMMA RepairProbeKeeps ==
  ASSUME RepairIInv, NEW r \in Repairs, Repair!Probe(r)
  PROVE  RepairIInv'
<1>1. PICK saw \in Repair!Observations : repair' = [repair EXCEPT ![r].at = "deciding", ![r].seen = saw]
  BY DEF Repair!Probe
<1> DEFINE row == [repair[r] EXCEPT !.at = "deciding", !.seen = saw]
<1>2. row \in Row /\ row.at = "deciding" /\ row.past = repair[r].past
  BY SeenTypes DEF RepairIInv, RepairShapes, Row, Stages
<1>3. repair' = [repair EXCEPT ![r] = row]
  BY <1>1
<1> HIDE DEF row
<1>4. /\ repair' \in [Repairs -> Row] /\ repair'[r] = row
      /\ \A s \in Repairs \ {r} : repair'[s] = repair[s]
  BY <1>2, <1>3, OneRowChanges
<1>5. UNCHANGED <<now, tunnel, history, restarts, mishaps>> /\ repair[r].at = "probing"
  BY DEF Repair!Probe, Repair!world
<1>6. RepairShapes'
  BY <1>2, <1>4, <1>5 DEF RepairIInv, RepairShapes, Row, Histories
<1>7. ASSUME mishaps = 0 PROVE OneAtATime' /\ Known'
  <2>1. \A s \in Repairs \ {r} : repair[s].at = "idle"
    BY <1>5, <1>7, OthersIdle
  <2>2. Remembers(history, restarts) /\ repair[r].past = history
    BY <2>1, <1>5, <1>7 DEF RepairIInv, Known
  <2>3. Remembers(history, restarts)'
    BY <2>2, <1>5 DEF Remembers
  <2> QED
    BY <2>1, <2>2, <2>3, <1>2, <1>4, <1>5, KnownByOne
<1> QED
  BY <1>5, <1>6, <1>7 DEF RepairIInv, Budgeted

LEMMA DecideKeeps ==
  ASSUME RepairIInv, NEW r \in Repairs, Repair!Decide(r)
  PROVE  RepairIInv'
<1> DEFINE recent == Repair!Recent(repair[r].past)
           saw == repair[r].seen
           restarting == [Repair!Idle EXCEPT !.at = "restarting", !.next = Append(recent, now)]
           given(h) == [Repair!Idle EXCEPT !.at = "writing", !.next = h]
<1>1. /\ now \in Nat /\ MaxRestarts \in Nat \ {0} /\ repair[r].past \in Histories
      /\ restarts \in Seq(0..now) /\ Budgeted(restarts)
  BY WindowOutlastsCooldown DEF RepairIInv, RepairShapes, Repair!RecoveryAssumption
<1>2. recent \in Histories /\ recent \in Seq(0..now) /\ Len(recent) \in Nat
  <2>1. recent \in Histories
    BY <1>1, RecentIs
  <2> QED
    BY <2>1, LenProperties DEF Histories
<1>3. /\ UNCHANGED <<now, tunnel, history, mishaps>> /\ repair[r].at = "deciding"
      /\ IF Repair!MayRestart(saw, recent)
         THEN repair' = [repair EXCEPT ![r] = restarting] /\ UNCHANGED restarts
         ELSE /\ repair' = [repair EXCEPT ![r] = given(IF Repair!Resets(saw, recent) THEN <<>> ELSE recent)]
              /\ restarts' = IF Repair!Resets(saw, recent) THEN <<>> ELSE restarts
  BY DEF Repair!Decide, Repair!world
<1>4. ASSUME mishaps = 0
      PROVE  /\ \A s \in Repairs \ {r} : repair[s].at = "idle"
             /\ Remembers(history, restarts) /\ Remembers(recent, restarts)
  <2>1. \A s \in Repairs \ {r} : repair[s].at = "idle"
    BY <1>3, <1>4, OthersIdle
  <2>2. Remembers(history, restarts) /\ repair[r].past = history
    BY <2>1, <1>3, <1>4 DEF RepairIInv, Known
  <2> QED
    BY <2>1, <2>2, <1>1, RecentRemembers
<1> HIDE DEF recent, saw
<1>5. CASE Repair!MayRestart(saw, recent)
  <2>1. repair' = [repair EXCEPT ![r] = restarting] /\ UNCHANGED restarts
    BY <1>3, <1>5
  <2>2. Append(recent, now) \in Histories /\ Append(recent, now) # <<>>
        /\ Len(Append(recent, now)) = Len(recent) + 1
        /\ Append(recent, now)[Len(recent) + 1] = now
    <3>1. Len(recent) < MaxRestarts
      BY <1>5 DEF Repair!MayRestart
    <3>2. now \in 0..now
      BY <1>1
    <3>3. /\ Append(recent, now) \in Seq(0..now) /\ Len(Append(recent, now)) = Len(recent) + 1
          /\ Append(recent, now)[Len(recent) + 1] = now
      BY <3>2, <1>2, AppendProperties
    <3>4. Len(Append(recent, now)) <= MaxRestarts /\ Len(Append(recent, now)) # 0
      BY <3>1, <3>3, <1>1, <1>2
    <3>5. Append(recent, now) # <<>>
      BY <3>4, EmptySeq
    <3> QED
      BY <3>3, <3>4, <3>5 DEF Histories
  <2>3. restarting \in Row /\ restarting.at = "restarting" /\ restarting.next = Append(recent, now)
    <3>1. <<>> \in Histories /\ <<>> \in Seen
      BY <1>1, EmptySeq DEF Histories, Seen
    <3> QED
      BY <3>1, <2>2 DEF Row, Repair!Idle, Stages
  <2> HIDE DEF restarting
  <2>4. /\ repair' \in [Repairs -> Row] /\ repair'[r] = restarting
        /\ \A s \in Repairs \ {r} : repair'[s] = repair[s]
    BY <2>1, <2>3, OneRowChanges
  <2>5. RepairShapes'
    BY <2>1, <2>2, <2>3, <2>4, <1>3 DEF RepairIInv, RepairShapes, Row, Histories
  <2>6. ASSUME mishaps = 0 PROVE OneAtATime' /\ Known'
    <3>1. Remembers(history, restarts)'
      BY <1>3, <1>4, <2>1, <2>6 DEF Remembers
    <3>2. Decided(r)' = Append(restarts, now)
      BY <2>1, <2>2, <2>3, <2>4 DEF Decided
    <3>3. Len(recent) < MaxRestarts /\ ~ Repair!InCooldown(recent)
      BY <1>5 DEF Repair!MayRestart
    <3>4. Budgeted(Append(restarts, now)) /\ Remembers(Append(recent, now), Append(restarts, now))
      BY <3>3, <1>1, <1>2, <1>4, <2>6, DecidedWithinBudget
    <3>5. (Budgeted(Decided(r)) /\ Remembers(repair[r].next, Decided(r)))'
      BY <3>2, <3>4, <2>3, <2>4, <1>3 DEF Budgeted, Remembers
    <3> QED
      BY <3>1, <3>5, <2>3, <2>4, <1>4, <2>6, KnownByOne
  <2> QED
    BY <2>1, <2>5, <2>6, <1>3 DEF RepairIInv, Budgeted
<1>6. CASE ~ Repair!MayRestart(saw, recent)
  <2> DEFINE h == IF Repair!Resets(saw, recent) THEN <<>> ELSE recent
             t == IF Repair!Resets(saw, recent) THEN <<>> ELSE restarts
  <2>1. repair' = [repair EXCEPT ![r] = given(h)] /\ restarts' = t
    BY <1>3, <1>6
  <2>2. <<>> \in Histories /\ <<>> \in Seen /\ <<>> \in Seq(0..now)
    BY <1>1, EmptySeq DEF Histories, Seen
  <2>3. h \in Histories /\ t \in Seq(0..now) /\ Budgeted(t) /\ (restarts = <<>> => t = <<>>)
    BY <2>2, <1>1, <1>2, NothingRestarted
  <2>4. given(h) \in Row /\ given(h).at = "writing" /\ given(h).next = h
    BY <2>2, <2>3 DEF Row, Repair!Idle, Stages
  <2>5. mishaps = 0 => Remembers(h, t)
    BY <1>4, NothingRestarted
  <2> HIDE DEF h, t, given
  <2>6. /\ repair' \in [Repairs -> Row] /\ repair'[r] = given(h)
        /\ \A s \in Repairs \ {r} : repair'[s] = repair[s]
    BY <2>1, <2>4, OneRowChanges
  <2>7. RepairShapes'
    BY <2>1, <2>3, <2>4, <2>6, <1>3 DEF RepairIInv, RepairShapes, Row, Histories
  <2>8. ASSUME mishaps = 0 PROVE OneAtATime' /\ Known'
    <3>1. Remembers(repair[r].next, restarts)'
      BY <2>1, <2>4, <2>5, <2>6, <2>8, <1>3 DEF Remembers
    <3> QED
      BY <3>1, <2>4, <2>6, <1>4, <2>8, KnownByOne
  <2>9. Budgeted(restarts)'
    BY <2>1, <2>3 DEF Budgeted
  <2> QED
    BY <2>1, <2>3, <2>7, <2>8, <2>9, <1>3 DEF RepairIInv
<1> QED
  BY <1>5, <1>6

LEMMA RestartKeeps ==
  ASSUME RepairIInv, NEW r \in Repairs, Repair!Restart(r)
  PROVE  RepairIInv'
<1> DEFINE row == [repair[r] EXCEPT !.at = "writing"]
           d == Decided(r)
<1>1. row \in Row /\ row.at = "writing" /\ row.next = repair[r].next
  BY DEF RepairIInv, RepairShapes, Row, Stages
<1>2. repair' = [repair EXCEPT ![r] = row]
  BY DEF Repair!Restart
<1> HIDE DEF row
<1>3. /\ repair' \in [Repairs -> Row] /\ repair'[r] = row
      /\ \A s \in Repairs \ {r} : repair'[s] = repair[s]
  BY <1>1, <1>2, OneRowChanges
<1>4. /\ UNCHANGED <<now, history, mishaps>> /\ repair[r].at = "restarting"
      /\ tunnel' \in {"dead", "alive", "ready"}
      /\ restarts' = IF mishaps = 0 THEN d ELSE <<>>
  BY DEF Repair!Restart, Repair!Counted, Decided, RepairIInv, RepairShapes
<1>5. d \in Seq(0..now)
  <2>1. repair[r].next # <<>> /\ repair[r].next \in Seq(0..now)
    BY <1>4 DEF RepairIInv, RepairShapes, Histories
  <2>2. Len(repair[r].next) \in 1..Len(repair[r].next)
    BY <2>1, EmptySeq
  <2>3. repair[r].next[Len(repair[r].next)] \in 0..now
    BY <2>1, <2>2, ElementOfSeq
  <2>4. restarts \in Seq(0..now)
    BY DEF RepairIInv, RepairShapes
  <2> QED
    BY <2>3, <2>4, AppendProperties DEF Decided
<1>6. ASSUME mishaps = 0
      PROVE  /\ \A s \in Repairs \ {r} : repair[s].at = "idle"
             /\ Budgeted(d) /\ Remembers(repair[r].next, d)
  BY <1>4, <1>6, OthersIdle DEF RepairIInv, Known
<1> HIDE DEF d
<1>7. restarts' \in Seq(0..now) /\ Budgeted(restarts')
  <2>1. <<>> \in Seq(0..now)
    BY EmptySeq
  <2> QED
    BY <2>1, <1>4, <1>5, <1>6, NothingRestarted
<1>8. RepairShapes'
  BY <1>1, <1>3, <1>4, <1>7 DEF RepairIInv, RepairShapes, Row, Histories
<1>9. ASSUME mishaps = 0 PROVE OneAtATime' /\ Known'
  <2>1. Remembers(repair[r].next, restarts)'
    BY <1>1, <1>3, <1>4, <1>6, <1>9 DEF Remembers
  <2> QED
    BY <2>1, <1>1, <1>3, <1>6, <1>9, KnownByOne
<1>10. Budgeted(restarts)'
  BY <1>7 DEF Budgeted
<1> QED
  BY <1>4, <1>8, <1>9, <1>10 DEF RepairIInv

LEMMA NothingToRestartKeeps ==
  ASSUME RepairIInv, NEW r \in Repairs, Repair!NothingToRestart(r)
  PROVE  RepairIInv'
<1>1. now \in Nat
  BY WindowOutlastsCooldown DEF RepairIInv, RepairShapes, Repair!RecoveryAssumption
<1>2. Repair!Idle \in Row /\ Repair!Idle.at = "idle"
  <2>1. <<>> \in Histories /\ <<>> \in Seen
    BY <1>1, WindowOutlastsCooldown, EmptySeq DEF Histories, Seen, Repair!RecoveryAssumption
  <2> QED
    BY <2>1 DEF Row, Repair!Idle, Stages
<1>3. /\ UNCHANGED <<now, tunnel, history, restarts, mishaps>> /\ repair[r].at = "restarting"
      /\ repair' = [repair EXCEPT ![r] = Repair!Idle]
  BY DEF Repair!NothingToRestart, Repair!world
<1>4. /\ repair' \in [Repairs -> Row] /\ repair'[r] = Repair!Idle
      /\ \A s \in Repairs \ {r} : repair'[s] = repair[s]
  BY <1>2, <1>3, OneRowChanges
<1>5. RepairShapes'
  BY <1>2, <1>3, <1>4 DEF RepairIInv, RepairShapes, Row, Histories
<1>6. ASSUME mishaps = 0 PROVE OneAtATime' /\ Known'
  <2>1. \A s \in Repairs \ {r} : repair[s].at = "idle"
    BY <1>3, <1>6, OthersIdle
  <2>2. Remembers(history, restarts)
    BY <2>1, <1>3, <1>6 DEF RepairIInv, Known
  <2>3. Remembers(history, restarts)'
    BY <2>2, <1>3 DEF Remembers
  <2> QED
    BY <2>1, <2>3, <1>2, <1>4, KnownByOne
<1> QED
  BY <1>3, <1>5, <1>6 DEF RepairIInv, Budgeted

LEMMA WriteHistoryKeeps ==
  ASSUME RepairIInv, NEW r \in Repairs, Repair!WriteHistory(r)
  PROVE  RepairIInv'
<1>1. now \in Nat
  BY WindowOutlastsCooldown DEF RepairIInv, RepairShapes, Repair!RecoveryAssumption
<1>2. Repair!Idle \in Row /\ Repair!Idle.at = "idle"
  <2>1. <<>> \in Histories /\ <<>> \in Seen
    BY <1>1, WindowOutlastsCooldown, EmptySeq DEF Histories, Seen, Repair!RecoveryAssumption
  <2> QED
    BY <2>1 DEF Row, Repair!Idle, Stages
<1>3. /\ UNCHANGED <<now, tunnel, restarts, mishaps>> /\ repair[r].at = "writing"
      /\ repair' = [repair EXCEPT ![r] = Repair!Idle] /\ history' = repair[r].next
      /\ repair[r].next \in Histories
  BY DEF Repair!WriteHistory, Repair!world, RepairIInv, RepairShapes
<1>4. /\ repair' \in [Repairs -> Row] /\ repair'[r] = Repair!Idle
      /\ \A s \in Repairs \ {r} : repair'[s] = repair[s]
  BY <1>2, <1>3, OneRowChanges
<1>5. RepairShapes'
  BY <1>2, <1>3, <1>4 DEF RepairIInv, RepairShapes, Row, Histories
<1>6. ASSUME mishaps = 0 PROVE OneAtATime' /\ Known'
  <2>1. \A s \in Repairs \ {r} : repair[s].at = "idle"
    BY <1>3, <1>6, OthersIdle
  <2>2. Remembers(repair[r].next, restarts)
    BY <1>3, <1>6 DEF RepairIInv, Known
  <2>3. Remembers(history, restarts)'
    BY <2>2, <1>3 DEF Remembers
  <2> QED
    BY <2>1, <2>3, <1>2, <1>4, KnownByOne
<1> QED
  BY <1>3, <1>5, <1>6 DEF RepairIInv, Budgeted

LEMMA CutShortKeeps ==
  ASSUME RepairIInv, NEW r \in Repairs, Repair!CutShort(r)
  PROVE  RepairIInv'
<1>1. now \in Nat
  BY WindowOutlastsCooldown DEF RepairIInv, RepairShapes, Repair!RecoveryAssumption
<1>2. Repair!Idle \in Row /\ Repair!Idle.at = "idle"
  <2>1. <<>> \in Histories /\ <<>> \in Seen
    BY <1>1, WindowOutlastsCooldown, EmptySeq DEF Histories, Seen, Repair!RecoveryAssumption
  <2> QED
    BY <2>1 DEF Row, Repair!Idle, Stages
<1>3. /\ UNCHANGED <<now, tunnel, history>> /\ Repair!Mishap
      /\ repair' = [repair EXCEPT ![r] = Repair!Idle]
  BY DEF Repair!CutShort, Repair!world
<1>4. /\ repair' \in [Repairs -> Row] /\ repair'[r] = Repair!Idle
      /\ \A s \in Repairs \ {r} : repair'[s] = repair[s]
  BY <1>2, <1>3, OneRowChanges
<1>5. mishaps' \in Nat /\ restarts' = <<>>
  BY <1>3 DEF Repair!Mishap, RepairIInv, RepairShapes
<1>6. restarts' \in Seq(0..now)
  BY <1>5, EmptySeq
<1>7. RepairShapes'
  BY <1>2, <1>3, <1>4, <1>5, <1>6 DEF RepairIInv, RepairShapes, Row, Histories
<1> QED
  BY <1>3, <1>7, MishapKeeps

\* What is known stays known where nothing changes but the tunnel.
LEMMA KnownWithoutChange ==
  ASSUME OneAtATime, Known, UNCHANGED <<now, history, repair, restarts>>
  PROVE  OneAtATime' /\ Known'
<1>1. OneAtATime'
  BY DEF OneAtATime
<1>2. Remembers(history, restarts)' <=> Remembers(history, restarts)
  BY DEF Remembers
<1>3. ASSUME NEW r \in Repairs
      PROVE  (CASE repair[r].at \in {"probing", "deciding"} -> repair[r].past = history
                [] repair[r].at = "restarting" ->
                     Budgeted(Decided(r)) /\ Remembers(repair[r].next, Decided(r))
                [] repair[r].at = "writing" -> Remembers(repair[r].next, restarts)
                [] OTHER -> TRUE)'
  <2> DEFINE d == Decided(r)  h == repair[r].next
  <2>1. d' = d /\ h' = h
    BY DEF Decided
  <2>2. Remembers(h, restarts)' <=> Remembers(h, restarts)
    BY DEF Remembers
  <2> HIDE DEF d, h
  <2>3. (Budgeted(d) /\ Remembers(h, d))' <=> Budgeted(d) /\ Remembers(h, d)
    BY <2>1 DEF Budgeted, Remembers
  <2>4. CASE repair[r].at \in {"probing", "deciding"}
    BY <2>4 DEF Known
  <2>5. CASE repair[r].at = "restarting"
    BY <2>3, <2>5 DEF Known, d, h
  <2>6. CASE repair[r].at = "writing"
    BY <2>2, <2>6 DEF Known, h
  <2> QED
    BY <2>4, <2>5, <2>6
<1> QED
  BY <1>1, <1>2, <1>3 DEF Known

LEMMA TunnelChangesKeeps == RepairIInv /\ Repair!TunnelChanges => RepairIInv'
<1> SUFFICES ASSUME RepairIInv, Repair!TunnelChanges PROVE RepairIInv'
  OBVIOUS
<1>1. /\ UNCHANGED <<now, history, repair, restarts, mishaps>>
      /\ tunnel' \in {"dead", "alive", "ready"}
  BY DEF Repair!TunnelChanges
<1>2. RepairShapes'
  BY <1>1 DEF RepairIInv, RepairShapes, Histories
<1>3. OneAtATime /\ Known => OneAtATime' /\ Known'
  BY <1>1, KnownWithoutChange
<1> QED
  BY <1>1, <1>2, <1>3 DEF RepairIInv, Budgeted

\* Nothing is forgotten by waiting.
LEMMA RemembersLater ==
  ASSUME now \in Nat, now' = now + 1, NEW t \in Seq(Nat), NEW h, Remembers(h, t), Len(h) \in Nat
  PROVE  Remembers(h, t)'
<1>1. \A i \in 1..(Len(t) - Len(h)) : t[i] \in Nat
  <2>1. \A i \in 1..Len(t) : t[i] \in Nat
    BY ElementOfSeq
  <2>2. Len(t) \in Nat
    BY LenProperties
  <2> QED
    BY <2>1, <2>2
<1>2. Window \in Nat
  BY WindowOutlastsCooldown DEF Repair!RecoveryAssumption
<1> QED
  BY <1>1, <1>2 DEF Remembers

LEMMA TickKeeps == RepairIInv /\ Repair!Tick => RepairIInv'
<1> SUFFICES ASSUME RepairIInv, Repair!Tick PROVE RepairIInv'
  OBVIOUS
<1>1. /\ now \in Nat /\ now' = now + 1 /\ now' \in 0..MaxTime
      /\ UNCHANGED <<tunnel, history, repair, restarts, mishaps>>
  BY WindowOutlastsCooldown DEF Repair!Tick, RepairIInv, RepairShapes, Repair!RecoveryAssumption
<1>2. Histories \subseteq Histories' /\ Seq(0..now) \subseteq Seq(0..now') /\ Seq(0..now) \subseteq Seq(Nat)
  <2>1. 0..now \subseteq Nat /\ now' \in Nat /\ now <= now'
    BY <1>1
  <2> QED
    BY <2>1, <1>1, HistoriesGrow, SeqMonotonic
<1>3. repair' \in [Repairs -> Row']
  <2>1. Row \subseteq Row'
    BY <1>2 DEF Row, Seen
  <2>2. repair \in [Repairs -> Row]
    BY DEF RepairIInv, RepairShapes, Row
  <2> QED
    BY <2>1, <2>2, <1>1
<1>4. RepairShapes'
  BY <1>1, <1>2, <1>3 DEF RepairIInv, RepairShapes, Row, Seen
<1>5. ASSUME NEW h \in Histories, NEW t \in Seq(0..now), Remembers(h, t)
      PROVE  Remembers(h, t)'
  <2>1. Len(h) \in Nat /\ t \in Seq(Nat)
    BY <1>2, LenProperties DEF Histories
  <2> QED
    BY <2>1, <1>1, <1>5, RemembersLater
<1>6. ASSUME OneAtATime, Known PROVE OneAtATime' /\ Known'
  <2>1. OneAtATime'
    BY <1>1, <1>6 DEF OneAtATime
  <2>2. (\A r \in Repairs : repair[r].at # "writing") => Remembers(history, restarts)'
    <3>1. history \in Histories /\ restarts \in Seq(0..now)
      BY DEF RepairIInv, RepairShapes
    <3>2. Remembers(history, restarts) => Remembers(history, restarts)'
      BY <3>1, <1>1, <1>5 DEF Remembers
    <3> QED
      BY <3>2, <1>6 DEF Known
  <2>3. ASSUME NEW r \in Repairs, repair[r].at = "writing"
        PROVE  Remembers(repair[r].next, restarts)'
    <3>1. repair[r].next \in Histories /\ restarts \in Seq(0..now)
      BY DEF RepairIInv, RepairShapes
    <3>2. Remembers(repair[r].next, restarts)
      BY <2>3, <1>6 DEF Known
    <3> QED
      BY <3>1, <3>2, <1>1, <1>5 DEF Remembers
  <2>4. ASSUME NEW r \in Repairs, repair[r].at = "restarting"
        PROVE  (Budgeted(Decided(r)) /\ Remembers(repair[r].next, Decided(r)))'
    <3>1. repair[r].next \in Histories /\ restarts \in Seq(0..now) /\ repair[r].next # <<>>
      BY <2>4 DEF RepairIInv, RepairShapes
    <3>2. repair[r].next \in Seq(0..now)
      BY <3>1 DEF Histories
    <3>3. Len(repair[r].next) \in 1..Len(repair[r].next)
      BY <3>1, <3>2, EmptySeq
    <3>4. repair[r].next[Len(repair[r].next)] \in 0..now
      BY <3>2, <3>3, ElementOfSeq
    <3>5. Decided(r) \in Seq(0..now) /\ Decided(r)' = Decided(r)
      BY <3>1, <3>4, <1>1, AppendProperties DEF Decided
    <3>6. Budgeted(Decided(r)) /\ Remembers(repair[r].next, Decided(r))
      BY <2>4, <1>6 DEF Known
    <3> DEFINE d == Decided(r)
    <3>7. d \in Seq(0..now) /\ d' = d /\ Budgeted(d) /\ Remembers(repair[r].next, d)
      BY <3>5, <3>6
    <3> HIDE DEF d
    <3>8. (Budgeted(d) /\ Remembers(repair[r].next, d))'
      BY <3>1, <3>7, <1>1, <1>5 DEF Budgeted, Remembers
    <3> QED
      BY <3>8 DEF d
  <2> QED
    BY <2>1, <2>2, <2>3, <2>4, <1>1, <1>6 DEF Known
<1> QED
  BY <1>1, <1>4, <1>6 DEF RepairIInv, Budgeted

LEMMA RepairInitIInv == Repair!Init => RepairIInv
<1> SUFFICES ASSUME Repair!Init PROVE RepairIInv
  OBVIOUS
<1>1. MaxTime \in Nat /\ MaxRestarts \in Nat /\ now = 0
  BY WindowOutlastsCooldown DEF Repair!RecoveryAssumption, Repair!Init
<1>2. <<>> \in Histories /\ <<>> \in Seen /\ <<>> \in Seq(0..now)
  BY <1>1, EmptySeq DEF Histories, Seen
<1>3. Repair!Idle \in Row /\ Repair!Idle.at = "idle"
  BY <1>2 DEF Row, Repair!Idle, Stages
<1>4. \A r \in Repairs : repair[r] = Repair!Idle
  BY DEF Repair!Init
<1>5. RepairShapes
  BY <1>1, <1>2, <1>3, <1>4 DEF Repair!Init, RepairShapes, Row
<1>6. OneAtATime /\ Known
  BY <1>3, <1>4, NothingRestarted DEF Repair!Init, OneAtATime, Known
<1> QED
  BY <1>5, <1>6, NothingRestarted DEF Repair!Init, RepairIInv

LEMMA RepairNextKeepsIInv == RepairIInv /\ [Repair!Next]_(Repair!vars) => RepairIInv'
<1> SUFFICES ASSUME RepairIInv, [Repair!Next]_(Repair!vars) PROVE RepairIInv'
  OBVIOUS
<1>1. ASSUME NEW r \in Repairs,
             \/ Repair!Begin(r) \/ Repair!Probe(r) \/ Repair!Decide(r) \/ Repair!Restart(r) \/ Repair!NothingToRestart(r)
             \/ Repair!WriteHistory(r) \/ Repair!CutShort(r)
      PROVE  RepairIInv'
  BY <1>1, BeginKeeps, RepairProbeKeeps, DecideKeeps, RestartKeeps, NothingToRestartKeeps,
     WriteHistoryKeeps, CutShortKeeps
<1>2. CASE UNCHANGED Repair!vars
  <2>1. UNCHANGED <<now, tunnel, history, repair, restarts, mishaps>>
    BY <1>2 DEF Repair!vars
  <2>2. RepairShapes'
    BY <2>1 DEF RepairIInv, RepairShapes, Histories
  <2>3. OneAtATime /\ Known => OneAtATime' /\ Known'
    BY <2>1, KnownWithoutChange
  <2> QED
    BY <2>1, <2>2, <2>3 DEF RepairIInv, Budgeted
<1> QED
  BY <1>1, <1>2, TunnelChangesKeeps, TickKeeps DEF Repair!Next

LEMMA RepairInvariant == Repair!Spec => []RepairIInv
  BY RepairInitIInv, RepairNextKeepsIInv, PTL DEF Repair!Spec

LEMMA RepairsCount == Repair!Spec => []Repair!RestartsAreBudgeted
<1>1. RepairIInv => Repair!RestartsAreBudgeted
  <2> SUFFICES ASSUME RepairIInv PROVE Repair!RestartsAreBudgeted
    OBVIOUS
  <2>1. restarts \in Seq(0..now) /\ DOMAIN restarts = 1..Len(restarts)
    BY LenProperties DEF RepairIInv, RepairShapes
  <2>2. Repair!TypeOK
    BY DEF RepairIInv, RepairShapes, Repair!TypeOK, Histories, Stages
  <2>3. \A i, j \in DOMAIN restarts :
          i < j => /\ restarts[j] - restarts[i] >= Cooldown
                   /\ restarts[j] - restarts[i] <= Window => j - i < MaxRestarts
    BY <2>1 DEF RepairIInv, Budgeted
  <2> QED
    BY <2>2, <2>3 DEF Repair!RestartsAreBudgeted
<1> QED
  BY <1>1, RepairInvariant, PTL

\* As long as repairs do not overlap and none is killed, the tunnel is not restarted
\* more often than the policy allows.
THEOREM RepairsKeepTheBudget == ServiceSpec => []RestartsAreBudgeted
<1>1. Repair!RestartsAreBudgeted => RestartsAreBudgeted
  BY DEF RestartsAreBudgeted
<1> QED
  BY <1>1, ServiceImplementsItsParts, RepairsCount, PTL

-----------------------------------------------------------------------------
(***************************************************************************)
(* The view of the session.  While the TUI is connected it shows what the  *)
(* daemon has, and afterwards no more calls than the daemon; a call has    *)
(* one row; Detail does not follow; and what is selected is visible.       *)
(***************************************************************************)
LEMMA ViewKeeps == \A s, I : View!Keep(s, I) = Keep(s, I)
BY Zenon DEF View!Keep, Keep

LEMMA ViewCounts ==
  \A S : (View!IsFiniteSet(S) <=> IsFiniteSet(S)) /\ View!Cardinality(S) = Cardinality(S)
BY DEF View!IsFiniteSet, IsFiniteSet, View!Cardinality, Cardinality

\* A call has one row.
Once(s) == \A i, j \in 1..Len(s) : s[i].call = s[j].call => i = j

\* What is selected when v is visible.
Selected(call, v) ==
  /\ call \in Calls \cup {NoCall}
  /\ call = NoCall <=> v = <<>>
  /\ call # NoCall => call \in View!Range(v)

\* A lost connection leaves the TUI with an earlier session, which is not longer.
Mirrored ==
  /\ View!IsSession(seen) /\ Once(seen)
  /\ View!IsSession(session) /\ Once(session)
  /\ online \in BOOLEAN /\ (online => seen = session)
  /\ Len(seen) <= Len(session)

FollowState ==
  /\ mode \in View!Modes /\ following \in BOOLEAN /\ (mode = "detail" => ~following)
  /\ lastTotalCalls = Len(seen)
  /\ pendingNew \in Nat /\ pendingNew <= Len(seen) /\ (following => pendingNew = 0)

FilterState ==
  statusFilter \in {"all", "running", "done"} /\ searching \in BOOLEAN

ViewInv == Mirrored /\ FollowState /\ FilterState /\ Selected(selected, View!Visible)

-----------------------------------------------------------------------------

LEMMA SessionIs ==
  ASSUME NEW s, View!IsSession(s)
  PROVE  /\ s \in Seq(View!Row) /\ Len(s) \in Nat /\ Len(s) <= HistoryLimit /\ DOMAIN s = 1..Len(s)
         /\ \A i \in 1..Len(s) : s[i] \in View!Row /\ s[i].call \in Calls
<1>1. s \in Seq(View!Row) /\ Len(s) <= HistoryLimit
  BY DEF View!IsSession
<1>2. Len(s) \in Nat /\ DOMAIN s = 1..Len(s) /\ \A i \in 1..Len(s) : s[i] \in View!Row
  BY <1>1, LenProperties, ElementOfSeq
<1>3. \A row \in View!Row : row.call \in Calls
  BY DEF View!Row
<1> QED
  BY <1>1, <1>2, <1>3

LEMMA FilteredCalls ==
  ASSUME NEW s, View!IsSession(s), NEW f, NEW q
  PROVE  View!Filtered(s, f, q) \in Seq(Calls)
<1> DEFINE places == {i \in DOMAIN s : /\ f \in {"all", s[i].status}
                                       /\ q => s[i].call \in Matching}
           passes == View!Keep(s, places)
<1>1. s \in Seq(View!Row)
  BY SessionIs
<1>2. passes \in Seq(View!Row)
  <2> HIDE DEF places
  <2> QED
    BY <1>1, KeepElements, ViewKeeps
<1>3. View!Filtered(s, f, q) = [i \in DOMAIN passes |-> passes[i].call]
  BY DEF View!Filtered
<1> HIDE DEF passes
<1>4. DOMAIN passes = 1..Len(passes) /\ Len(passes) \in Nat
      /\ \A i \in 1..Len(passes) : passes[i] \in View!Row
  BY <1>2, LenProperties, ElementOfSeq
<1>5. \A i \in 1..Len(passes) : passes[i].call \in Calls
  BY <1>4 DEF View!Row
<1>6. [i \in 1..Len(passes) |-> passes[i].call] \in [1..Len(passes) -> Calls]
  BY <1>5
<1>7. [i \in 1..Len(passes) |-> passes[i].call] \in Seq(Calls)
  BY <1>4, <1>6, SeqDef
<1> QED
  BY <1>3, <1>4, <1>7

LEMMA VisibleCalls ==
  ASSUME NEW v \in Seq(Calls)
  PROVE  /\ Len(v) \in Nat /\ DOMAIN v = 1..Len(v)
         /\ \A i \in 1..Len(v) : v[i] \in Calls /\ v[i] \in View!Range(v) /\ v[i] # NoCall
         /\ v # <<>> <=> Len(v) # 0
         /\ \A call \in View!Range(v) : call \in Calls /\ call # NoCall /\ v # <<>>
         /\ v # <<>> => Head(v) = v[1]
<1>1. Len(v) \in Nat /\ DOMAIN v = 1..Len(v) /\ (\A i \in 1..Len(v) : v[i] \in Calls)
  BY LenProperties, ElementOfSeq
<1>2. v # <<>> <=> Len(v) # 0
  BY EmptySeq
<1>3. v # <<>> => Head(v) = v[1]
  OBVIOUS
<1>4. \A i \in 1..Len(v) : v[i] \in View!Range(v)
  BY <1>1 DEF View!Range
<1>5. \A call \in View!Range(v) : \E i \in 1..Len(v) : call = v[i]
  BY <1>1 DEF View!Range
<1> QED
  BY <1>1, <1>2, <1>3, <1>4, <1>5, OnlyCallsAreShown DEF View!ViewAssumption

LEMMA NewestIsSelected ==
  ASSUME NEW v \in Seq(Calls)
  PROVE  Selected(View!NewestOf(v), v)
BY VisibleCalls DEF Selected, View!NewestOf

LEMMA EnsuredIsSelected ==
  ASSUME NEW v \in Seq(Calls), NEW call
  PROVE  /\ Selected(View!Ensured(call, v), v)
         /\ View!Ensured(call, v) # call => call \notin View!Range(v)
<1>1. CASE call \in View!Range(v)
  BY <1>1, VisibleCalls DEF Selected, View!Ensured
<1>2. CASE call \notin View!Range(v) /\ v = <<>>
  BY <1>2, VisibleCalls DEF Selected, View!Ensured
<1>3. CASE call \notin View!Range(v) /\ v # <<>>
  BY <1>3, VisibleCalls DEF Selected, View!Ensured
<1> QED
  BY <1>1, <1>2, <1>3

\* A session of distinct calls is no longer than there are calls.
LEMMA OnceBounds ==
  ASSUME NEW s, View!IsSession(s), Once(s)
  PROVE  View!Cardinality(Calls) \in Nat /\ Len(s) <= View!Cardinality(Calls)
<1> DEFINE f == [i \in 1..Len(s) |-> s[i].call]
<1>1. View!IsFiniteSet(Calls)
  BY OnlyCallsAreShown DEF View!ViewAssumption
<1>2. f \in Injection(1..Len(s), Calls)
  BY SessionIs DEF Once, Injection, IsInjective
<1>3. View!Cardinality(1..Len(s)) <= View!Cardinality(Calls)
  <2> HIDE DEF f
  <2> QED
    BY <1>1, <1>2, FS_Injection, ViewCounts
<1>4. Len(s) \in Nat
  BY SessionIs
<1>5. View!Cardinality(1..Len(s)) = Len(s)
  <2>1. \A n \in Nat : View!Cardinality(1..n) = n
    <3> TAKE n \in Nat
    <3>1. View!Cardinality(1..n) = IF 1 > n THEN 0 ELSE n - 1 + 1
      BY FS_Interval, ViewCounts
    <3> QED
      BY <3>1
  <2> QED
    BY <1>4, <2>1
<1>6. View!Cardinality(Calls) \in Nat
  BY <1>1, FS_CardinalityType, ViewCounts
<1> QED
  BY <1>3, <1>5, <1>6

\* setCall: the session keeps its order, its calls and its bound.
LEMMA ConsumeIs ==
  ASSUME NEW s, View!IsSession(s), Once(s), NEW row \in View!Row
  PROVE  /\ View!IsSession(View!Consume(s, row)) /\ Once(View!Consume(s, row))
         /\ Len(View!Consume(s, row)) >= Len(s)
         /\ \A k \in Calls : View!Has(View!Consume(s, row), k) /\ ~View!Has(s, k) =>
              k = row.call /\ (Len(s) < HistoryLimit => Len(View!Consume(s, row)) > Len(s))
<1> DEFINE t == View!Consume(s, row)
           n == Len(s)
<1>1. /\ s \in Seq(View!Row) /\ n \in Nat /\ n <= HistoryLimit /\ DOMAIN s = 1..n
      /\ \A i \in 1..n : s[i] \in View!Row /\ s[i].call \in Calls
  BY SessionIs
<1>2. HistoryLimit \in Nat \ {0}
  BY OnlyCallsAreShown DEF View!ViewAssumption
<1>0. n \in Nat /\ n <= HistoryLimit
  BY <1>1
<1> HIDE DEF n
<1>3. CASE View!Has(s, row.call)
  <2> DEFINE u == [i \in 1..n |-> IF s[i].call = row.call THEN row ELSE s[i]]
  <2>1. t = u
    BY <1>0, <1>1, <1>3 DEF View!Consume, n
  <2>2. u \in [1..n -> View!Row]
    BY <1>1
  <2>3. u \in Seq(View!Row) /\ DOMAIN u = 1..n
    BY <1>0, <1>1, <2>2, SeqDef DEF n
  <2>4. Len(u) = n
    BY <1>0, <1>1, <2>3, LenProperties DEF n
  <2>5. \A i \in 1..n : u[i].call = s[i].call
    OBVIOUS
  <2> HIDE DEF u
  <2>6. Once(u)
    BY <2>4, <2>5 DEF Once, n
  <2>7. \A k : View!Has(u, k) => View!Has(s, k)
    BY <1>0, <1>1, <2>3, <2>5 DEF View!Has
  <2> QED
    BY <1>0, <1>1, <2>1, <2>3, <2>4, <2>6, <2>7 DEF View!IsSession, n
<1>4. CASE ~View!Has(s, row.call) /\ n < HistoryLimit
  <2> DEFINE u == Append(s, row)
  <2>1. t = u
    BY <1>4 DEF View!Consume, n
  <2>2. /\ u \in Seq(View!Row) /\ Len(u) = n + 1 /\ DOMAIN u = 1..(n + 1)
        /\ \A i \in 1..n : u[i] = s[i]
        /\ u[n + 1] = row
    BY <1>0, <1>1, AppendProperties, LenProperties DEF n
  <2> HIDE DEF u
  <2>3. \A i \in 1..n : s[i].call # row.call
    BY <1>0, <1>1, <1>4 DEF View!Has
  <2>4. Once(u)
    <3> SUFFICES ASSUME NEW i \in 1..(n + 1), NEW j \in 1..(n + 1), u[i].call = u[j].call
                 PROVE  i = j
      BY <2>2 DEF Once
    <3>1. i \in 1..n \/ i = n + 1
      BY <1>0
    <3>2. j \in 1..n \/ j = n + 1
      BY <1>0
    <3> QED
      BY <3>1, <3>2, <2>2, <2>3 DEF Once, n
  <2>5. \A k : View!Has(u, k) /\ ~View!Has(s, k) => k = row.call
    <3> TAKE k
    <3> HAVE View!Has(u, k) /\ ~View!Has(s, k)
    <3>1. PICK i \in 1..(n + 1) : u[i].call = k
      BY <2>2 DEF View!Has
    <3>2. i = n + 1
      BY <1>0, <1>1, <2>2, <3>1 DEF View!Has
    <3> QED
      BY <2>2, <3>1, <3>2
  <2> QED
    BY <1>0, <1>1, <1>2, <1>4, <2>1, <2>2, <2>4, <2>5 DEF View!IsSession, n
<1>5. CASE ~View!Has(s, row.call) /\ ~(n < HistoryLimit)
  <2>1. n = HistoryLimit /\ n > 0 /\ s # <<>>
    <3>1. ~(n < HistoryLimit)
      BY <1>5
    <3>2. n = HistoryLimit /\ n > 0
      BY <1>0, <1>2, <3>1
    <3> QED
      BY <1>0, <1>1, <3>2, EmptySeq DEF n
  <2> DEFINE w == Tail(s)
             u == Append(w, row)
  <2>2. t = u
    BY <1>5 DEF View!Consume, n
  <2>3. w \in Seq(View!Row) /\ Len(w) = n - 1 /\ \A i \in 1..(n - 1) : w[i] = s[i + 1]
    BY <1>0, <1>1, <2>1, HeadTailProperties DEF n
  <2> HIDE DEF w
  <2>4. /\ u \in Seq(View!Row) /\ Len(u) = n /\ DOMAIN u = 1..n
        /\ \A i \in 1..(n - 1) : u[i] = s[i + 1]
        /\ u[n] = row
    BY <1>0, <1>1, <2>1, <2>3, AppendProperties, LenProperties DEF n
  <2> HIDE DEF u
  <2>5. \A i \in 1..n : s[i].call # row.call
    BY <1>0, <1>1, <1>5 DEF View!Has
  <2>6. Once(u)
    <3> SUFFICES ASSUME NEW i \in 1..n, NEW j \in 1..n, u[i].call = u[j].call
                 PROVE  i = j
      BY <2>4 DEF Once
    <3>1. i \in 1..(n - 1) \/ i = n
      BY <1>0
    <3>2. j \in 1..(n - 1) \/ j = n
      BY <1>0
    <3>3. \A l \in 1..(n - 1) : l + 1 \in 1..n /\ l \in Nat
      BY <1>0
    <3>4. \A a \in 1..n : \A b \in 1..n : s[a].call = s[b].call => a = b
      BY DEF Once, n
    <3>5. CASE i = n /\ j = n
      BY <3>5
    <3>6. CASE i = n /\ j \in 1..(n - 1)
      BY <3>6, <3>3, <2>4, <2>5
    <3>7. CASE i \in 1..(n - 1) /\ j = n
      BY <3>7, <3>3, <2>4, <2>5
    <3>8. CASE i \in 1..(n - 1) /\ j \in 1..(n - 1)
      <4>1. i + 1 = j + 1
        BY <3>8, <3>3, <3>4, <2>4
      <4> QED
        BY <4>1
    <3> QED
      BY <3>1, <3>2, <3>5, <3>6, <3>7, <3>8
  <2>7. \A k : View!Has(u, k) /\ ~View!Has(s, k) => k = row.call
    <3> TAKE k
    <3> HAVE View!Has(u, k) /\ ~View!Has(s, k)
    <3>1. PICK i \in 1..n : u[i].call = k
      BY <2>4 DEF View!Has
    <3>2. i = n
      <4>1. i \in 1..(n - 1) => i + 1 \in 1..n
        BY <1>0
      <4>2. i \in 1..(n - 1) => s[i + 1].call = k
        BY <2>4, <3>1
      <4> QED
        BY <1>0, <1>1, <2>1, <3>1, <4>1, <4>2 DEF View!Has
    <3> QED
      BY <2>4, <3>1, <3>2
  <2> QED
    BY <1>0, <1>1, <1>2, <2>1, <2>2, <2>4, <2>6, <2>7 DEF View!IsSession, n
<1> QED
  BY <1>3, <1>4, <1>5

-----------------------------------------------------------------------------

LEMMA ViewInit == View!Init => ViewInv
<1> SUFFICES ASSUME View!Init PROVE ViewInv
  OBVIOUS
<1>1. <<>> \in Seq(View!Row) /\ Len(<<>>) = 0 /\ DOMAIN <<>> = {}
  OBVIOUS
<1>2. View!IsSession(<<>>) /\ Once(<<>>)
  BY <1>1, OnlyCallsAreShown DEF View!IsSession, Once, View!ViewAssumption
<1>3. View!Visible \in Seq(Calls)
  BY <1>2, FilteredCalls DEF View!Init, View!Visible
<1>4. View!Visible = <<>>
  <2> DEFINE v == View!Filtered(seen, statusFilter, searching)
             places == {i \in DOMAIN seen : /\ statusFilter \in {"all", seen[i].status}
                                            /\ searching => seen[i].call \in Matching}
             passes == View!Keep(seen, places)
  <2>1. seen \in Seq(View!Row) /\ Len(seen) = 0
    BY <1>1 DEF View!Init
  <2>2. passes \in Seq(View!Row) /\ Len(passes) <= Len(seen)
    <3> HIDE DEF places
    <3> QED
      BY <2>1, KeepElements, ViewKeeps
  <2>3. View!Visible = [i \in DOMAIN passes |-> passes[i].call]
    BY DEF View!Visible, View!Filtered
  <2> HIDE DEF passes
  <2>4. Len(passes) \in Nat /\ DOMAIN passes = 1..Len(passes)
    BY <2>2, LenProperties
  <2>5. DOMAIN View!Visible = 1..0
    BY <2>1, <2>2, <2>3, <2>4
  <2>6. Len(View!Visible) = 0
    BY <1>3, <2>5, LenProperties
  <2> QED
    BY <1>3, <2>6, EmptySeq
<1>5. Selected(selected, View!Visible)
  BY <1>4 DEF View!Init, Selected
<1>6. seen = <<>> /\ session = <<>> /\ online = TRUE
  BY DEF View!Init
<1>7. Mirrored
  <2>1. online \in BOOLEAN /\ Len(seen) <= Len(session)
    BY <1>1, <1>6
  <2> QED
    BY <1>2, <1>6, <2>1, Zenon DEF Mirrored
<1>8. FollowState /\ FilterState
  <2>1. mode \in View!Modes /\ following \in BOOLEAN /\ mode # "detail"
    BY DEF View!Init, View!Modes
  <2>2. lastTotalCalls = Len(seen) /\ pendingNew = 0 /\ pendingNew <= Len(seen)
    BY <1>1, <1>6 DEF View!Init
  <2>3. FilterState
    BY DEF View!Init, FilterState
  <2> QED
    BY <2>1, <2>2, <2>3 DEF FollowState
<1> QED
  BY <1>5, <1>7, <1>8 DEF ViewInv

\* The user's steps leave the rows alone and select something that is visible.
LEMMA UserStep ==
  ASSUME ViewInv, UNCHANGED View!daemonVars, FollowState', FilterState',
         Selected(selected', View!Visible'),
         mode = "detail" /\ mode' = "detail" => selected' = selected
  PROVE  ViewInv' /\ View!SelectionStays
<1>1. Mirrored'
  BY DEF ViewInv, Mirrored, View!daemonVars, View!IsSession, Once
<1>2. View!TypeOK'
  <2>1. View!Cardinality(Calls) \in Nat /\ Len(seen') <= View!Cardinality(Calls)
    BY <1>1, OnceBounds DEF Mirrored
  <2>2. Len(seen') \in Nat
    BY <1>1, SessionIs DEF Mirrored
  <2> QED
    BY <1>1, <2>1, <2>2 DEF View!TypeOK, Mirrored, FollowState
<1> QED
  BY <1>1, <1>2 DEF ViewInv, View!SelectionStays, Selected, View!daemonVars

\* refresh, and the effect it has.
LEMMA RefreshedStep ==
  ASSUME ViewInv, NEW newRows, View!IsSession(newRows), Once(newRows), Len(newRows) >= Len(seen),
         View!Refreshed(newRows), Mirrored',
         online => \A k \in Calls : View!Has(newRows, k) /\ ~View!Has(seen, k) /\ Len(seen) < HistoryLimit =>
                                      Len(newRows) > Len(seen)
  PROVE  ViewInv' /\ View!SelectionStays
<1> DEFINE v == View!Filtered(newRows, statusFilter, searching)
           new == View!NewCalls(Len(newRows))
<1>1. v \in Seq(Calls)
  BY FilteredCalls
<1>2. Len(seen) \in Nat /\ Len(newRows) \in Nat
  BY SessionIs DEF ViewInv, Mirrored
<1>3. View!Visible' = v
  BY DEF View!Visible, View!Refreshed
<1>4. new \in Nat /\ new = Len(newRows) - Len(seen)
  BY <1>2 DEF ViewInv, FollowState, View!NewCalls
<1>5. /\ seen' = newRows /\ lastTotalCalls' = Len(newRows)
      /\ pendingNew' = IF following THEN pendingNew ELSE pendingNew + new
      /\ selected' = IF new > 0 /\ following THEN View!NewestOf(v) ELSE View!Ensured(selected, v)
      /\ UNCHANGED <<statusFilter, searching, mode, following>>
  BY DEF View!Refreshed
<1> HIDE DEF v, new
<1>6. FollowState' /\ FilterState'
  BY <1>2, <1>4, <1>5 DEF ViewInv, FollowState, FilterState
<1>7. Selected(selected', v)
  BY <1>1, <1>5, NewestIsSelected, EnsuredIsSelected
<1>8. mode = "detail" => selected' = View!Ensured(selected, v)
  BY <1>5 DEF ViewInv, FollowState
<1>9. View!TypeOK'
  <2>1. View!Cardinality(Calls) \in Nat /\ Len(newRows) <= View!Cardinality(Calls)
    BY OnceBounds
  <2> QED
    BY <1>2, <1>5, <1>6, <2>1 DEF View!TypeOK, Mirrored, FollowState
<1>10. mode = "detail" /\ selected' # selected => selected \notin View!Range(v)
  BY <1>1, <1>8, EnsuredIsSelected
<1>11. ASSUME online, View!NewRow, Len(seen) < HistoryLimit
       PROVE  selected' = IF following THEN View!NewestOf(v) ELSE View!Ensured(selected, v)
  <2>1. Len(newRows) > Len(seen)
    BY <1>5, <1>11 DEF View!NewRow
  <2>2. new > 0
    BY <1>2, <1>4, <2>1
  <2> QED
    BY <1>5, <2>2
<1> QED
  BY <1>3, <1>5, <1>6, <1>7, <1>9, <1>10, <1>11 DEF ViewInv, View!SelectionStays, Selected

LEMMA HappensStep ==
  ASSUME ViewInv, NEW k \in Calls, NEW status \in {"running", "done"}, View!Happens(k, status)
  PROVE  ViewInv' /\ View!SelectionStays
<1> DEFINE row == [call |-> k, status |-> status]
<1>1. row \in View!Row /\ row.call = k
  BY DEF View!Row
<1> HIDE DEF row
<1>2. session' = View!Consume(session, row) /\ UNCHANGED online
  BY DEF View!Happens, row
<1>3. View!IsSession(session') /\ Once(session') /\ Len(session') >= Len(session)
  BY <1>1, <1>2, ConsumeIs DEF ViewInv, Mirrored
<1>4. CASE online
  <2>1. View!Refreshed(View!Consume(seen, row))
    BY <1>4 DEF View!Happens, row
  <2>2. seen = session /\ View!IsSession(seen) /\ Once(seen)
    BY <1>4 DEF ViewInv, Mirrored
  <2>3. /\ View!IsSession(View!Consume(seen, row)) /\ Once(View!Consume(seen, row))
        /\ Len(View!Consume(seen, row)) >= Len(seen)
        /\ \A c \in Calls : View!Has(View!Consume(seen, row), c) /\ ~View!Has(seen, c) =>
             (Len(seen) < HistoryLimit => Len(View!Consume(seen, row)) > Len(seen))
    BY <1>1, <2>2, ConsumeIs
  <2>4. seen' = View!Consume(seen, row)
    BY <2>1 DEF View!Refreshed
  <2>5. Mirrored'
    BY <1>2, <1>3, <1>4, <2>2, <2>3, <2>4, SessionIs DEF Mirrored, ViewInv
  <2> QED
    BY <2>1, <2>3, <2>5, RefreshedStep
<1>5. CASE ~online
  <2>1. UNCHANGED <<seen, statusFilter, searching, selected, mode, following, pendingNew, lastTotalCalls>>
    BY <1>5 DEF View!Happens
  <2>2. Mirrored'
    <3>1. Len(seen) \in Nat /\ Len(session) \in Nat /\ Len(session') \in Nat
      BY <1>3, SessionIs DEF ViewInv, Mirrored
    <3>2. Len(seen') <= Len(session')
      BY <1>3, <2>1, <3>1 DEF ViewInv, Mirrored
    <3>3. View!IsSession(seen') /\ Once(seen')
      BY <2>1 DEF ViewInv, Mirrored
    <3>4. online' \in BOOLEAN /\ ~online'
      BY <1>2, <1>5 DEF ViewInv, Mirrored
    <3> QED
      BY <1>3, <3>2, <3>3, <3>4 DEF Mirrored
  <2>3. View!Cardinality(Calls) \in Nat /\ Len(seen) <= View!Cardinality(Calls) /\ Len(seen) \in Nat
    BY OnceBounds, SessionIs DEF ViewInv, Mirrored
  <2>4. View!Visible' = View!Visible
    BY <2>1 DEF View!Visible
  <2>5. View!TypeOK'
    BY <2>1, <2>2, <2>3 DEF ViewInv, Mirrored, FollowState, View!TypeOK
  <2> QED
    BY <2>1, <2>2, <2>4, <2>5 DEF ViewInv, FollowState, FilterState, View!SelectionStays, Selected
<1> QED
  BY <1>4, <1>5 DEF ViewInv, Mirrored

LEMMA ConnectionStep ==
  ASSUME ViewInv, View!ConnectionLost \/ View!Resynchronized
  PROVE  ViewInv' /\ View!SelectionStays
<1>1. CASE View!ConnectionLost
  <2>1. UNCHANGED <<session, seen, statusFilter, searching, selected, mode, following,
                    pendingNew, lastTotalCalls>> /\ online' = FALSE
    BY <1>1 DEF View!ConnectionLost
  <2>2. Mirrored'
    BY <2>1 DEF ViewInv, Mirrored, View!IsSession, Once
  <2>3. View!Cardinality(Calls) \in Nat /\ Len(seen) <= View!Cardinality(Calls) /\ Len(seen) \in Nat
    BY OnceBounds, SessionIs DEF ViewInv, Mirrored
  <2>4. View!Visible' = View!Visible
    BY <2>1 DEF View!Visible
  <2>5. View!TypeOK'
    BY <2>1, <2>2, <2>3 DEF ViewInv, Mirrored, FollowState, View!TypeOK
  <2> QED
    BY <2>1, <2>2, <2>4, <2>5 DEF ViewInv, FollowState, FilterState, View!SelectionStays, Selected
<1>2. CASE View!Resynchronized
  <2>1. ~online /\ online' = TRUE /\ View!Refreshed(session) /\ UNCHANGED session
    BY <1>2 DEF View!Resynchronized
  <2>2. seen' = session
    BY <2>1 DEF View!Refreshed
  <2>3. View!IsSession(session) /\ Once(session) /\ Len(session) >= Len(seen) /\ Len(session) \in Nat
    BY SessionIs DEF ViewInv, Mirrored
  <2>4. Mirrored'
    BY <2>1, <2>2, <2>3 DEF Mirrored
  <2> QED
    BY <2>1, <2>3, <2>4, RefreshedStep
<1> QED
  BY <1>1, <1>2

-----------------------------------------------------------------------------

\* What every step of the user starts from.
LEMMA UserSees ==
  ASSUME ViewInv, UNCHANGED View!daemonVars
  PROVE  /\ View!Visible \in Seq(Calls) /\ View!Visible' \in Seq(Calls)
         /\ View!Visible' = View!Filtered(seen, statusFilter', searching')
         /\ UNCHANGED <<seen, lastTotalCalls>>
<1>1. UNCHANGED <<seen, lastTotalCalls>> /\ View!IsSession(seen)
  BY DEF View!daemonVars, ViewInv, Mirrored
<1>2. View!Visible' = View!Filtered(seen, statusFilter', searching')
  BY <1>1 DEF View!Visible
<1> QED
  BY <1>1, <1>2, FilteredCalls DEF View!Visible

LEMMA MoveStep ==
  ASSUME ViewInv, NEW delta \in {1, -1}, View!Move(delta)
  PROVE  ViewInv' /\ View!SelectionStays
<1> DEFINE at == IF selected = NoCall THEN 1 ELSE CHOOSE i \in DOMAIN View!Visible : View!Visible[i] = selected
           to == IF at + delta < 1 THEN 1
                 ELSE IF at + delta > Len(View!Visible) THEN Len(View!Visible) ELSE at + delta
<1>1. /\ mode = "activity" /\ selected' = IF View!Visible = <<>> THEN NoCall ELSE View!Visible[to]
      /\ UNCHANGED <<View!daemonVars, statusFilter, searching, mode, following, pendingNew>>
  BY DEF View!Move
<1>2. View!Visible \in Seq(Calls) /\ View!Visible' = View!Visible /\ UNCHANGED <<seen, lastTotalCalls>>
  BY <1>1, UserSees DEF View!Visible
<1>3. FollowState' /\ FilterState'
  BY <1>1, <1>2 DEF ViewInv, FollowState, FilterState
<1>4. View!Visible # <<>> => to \in 1..Len(View!Visible)
  <2> SUFFICES ASSUME View!Visible # <<>> PROVE to \in 1..Len(View!Visible)
    OBVIOUS
  <2>1. Len(View!Visible) \in Nat \ {0} /\ DOMAIN View!Visible = 1..Len(View!Visible)
    BY <1>2, VisibleCalls
  <2>2. \E i \in DOMAIN View!Visible : View!Visible[i] = selected
    BY DEF ViewInv, Selected, View!Range
  <2>3. at \in 1..Len(View!Visible)
    BY <2>1, <2>2
  <2> HIDE DEF at
  <2> QED
    BY <2>1, <2>3
<1> HIDE DEF to
<1>5. Selected(selected', View!Visible')
  BY <1>1, <1>2, <1>4, VisibleCalls DEF Selected
<1> QED
  BY <1>1, <1>3, <1>5, UserStep

LEMMA UserSteps ==
  ASSUME ViewInv,
         \/ View!CycleFilter \/ View!SetQuery \/ View!Click \/ View!OpenDetail \/ View!BackToActivity \/ View!ChangeMode
  PROVE  ViewInv' /\ View!SelectionStays
<1>0. /\ mode \in View!Modes /\ following \in BOOLEAN /\ (mode = "detail" => ~following)
      /\ lastTotalCalls = Len(seen) /\ Len(seen) \in Nat
      /\ pendingNew \in Nat /\ pendingNew <= Len(seen) /\ (following => pendingNew = 0)
      /\ statusFilter \in {"all", "running", "done"} /\ searching \in BOOLEAN
  BY SessionIs DEF ViewInv, Mirrored, FollowState, FilterState
<1>1. CASE View!CycleFilter
  <2>1. /\ mode = "activity" /\ statusFilter' \in {"all", "running", "done"}
        /\ selected' = View!NewestOf(View!Filtered(seen, statusFilter', searching))
        /\ UNCHANGED <<View!daemonVars, searching, mode, following, pendingNew>>
    <3> DEFINE i == CHOOSE j \in DOMAIN View!Filters : View!Filters[j] = statusFilter
    <3>1. DOMAIN View!Filters = 1..3 /\ Len(View!Filters) = 3 /\ View!Filters[1] = "all"
          /\ View!Filters[2] = "running" /\ View!Filters[3] = "done"
      BY DEF View!Filters
    <3>2. \E j \in 1..3 : View!Filters[j] = statusFilter
      BY <1>0, <3>1
    <3>3. i \in 1..3
      BY <3>1, <3>2
    <3> HIDE DEF i
    <3>4. View!Filters[(i % 3) + 1] \in {"all", "running", "done"}
      BY <3>1, <3>3
    <3>5. statusFilter' = View!Filters[(i % Len(View!Filters)) + 1]
      BY <1>1 DEF View!CycleFilter, i
    <3> QED
      BY <1>1, <3>1, <3>4, <3>5 DEF View!CycleFilter
  <2>2. View!Visible' \in Seq(Calls) /\ selected' = View!NewestOf(View!Visible') /\ UNCHANGED <<seen, lastTotalCalls>>
    BY <2>1, UserSees
  <2>3. FollowState' /\ FilterState'
    BY <1>0, <2>1, <2>2 DEF FollowState, FilterState
  <2> QED
    BY <2>1, <2>2, <2>3, NewestIsSelected, UserStep
<1>2. CASE View!SetQuery
  <2>1. /\ mode = "search" /\ searching' \in BOOLEAN
        /\ selected' = View!NewestOf(View!Filtered(seen, statusFilter, searching'))
        /\ UNCHANGED <<View!daemonVars, statusFilter, mode, following, pendingNew>>
    BY <1>2 DEF View!SetQuery
  <2>2. View!Visible' \in Seq(Calls) /\ selected' = View!NewestOf(View!Visible') /\ UNCHANGED <<seen, lastTotalCalls>>
    BY <2>1, UserSees
  <2>3. FollowState' /\ FilterState'
    BY <1>0, <2>1, <2>2 DEF FollowState, FilterState
  <2> QED
    BY <2>1, <2>2, <2>3, NewestIsSelected, UserStep
<1>3. CASE View!Click
  <2>1. /\ mode # "detail" /\ selected' \in View!Range(View!Visible)
        /\ UNCHANGED <<View!daemonVars, statusFilter, searching, mode, following, pendingNew>>
    BY <1>3 DEF View!Click
  <2>2. View!Visible \in Seq(Calls) /\ View!Visible' = View!Visible /\ UNCHANGED <<seen, lastTotalCalls>>
    BY <2>1, UserSees DEF View!Visible
  <2>3. FollowState' /\ FilterState'
    BY <1>0, <2>1, <2>2 DEF FollowState, FilterState
  <2>4. Selected(selected', View!Visible')
    BY <2>1, <2>2, VisibleCalls, OnlyCallsAreShown DEF Selected, View!ViewAssumption
  <2> QED
    BY <2>1, <2>3, <2>4, UserStep
<1>4. CASE View!OpenDetail
  <2>1. /\ mode # "detail" /\ mode' = "detail" /\ following' = FALSE /\ pendingNew' = 0
        /\ selected' = selected \/ selected' \in View!Range(View!Visible)
        /\ UNCHANGED <<View!daemonVars, statusFilter, searching>>
    BY <1>4 DEF View!OpenDetail
  <2>2. View!Visible \in Seq(Calls) /\ View!Visible' = View!Visible /\ UNCHANGED <<seen, lastTotalCalls>>
    BY <2>1, UserSees DEF View!Visible
  <2>3. FollowState' /\ FilterState'
    <3>1. mode' \in View!Modes /\ following' \in BOOLEAN /\ ~following' /\ FilterState'
      BY <1>0, <2>1 DEF FilterState, View!Modes
    <3>2. lastTotalCalls' = Len(seen') /\ pendingNew' \in Nat /\ pendingNew' <= Len(seen')
      BY <1>0, <2>1, <2>2
    <3> QED
      BY <3>1, <3>2 DEF FollowState
  <2>4. Selected(selected', View!Visible')
    BY <2>1, <2>2, VisibleCalls, OnlyCallsAreShown DEF Selected, View!ViewAssumption, ViewInv
  <2> QED
    BY <2>1, <2>3, <2>4, UserStep
<1>5. CASE View!BackToActivity
  <2>1. /\ mode' = "activity" /\ following' = TRUE /\ pendingNew' = 0
        /\ selected' = View!NewestOf(View!Visible)
        /\ UNCHANGED <<View!daemonVars, statusFilter, searching>>
    BY <1>5 DEF View!BackToActivity, View!Resumed
  <2>2. View!Visible \in Seq(Calls) /\ View!Visible' = View!Visible /\ UNCHANGED <<seen, lastTotalCalls>>
    BY <2>1, UserSees DEF View!Visible
  <2>3. FollowState' /\ FilterState'
    <3>1. mode' \in View!Modes /\ following' \in BOOLEAN /\ mode' # "detail" /\ FilterState'
      BY <1>0, <2>1 DEF FilterState, View!Modes
    <3>2. lastTotalCalls' = Len(seen') /\ pendingNew' \in Nat /\ pendingNew' <= Len(seen')
      BY <1>0, <2>1, <2>2
    <3> QED
      BY <2>1, <3>1, <3>2 DEF FollowState
  <2> QED
    BY <2>1, <2>2, <2>3, NewestIsSelected, UserStep
<1>6. CASE View!ChangeMode
  <2>1. /\ mode # "detail" /\ mode' \in View!Modes /\ mode' # "detail"
        /\ UNCHANGED <<View!daemonVars, statusFilter, searching, selected, following, pendingNew>>
    BY <1>6 DEF View!ChangeMode, View!Modes
  <2>2. View!Visible' = View!Visible /\ UNCHANGED <<seen, lastTotalCalls>>
    BY <2>1, UserSees DEF View!Visible
  <2>3. FollowState' /\ FilterState'
    BY <1>0, <2>1, <2>2 DEF FollowState, FilterState
  <2> QED
    BY <2>1, <2>2, <2>3, UserStep DEF ViewInv
<1> QED
  BY <1>1, <1>2, <1>3, <1>4, <1>5, <1>6

LEMMA ViewStep == ViewInv /\ [View!Next]_(View!vars) => ViewInv' /\ [View!SelectionStays]_(View!vars)
<1> SUFFICES ASSUME ViewInv, [View!Next]_(View!vars) PROVE ViewInv' /\ [View!SelectionStays]_(View!vars)
  OBVIOUS
<1>1. CASE \E k \in Calls : View!CallStarts(k) \/ View!CallEnds(k)
  BY <1>1, HappensStep DEF View!CallStarts, View!CallEnds
<1>2. CASE View!ConnectionLost \/ View!Resynchronized
  BY <1>2, ConnectionStep
<1>3. CASE View!Move(1) \/ View!Move(-1)
  BY <1>3, MoveStep
<1>4. CASE View!CycleFilter \/ View!SetQuery \/ View!Click \/ View!OpenDetail \/ View!BackToActivity \/ View!ChangeMode
  BY <1>4, UserSteps
<1>5. CASE UNCHANGED View!vars
  <2>1. UNCHANGED <<session, online, seen, statusFilter, searching, selected, mode, following,
                    pendingNew, lastTotalCalls>>
    BY <1>5 DEF View!vars
  <2>2. View!Visible' = View!Visible
    BY <2>1 DEF View!Visible
  <2> QED
    BY <1>5, <2>1, <2>2 DEF ViewInv, Mirrored, FollowState, FilterState, Selected
<1> QED
  BY <1>1, <1>2, <1>3, <1>4, <1>5 DEF View!Next

\* The selection stays with the user, whatever the daemon does meanwhile.
LEMMA ViewKeepsSelection == View!Spec => View!SelectionIsTheUsers
BY ViewInit, ViewStep, PTL DEF View!Spec, View!SelectionIsTheUsers

\* The selection stays with the user, whatever the daemon does meanwhile.
THEOREM SelectionStaysTheUsers == ServiceSpec => SelectionIsTheUsers
  BY ServiceImplementsItsParts, ViewKeepsSelection DEF SelectionIsTheUsers
=============================================================================
