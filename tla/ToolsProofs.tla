------------------------------ MODULE ToolsProofs ------------------------------
(***************************************************************************)
(* Proofs about Tools, for any number of sessions, PIDs, calls and         *)
(* operations on a file, and every tree to search.                         *)
(***************************************************************************)
EXTENDS Tools, QueueLemmas

-----------------------------------------------------------------------------
(***************************************************************************)
(* The processes: the table, the ids and the limits agree with those that  *)
(* there are, although the system hands PIDs out again, and a call that    *)
(* looks a PID up twice is answered about its process.                     *)
(***************************************************************************)

(* The strengthening.  An entry of the table is the latest session of its     *)
(* PID: that is why a session that is named by somebody else's PID is one     *)
(* that came later.                                                           *)
PidsAreKnown == \A s \in 1..born : pid[s] \in Pids

TableIsLatest ==
  \A p \in Pids : table[p] # Nobody =>
    /\ pid[table[p]] = p
    /\ \A t \in 1..born : pid[t] = p => t <= table[p]

CallsAreKnown ==
  \A c \in Calls :
    /\ call[c].stage = "writing" => call[c].key \in 1..born /\ call[c].session = call[c].key
    /\ call[c].session # call[c].key => call[c].key \in 1..born /\ PidTaken(call[c].key)

IInv ==
  /\ TypeOK /\ PidsAreKnown /\ TableIsLatest
  /\ RunningAreListed /\ IdsNameTheirProcess /\ LimitsHold
  /\ CallsAreKnown

-----------------------------------------------------------------------------

\* Nobody is no session.
LEMMA NobodyIsNoSession == TypeOK => Nobody \notin 1..born
  BY ProcessAssumption DEF TypeOK, Sessions

\* Sets of sessions are finite, and subsets of them are not larger.
LEMMA SessionsAreFinite ==
  ASSUME TypeOK, NEW S \in SUBSET (1..born), NEW T \in SUBSET S
  PROVE  /\ IsFiniteSet(S) /\ IsFiniteSet(T)
         /\ Cardinality(S) \in Nat /\ Cardinality(T) \in Nat
         /\ Cardinality(T) <= Cardinality(S)
<1>1. IsFiniteSet(1..born)
  BY FS_Interval DEF TypeOK
<1>2. IsFiniteSet(S)
  BY <1>1, FS_Subset, Zenon
<1>3. IsFiniteSet(T) /\ Cardinality(T) <= Cardinality(S)
  BY <1>2, FS_Subset, Zenon
<1> QED
  BY <1>2, <1>3, FS_CardinalityType

\* What evict does to the table and the ids, whoever is evicted.
LEMMA EvictStep ==
  ASSUME IInv, NEW gone \in SUBSET Listed, Evict(gone), UNCHANGED <<born, pid>>
  PROVE  /\ table' \in [Pids -> (1..born') \cup {Nobody}]
         /\ ids' \subseteq 1..born'
         /\ Listed' = Listed \ gone
         /\ PidsAreKnown' /\ TableIsLatest' /\ IdsNameTheirProcess'
<1> USE DEF IInv, TypeOK, Evict
<1>1. table' \in [Pids -> (1..born') \cup {Nobody}] /\ ids' \subseteq 1..born'
  BY Zenon
<1>2. Listed' = Listed \ gone
  BY NobodyIsNoSession DEF Listed, PidsAreKnown
<1>3. PidsAreKnown'
  BY DEF PidsAreKnown
<1>4. TableIsLatest'
  BY DEF TableIsLatest
<1>5. IdsNameTheirProcess'
  <2>1. Listed' \subseteq ids'
    BY <1>2 DEF IdsNameTheirProcess
  <2>2. \A s \in ids' \ Listed' : PidTaken(s)'
    BY <1>2 DEF IdsNameTheirProcess, PidTaken
  <2> QED
    BY <2>1, <2>2 DEF IdsNameTheirProcess
<1> QED
  BY <1>1, <1>2, <1>3, <1>4, <1>5

\* The same if the sessions are completed ones and no process ends.
LEMMA EvictCompletedStep ==
  ASSUME IInv, NEW gone \in SUBSET Completed, Evict(gone), UNCHANGED <<born, pid, running>>
  PROVE  /\ table' \in [Pids -> (1..born') \cup {Nobody}]
         /\ ids' \subseteq 1..born'
         /\ PidsAreKnown' /\ TableIsLatest' /\ RunningAreListed'
         /\ IdsNameTheirProcess' /\ LimitsHold'
<1>1. gone \in SUBSET Listed
  BY DEF Completed
<1>2. Listed' = Listed \ gone
  BY <1>1, EvictStep
<1>3. RunningAreListed'
  BY <1>2 DEF IInv, RunningAreListed, Evict, Completed
<1>4. LimitsHold'
  <2>1. Completed' \in SUBSET Completed /\ Completed \in SUBSET (1..born)
    BY <1>2 DEF Completed, Listed
  <2>2. Cardinality(Completed') <= Cardinality(Completed)
        /\ Cardinality(Completed) \in Nat /\ Cardinality(Completed') \in Nat
    BY <2>1, SessionsAreFinite DEF IInv
  <2> QED
    BY <2>2, ProcessAssumption DEF IInv, LimitsHold
<1> QED
  BY <1>1, <1>3, <1>4, EvictStep

\* The expired are evicted in most calls.
LEMMA ExpiredAreCompleted == Expired \in SUBSET Completed
  BY DEF Expired

\* A call that does not move keeps what is known of it.
LEMMA CallsKept ==
  ASSUME IInv, UNCHANGED <<born, pid, call>>
  PROVE  CallsAreKnown'
  BY DEF IInv, CallsAreKnown, PidTaken

\* What a PID names is the latest session that had it.
LEMMA NamedIsLatest ==
  ASSUME IInv, NEW t \in 1..born, NEW s, s = NamedByPid(pid[t]), s # Nobody
  PROVE  /\ s \in 1..born
         /\ s # t => PidTaken(t)
<1>1. pid[t] \in Pids /\ s = table[pid[t]]
  BY DEF IInv, PidsAreKnown, NamedByPid
<1>2. s \in 1..born
  BY <1>1 DEF IInv, TypeOK
<1>3. pid[s] = pid[t] /\ t <= s
  BY <1>1 DEF IInv, TableIsLatest
<1> QED
  BY <1>2, <1>3 DEF PidTaken, IInv, TypeOK
-----------------------------------------------------------------------------

LEMMA InitStep == Init => IInv
<1> SUFFICES ASSUME Init PROVE IInv
  OBVIOUS
<1> USE ProcessAssumption DEF Init
<1>1. TypeOK
  BY DEF TypeOK, Terminations, Stages, Quiet, Sessions
<1>2. Listed = {} /\ Completed = {}
  BY DEF Listed, Completed
<1>3. Cardinality({}) = 0
  BY FS_EmptySet
<1>4. PidsAreKnown /\ TableIsLatest /\ RunningAreListed /\ IdsNameTheirProcess
  BY <1>2 DEF PidsAreKnown, TableIsLatest, RunningAreListed, IdsNameTheirProcess
<1>5. LimitsHold
  BY <1>2, <1>3 DEF LimitsHold
<1>6. CallsAreKnown
  BY DEF CallsAreKnown, Quiet
<1> QED
  BY <1>1, <1>4, <1>5, <1>6 DEF IInv

\* A process is started: its session is the latest of its PID, and whoever had the
\* PID before is taken.
LEMMA StartStep ==
  ASSUME IInv, NEW p \in Pids, Start(p)
  PROVE  IInv'
<1> DEFINE new == born + 1
<1>1. /\ born' = new /\ new \in Sessions /\ born \in Nat
      /\ pid \in [Sessions -> Pids \cup {Nobody}]
      /\ pid' = [pid EXCEPT ![new] = p]
      /\ running' = running \cup {new}
      /\ ids' = (ids \ Expired) \cup {new}
      /\ 1..born \subseteq Sessions
      /\ new \notin 1..born /\ 1..new = (1..born) \cup {new}
      /\ Nobody \notin 1..new
  BY ProcessAssumption DEF Start, IInv, TypeOK, Sessions
<1>2. pid'[new] = p /\ \A t \in 1..born : pid'[t] = pid[t]
  BY <1>1
<1>3. /\ table'[p] = new
      /\ \A q \in Pids \ {p} : table'[q] = IF table[q] \in Expired THEN Nobody ELSE table[q]
      /\ table' \in [Pids -> (1..new) \cup {Nobody}]
  BY <1>1 DEF Start, IInv, TypeOK
<1> HIDE DEF new
<1>4. TypeOK'
  <2>1. pid' \in [Sessions -> Pids \cup {Nobody}] /\ running' \subseteq 1..born'
    BY <1>1, Zenon DEF IInv, TypeOK
  <2>2. ids' \subseteq 1..born' /\ born' \in 0..MaxSessions
    <3>1. ids \subseteq 1..born
      BY DEF IInv, TypeOK
    <3>2. ids' \subseteq 1..new
      BY <1>1, <3>1, Zenon
    <3>3. new \in 0..MaxSessions
      BY <1>1, ProcessAssumption DEF Sessions
    <3> QED
      BY <3>2, <3>3, <1>1
  <2>3. call' \in [Calls -> [stage : Stages, key : (1..born') \cup {Nobody},
                             session : (1..born') \cup {Nobody}]]
    <3>1. [stage : Stages, key : (1..born) \cup {Nobody}, session : (1..born) \cup {Nobody}]
          \subseteq [stage : Stages, key : (1..new) \cup {Nobody},
                     session : (1..new) \cup {Nobody}]
      BY <1>1
    <3>2. call' = call
      BY DEF Start
    <3> QED
      BY <3>1, <3>2, <1>1 DEF IInv, TypeOK
  <2>4. clock' \in 0..MaxTime /\ completedAt' \in [Sessions -> 0..MaxTime]
        /\ termination' \in [Sessions -> Terminations]
    BY DEF Start, IInv, TypeOK
  <2> QED
    BY <2>1, <2>2, <2>3, <2>4, <1>1, <1>3 DEF TypeOK
<1>5. PidsAreKnown'
  BY <1>1, <1>2 DEF IInv, PidsAreKnown
<1>6. TableIsLatest'
  <2> SUFFICES ASSUME NEW q \in Pids, table'[q] # Nobody
               PROVE  /\ pid'[table'[q]] = q
                      /\ \A t \in 1..new : pid'[t] = q => t <= table'[q]
    BY <1>1 DEF TableIsLatest
  <2>1. CASE q = p
    BY <2>1, <1>1, <1>2, <1>3 DEF new
  <2>2. CASE q # p
    <3>1. table'[q] = table[q] /\ table[q] \in 1..born
      BY <2>2, <1>3 DEF IInv, TypeOK
    <3>2. pid[table[q]] = q /\ \A t \in 1..born : pid[t] = q => t <= table[q]
      BY <3>1, <1>1 DEF IInv, TableIsLatest
    <3> QED
      BY <2>2, <3>1, <3>2, <1>1, <1>2
  <2> QED
    BY <2>1, <2>2
<1>7. Listed' = {new} \cup {t \in Listed \ Expired : pid[t] # p}
  <2>1. new \in Listed'
    BY <1>1, <1>2, <1>3 DEF Listed
  <2>2. ASSUME NEW t \in 1..born
        PROVE  t \in Listed' <=> t \in Listed \ Expired /\ pid[t] # p
    <3>1. t \in Listed' <=> table'[pid[t]] = t
      BY <1>1, <1>2 DEF Listed
    <3>2. CASE pid[t] = p
      BY <3>1, <3>2, <1>1, <1>3
    <3>3. CASE pid[t] # p
      <4>1. pid[t] \in Pids
        BY DEF IInv, PidsAreKnown
      <4>2. table'[pid[t]] = IF table[pid[t]] \in Expired THEN Nobody ELSE table[pid[t]]
        BY <4>1, <3>3, <1>3
      <4>3. t # Nobody
        BY <1>1
      <4> QED
        BY <3>1, <3>3, <4>2, <4>3 DEF Listed
    <3> QED
      BY <3>2, <3>3
  <2>3. Listed' \subseteq (1..born) \cup {new} /\ Listed \subseteq 1..born
    BY <1>1 DEF Listed
  <2> QED
    BY <2>1, <2>2, <2>3, Zenon
<1>8. RunningAreListed'
  <2>1. \A t \in running : pid[t] # p
    BY DEF Start
  <2>2. running \cap Expired = {}
    BY DEF Expired, Completed
  <2> QED
    BY <2>1, <2>2, <1>1, <1>7 DEF IInv, RunningAreListed
<1>9. IdsNameTheirProcess'
  <2>1. Listed' \subseteq ids'
    BY <1>1, <1>7 DEF IInv, IdsNameTheirProcess
  <2>2. ASSUME NEW t \in ids' \ Listed'
        PROVE  PidTaken(t)'
    <3>1. t \in ids \ Expired /\ t \in 1..born
      BY <1>1, <1>7 DEF IInv, TypeOK
    <3>2. CASE pid[t] = p
      BY <3>1, <3>2, <1>1, <1>2 DEF PidTaken, new
    <3>3. CASE pid[t] # p
      <4>1. PidTaken(t)
        BY <3>1, <3>3, <1>7 DEF IInv, IdsNameTheirProcess
      <4> QED
        BY <4>1, <3>1, <1>1, <1>2 DEF PidTaken
    <3> QED
      BY <3>2, <3>3
  <2> QED
    BY <2>1, <2>2 DEF IdsNameTheirProcess
<1>10. LimitsHold'
  <2>1. running \in SUBSET (1..born) /\ new \notin running /\ Listed \cap running = running
    BY <1>1, Zenon DEF IInv, TypeOK, RunningAreListed
  <2>2. IsFiniteSet(running) /\ Cardinality(running) \in Nat
    BY <2>1, SessionsAreFinite DEF IInv
  <2>3. Cardinality(running') = Cardinality(running) + 1
    BY <2>1, <2>2, <1>1, FS_AddElement, Zenon
  <2>4. Cardinality(running) < MaxConcurrent
    BY <2>1, Zenon DEF Start
  <2>5. Completed' \in SUBSET Completed /\ Completed \in SUBSET (1..born)
    BY <1>1, <1>7 DEF Completed, Listed
  <2>6. Cardinality(Completed') <= Cardinality(Completed)
        /\ Cardinality(Completed) \in Nat /\ Cardinality(Completed') \in Nat
    BY <2>5, SessionsAreFinite DEF IInv
  <2> QED
    BY <2>2, <2>3, <2>4, <2>6, ProcessAssumption DEF IInv, LimitsHold
<1>11. CallsAreKnown'
  <2>1. call' = call
    BY DEF Start
  <2>2. ASSUME NEW t \in 1..born, PidTaken(t) PROVE PidTaken(t)'
    BY <2>2, <1>1, <1>2 DEF PidTaken
  <2> QED
    BY <2>1, <2>2, <1>1 DEF IInv, CallsAreKnown
<1> QED
  BY <1>4, <1>5, <1>6, <1>8, <1>9, <1>10, <1>11 DEF IInv

\* A process ends: as many of the completed sessions go as are too many.
LEMMA ExitStep ==
  ASSUME IInv, NEW s \in 1..born, Exit(s)
  PROVE  IInv'
<1> DEFINE all == Completed \cup {s}
           surplus == Cardinality(all) - MaxRetained
           when == [completedAt EXCEPT ![s] = clock]
<1>1. PICK old \in OldestOf(all, IF surplus > 0 THEN surplus ELSE 0, when) :
        LET gone == IF Ttl = 0 THEN old \cup {s} ELSE old IN
        /\ table' = [p \in Pids |-> IF table[p] \in gone THEN Nobody ELSE table[p]]
        /\ ids' = ids \ gone
  BY DEF Exit
<1> DEFINE gone == IF Ttl = 0 THEN old \cup {s} ELSE old
<1>2. /\ s \in running /\ running' = running \ {s}
      /\ UNCHANGED <<clock, born, pid, termination, call>>
      /\ completedAt' = when
  BY DEF Exit
<1>3. /\ old \in SUBSET all
      /\ Cardinality(old) = IF surplus > 0 THEN surplus ELSE 0
  BY <1>1 DEF OldestOf
<1>4. s \in Listed
  BY <1>2 DEF IInv, RunningAreListed
<1>5. gone \in SUBSET all /\ all \in SUBSET Listed /\ Listed \in SUBSET (1..born)
  BY <1>3, <1>4 DEF Completed, Listed
<1>6. Evict(gone)
  BY <1>1 DEF Evict
<1> HIDE DEF gone
<1>7. /\ table' \in [Pids -> (1..born') \cup {Nobody}]
      /\ ids' \subseteq 1..born'
      /\ Listed' = Listed \ gone
      /\ PidsAreKnown' /\ TableIsLatest' /\ IdsNameTheirProcess'
  BY <1>2, <1>5, <1>6, EvictStep
<1>8. TypeOK'
  BY <1>2, <1>7, Zenon DEF IInv, TypeOK
<1>9. RunningAreListed'
  BY <1>2, <1>5, <1>6, <1>7 DEF IInv, RunningAreListed, Completed, Evict
<1>10. LimitsHold'
  <2>1. Completed' \in SUBSET (all \ old)
    <3>1. old \subseteq gone
      BY DEF gone
    <3> QED
      BY <1>2, <1>7, <3>1 DEF Completed
  <2>2. IsFiniteSet(all) /\ IsFiniteSet(old) /\ Cardinality(all) \in Nat
        /\ Cardinality(old) \in Nat
    BY <1>3, <1>5, SessionsAreFinite DEF IInv
  <2>3. Cardinality(all \ old) = Cardinality(all) - Cardinality(old)
    BY <2>2, <1>3, FS_Difference, all \cap old = old, ZenonT(30)
  <2>4. Cardinality(Completed') <= Cardinality(all \ old) /\ Cardinality(Completed') \in Nat
        /\ Cardinality(all \ old) \in Nat
    BY <2>1, <1>5, SessionsAreFinite DEF IInv
  <2>5. Cardinality(Completed') <= MaxRetained
    BY <2>2, <2>3, <2>4, <1>3, ProcessAssumption
  <2>6. running' \in SUBSET running /\ running \in SUBSET (1..born)
    BY <1>2 DEF IInv, TypeOK
  <2>7. Cardinality(running') <= Cardinality(running)
        /\ Cardinality(running) \in Nat /\ Cardinality(running') \in Nat
    BY <2>6, SessionsAreFinite DEF IInv
  <2> QED
    BY <2>5, <2>7, ProcessAssumption DEF IInv, LimitsHold
<1> QED
  BY <1>2, <1>7, <1>8, <1>9, <1>10, CallsKept DEF IInv

\* The steps that evict completed sessions and move no call.
LEMMA EvictionsStep ==
  ASSUME IInv, Sweep \/ \E s \in 1..born : EvictionTimer(s)
  PROVE  IInv'
<1>1. PICK gone \in SUBSET Completed : Evict(gone)
  <2>1. CASE Sweep
    BY <2>1, ExpiredAreCompleted DEF Sweep
  <2>2. ASSUME NEW s \in 1..born, EvictionTimer(s)
        PROVE  {s} \cap Listed \in SUBSET Completed /\ Evict({s} \cap Listed)
    BY <2>2 DEF EvictionTimer, Exited, Completed
  <2> QED
    BY <2>1, <2>2, Zenon
<1>2. UNCHANGED <<clock, sessionVars, call>>
  BY Zenon DEF Sweep, EvictionTimer
<1>3. UNCHANGED <<born, pid, running>> /\ UNCHANGED <<born, pid, call>>
  BY <1>2 DEF sessionVars
<1>4. TypeOK'
  BY <1>1, <1>2, <1>3, EvictCompletedStep DEF IInv, TypeOK, sessionVars
<1> QED
  BY <1>1, <1>3, <1>4, EvictCompletedStep, CallsKept DEF IInv

\* The types of a termination, and that nothing else changes with it.
LEMMA TerminationTypes ==
  ASSUME TypeOK, NEW s \in 1..born, Terminate(s)
  PROVE  termination' \in [Sessions -> Terminations]
  BY DEF TypeOK, Terminate, Terminations

\* The steps of the terminations and of the clock.
LEMMA TimersStep ==
  ASSUME IInv,
         Tick \/ \E s \in 1..born : TimeoutTimer(s) \/ GraceOver(s) \/ TerminationOver(s)
  PROVE  IInv'
<1>1. UNCHANGED <<born, pid, running, completedAt, table, ids, call>>
  BY DEF Tick, TimeoutTimer, GraceOver, TerminationOver, sessionVars, tableVars
<1>2. termination' \in [Sessions -> Terminations]
  BY TerminationTypes
  DEF IInv, TypeOK, Tick, TimeoutTimer, GraceOver, TerminationOver, Terminations, sessionVars
<1>3. clock' \in 0..MaxTime
  BY ProcessAssumption DEF IInv, TypeOK, Tick, TimeoutTimer, GraceOver, TerminationOver
<1>4. TypeOK'
  BY <1>1, <1>2, <1>3 DEF IInv, TypeOK
<1>5. Listed' = Listed /\ Completed' = Completed
  BY <1>1 DEF Listed, Completed
<1>6. PidsAreKnown' /\ TableIsLatest' /\ RunningAreListed' /\ LimitsHold'
  BY <1>1, <1>5 DEF IInv, PidsAreKnown, TableIsLatest, RunningAreListed, LimitsHold
<1>7. IdsNameTheirProcess'
  BY <1>1, <1>5 DEF IInv, IdsNameTheirProcess, PidTaken
<1> QED
  BY <1>1, <1>4, <1>6, <1>7, CallsKept DEF IInv

\* A call goes on: what it does and about whom is known.
LEMMA CallMoves ==
  ASSUME IInv, NEW c \in Calls, UNCHANGED <<born, pid>>,
         \/ Returns(c)
         \/ \E reached \in Stages, key \in 1..born, s \in 1..born :
              /\ Becomes(c, reached, key, s)
              /\ reached = "writing" => s = key
              /\ s # key => PidTaken(key)
  PROVE  /\ call' \in [Calls -> [stage : Stages, key : (1..born') \cup {Nobody},
                                 session : (1..born') \cup {Nobody}]]
         /\ CallsAreKnown'
<1>1. call' \in [Calls -> [stage : Stages, key : (1..born') \cup {Nobody},
                           session : (1..born') \cup {Nobody}]]
  BY DEF IInv, TypeOK, Returns, Becomes, Quiet, Stages
<1>2. ASSUME NEW d \in Calls \ {c}
      PROVE  call'[d] = call[d]
  BY DEF Returns, Becomes, IInv, TypeOK
<1>3. /\ call'[c].stage = "writing" =>
           call'[c].key \in 1..born /\ call'[c].session = call'[c].key
      /\ call'[c].session # call'[c].key => call'[c].key \in 1..born /\ PidTaken(call'[c].key)
  <2>1. CASE Returns(c)
    BY <2>1 DEF Returns, Quiet, IInv, TypeOK
  <2>2. ASSUME NEW reached \in Stages, NEW key \in 1..born, NEW s \in 1..born,
               Becomes(c, reached, key, s), reached = "writing" => s = key,
               s # key => PidTaken(key)
        PROVE  <1>3!1 /\ <1>3!2
    <3>1. call'[c] = [stage |-> reached, key |-> key, session |-> s]
      BY <2>2 DEF Becomes, IInv, TypeOK
    <3> QED
      BY <2>2, <3>1
  <2> QED
    BY <2>1, <2>2
<1>4. CallsAreKnown'
  BY <1>2, <1>3 DEF IInv, CallsAreKnown, PidTaken
<1> QED
  BY <1>1, <1>4

\* Where every call begins that looks something up.
LEMMA LookupStep ==
  ASSUME IInv, Evict(Expired), UNCHANGED <<clock, born, pid, running, completedAt>>,
         termination' \in [Sessions -> Terminations],
         call' \in [Calls -> [stage : Stages, key : (1..born') \cup {Nobody},
                              session : (1..born') \cup {Nobody}]],
         CallsAreKnown'
  PROVE  IInv'
<1>1. /\ table' \in [Pids -> (1..born') \cup {Nobody}]
      /\ ids' \subseteq 1..born'
      /\ PidsAreKnown' /\ TableIsLatest' /\ RunningAreListed'
      /\ IdsNameTheirProcess' /\ LimitsHold'
  BY EvictCompletedStep, ExpiredAreCompleted
<1>2. TypeOK'
  BY <1>1 DEF IInv, TypeOK
<1> QED
  BY <1>1, <1>2 DEF IInv

\* A PID names a session or nobody.
LEMMA NamedByPidType ==
  ASSUME IInv, NEW p \in Pids
  PROVE  NamedByPid(p) \in (1..born) \cup {Nobody}
  BY DEF NamedByPid, IInv, TypeOK

LEMMA ReadStep ==
  ASSUME IInv, NEW c \in Calls, NEW k \in Pids \cup (1..born), Read(c, k)
  PROVE  IInv'
<1>1. PICK s : /\ s = IF k \in Pids THEN NamedByPid(k) ELSE NamedById(k)
               /\ s # Nobody
               /\ Becomes(c, "reading", IF k \in Pids THEN s ELSE k, s)
  BY DEF Read
<1>2. Evict(Expired) /\ UNCHANGED <<clock, born, pid, running, completedAt, termination>>
  BY DEF Read, sessionVars
<1>3. \E key \in 1..born : /\ s \in 1..born
                           /\ Becomes(c, "reading", key, s)
                           /\ s # key => PidTaken(key)
  <2>1. CASE k \in Pids
    BY <2>1, <1>1, NamedByPidType
  <2>2. CASE k \notin Pids
    <3>1. k \in 1..born /\ s = NamedByPid(pid[k])
      BY <2>2, <1>1 DEF NamedById
    <3> QED
      BY <2>2, <3>1, <1>1, NamedIsLatest, Zenon
  <2> QED
    BY <2>1, <2>2
<1>4. /\ call' \in [Calls -> [stage : Stages, key : (1..born') \cup {Nobody},
                              session : (1..born') \cup {Nobody}]]
      /\ CallsAreKnown'
  BY <1>2, <1>3, CallMoves DEF Stages
<1>5. termination' \in [Sessions -> Terminations]
  BY <1>2 DEF IInv, TypeOK
<1> QED
  BY <1>2, <1>4, <1>5, LookupStep

\* interact and terminate: the key is what was looked up.
LEMMA AskStep ==
  ASSUME IInv, NEW c \in Calls, NEW p \in Pids, Interact(c, p) \/ AskTermination(c, p)
  PROVE  IInv'
<1>1. PICK s : s = NamedByPid(p)
  OBVIOUS
<1>2. s \in 1..born
  BY <1>1, NamedByPidType, Zenon DEF Interact, AskTermination, IInv, TypeOK
<1>3. Evict(Expired) /\ UNCHANGED <<clock, born, pid, running, completedAt>>
  BY DEF Interact, AskTermination, sessionVars
<1>4. \E reached \in Stages : Becomes(c, reached, s, s)
  BY <1>1 DEF Interact, AskTermination, Stages
<1>5. /\ call' \in [Calls -> [stage : Stages, key : (1..born') \cup {Nobody},
                              session : (1..born') \cup {Nobody}]]
      /\ CallsAreKnown'
  BY <1>2, <1>3, <1>4, CallMoves
<1>6. termination' \in [Sessions -> Terminations]
  BY <1>1, <1>2, TerminationTypes DEF IInv, TypeOK, Interact, AskTermination, sessionVars
<1> QED
  BY <1>3, <1>5, <1>6, LookupStep

\* The PID is looked up a second time: what it names by now came later.
LEMMA WrittenStep ==
  ASSUME IInv, NEW c \in Calls, Written(c)
  PROVE  IInv'
<1>1. call[c].key \in 1..born /\ call[c].session = call[c].key
  BY DEF Written, IInv, CallsAreKnown
<1>2. PICK s : /\ s = NamedByPid(pid[call[c].key])
               /\ IF s = Nobody THEN Returns(c) ELSE Becomes(c, "reading", call[c].key, s)
  BY <1>1 DEF Written
<1>3. Evict(Expired) /\ UNCHANGED <<clock, born, pid, running, completedAt, termination>>
  BY DEF Written, sessionVars
<1>4. s # Nobody => s \in 1..born /\ (s # call[c].key => PidTaken(call[c].key))
  BY <1>1, <1>2, NamedIsLatest
<1>5. /\ call' \in [Calls -> [stage : Stages, key : (1..born') \cup {Nobody},
                              session : (1..born') \cup {Nobody}]]
      /\ CallsAreKnown'
  BY <1>1, <1>2, <1>3, <1>4, CallMoves DEF Stages
<1>6. termination' \in [Sessions -> Terminations]
  BY <1>3 DEF IInv, TypeOK
<1> QED
  BY <1>3, <1>5, <1>6, LookupStep

LEMMA ReturnStep ==
  ASSUME IInv, NEW c \in Calls, WriteFails(c) \/ Answer(c)
  PROVE  IInv'
<1>1. Returns(c) /\ UNCHANGED <<clock, born, pid, running, completedAt, termination, table, ids>>
  BY DEF WriteFails, Answer, sessionVars, tableVars
<1>2. /\ call' \in [Calls -> [stage : Stages, key : (1..born') \cup {Nobody},
                              session : (1..born') \cup {Nobody}]]
      /\ CallsAreKnown'
  BY <1>1, CallMoves
<1>3. TypeOK'
  BY <1>1, <1>2 DEF IInv, TypeOK
<1>4. Listed' = Listed /\ Completed' = Completed
  BY <1>1 DEF Listed, Completed
<1>5. PidsAreKnown' /\ TableIsLatest' /\ RunningAreListed' /\ LimitsHold'
  BY <1>1, <1>4 DEF IInv, PidsAreKnown, TableIsLatest, RunningAreListed, LimitsHold
<1>6. IdsNameTheirProcess'
  BY <1>1, <1>4 DEF IInv, IdsNameTheirProcess, PidTaken
<1> QED
  BY <1>2, <1>3, <1>5, <1>6 DEF IInv

LEMMA StutterStep == IInv /\ UNCHANGED vars => IInv'
<1> SUFFICES ASSUME IInv, UNCHANGED vars PROVE IInv'
  OBVIOUS
<1>1. UNCHANGED <<clock, born, pid, running, completedAt, table, ids, termination, call>>
  BY DEF vars
<1>2. TypeOK' /\ Listed' = Listed /\ Completed' = Completed
  BY <1>1 DEF IInv, TypeOK, Listed, Completed
<1>3. PidsAreKnown' /\ TableIsLatest' /\ RunningAreListed' /\ LimitsHold'
  BY <1>1, <1>2 DEF IInv, PidsAreKnown, TableIsLatest, RunningAreListed, LimitsHold
<1>4. IdsNameTheirProcess'
  BY <1>1, <1>2 DEF IInv, IdsNameTheirProcess, PidTaken
<1> QED
  BY <1>1, <1>2, <1>3, <1>4, CallsKept DEF IInv

LEMMA NextStep == IInv /\ [Next]_vars => IInv'
<1> SUFFICES ASSUME IInv, Next PROVE IInv'
  BY StutterStep
<1>1. CASE \E p \in Pids : Start(p)
  BY <1>1, StartStep
<1>2. CASE Sweep \/ \E s \in 1..born : EvictionTimer(s)
  BY <1>2, EvictionsStep
<1>3. CASE \E s \in 1..born : Exit(s)
  BY <1>3, ExitStep
<1>4. CASE Tick \/ \E s \in 1..born : TimeoutTimer(s) \/ GraceOver(s) \/ TerminationOver(s)
  BY <1>4, TimersStep
<1>5. CASE \E c \in Calls : \E p \in Pids : Interact(c, p) \/ AskTermination(c, p)
  BY <1>5, AskStep
<1>6. CASE \E c \in Calls : \E k \in Pids \cup (1..born) : Read(c, k)
  BY <1>6, ReadStep
<1>7. CASE \E c \in Calls : Written(c) \/ WriteFails(c) \/ Answer(c)
  BY <1>7, WrittenStep, ReturnStep
<1> QED
  BY <1>1, <1>2, <1>3, <1>4, <1>5, <1>6, <1>7 DEF Next

-----------------------------------------------------------------------------
\* The strengthening holds in every reachable state.
THEOREM ProcessInvariant == Spec => []IInv
  BY InitStep, NextStep, PTL DEF Spec

\* However PIDs are handed out again and sessions are evicted, every process that lives
\* is found by its PID and by its id, the ids are the sessions of the table but for those
\* whose PID was handed out again, and the limits hold.
THEOREM TableCorrect == Spec => []TableIsSound
<1>1. IInv => TableIsSound
  BY DEF IInv, TableIsSound
<1> QED
  BY <1>1, ProcessInvariant, PTL

\* A call that looks its PID up again after the write is answered about its own process,
\* or its PID was given to a later one.
THEOREM CallsAnswerTheirProcess == Spec => []AnswersItsProcess
<1>1. IInv => AnswersItsProcess
  BY DEF IInv, CallsAreKnown, AnswersItsProcess
<1> QED
  BY <1>1, ProcessInvariant, PTL

-----------------------------------------------------------------------------
\* No session was completed in the future.
CompletedBefore == \A s \in Sessions : completedAt[s] <= clock

LEMMA CompletedBeforeStep == IInv /\ CompletedBefore /\ [Next]_vars => CompletedBefore'
<1> SUFFICES ASSUME IInv, CompletedBefore, [Next]_vars PROVE CompletedBefore'
  OBVIOUS
<1>1. clock \in Nat /\ completedAt \in [Sessions -> Nat]
  BY ProcessAssumption DEF IInv, TypeOK
<1>2. CASE UNCHANGED <<clock, completedAt>>
  BY <1>2 DEF CompletedBefore
<1>3. CASE clock' = clock + 1 /\ UNCHANGED completedAt
  BY <1>1, <1>3 DEF CompletedBefore
<1>4. CASE \E s \in 1..born : completedAt' = [completedAt EXCEPT ![s] = clock] /\ UNCHANGED clock
  <2>1. PICK s \in 1..born : completedAt' = [completedAt EXCEPT ![s] = clock] /\ clock' = clock
    BY <1>4, Zenon
  <2>2. ASSUME NEW t \in Sessions PROVE completedAt'[t] <= clock'
    <3>1. completedAt'[t] = IF t = s THEN clock ELSE completedAt[t]
      BY <1>1, <2>1
    <3>2. completedAt[t] <= clock
      BY DEF CompletedBefore
    <3> QED
      BY <1>1, <2>1, <3>1, <3>2
  <2> QED
    BY <2>2 DEF CompletedBefore
<1>5. CASE UNCHANGED vars
  BY <1>2, <1>5 DEF vars
<1>6. CASE \E p \in Pids : Start(p)
  BY <1>2, <1>6 DEF Start
<1>7. CASE Sweep
  BY <1>2, <1>7 DEF Sweep, sessionVars
<1>8. CASE Tick
  BY <1>3, <1>8 DEF Tick, sessionVars
<1>9. CASE \E s \in 1..born : Exit(s)
  BY <1>4, <1>9, Zenon DEF Exit
<1>10. CASE \E s \in 1..born : EvictionTimer(s) \/ TimeoutTimer(s) \/ GraceOver(s) \/ TerminationOver(s)
  BY <1>2, <1>10 DEF EvictionTimer, TimeoutTimer, GraceOver, TerminationOver, sessionVars
<1>11. CASE \E c \in Calls : Written(c) \/ WriteFails(c) \/ Answer(c)
  BY <1>2, <1>11 DEF Written, WriteFails, Answer, sessionVars
<1>13. CASE \E c \in Calls : \E p \in Pids : Interact(c, p) \/ AskTermination(c, p)
  BY <1>2, <1>13 DEF Interact, AskTermination, sessionVars
<1>14. CASE \E c \in Calls : \E k \in Pids \cup (1..born) : Read(c, k)
  BY <1>2, <1>14 DEF Read, sessionVars
<1>12. CASE Next
  BY <1>12, <1>6, <1>7, <1>8, <1>9, <1>10, <1>11, <1>13, <1>14 DEF Next
<1> QED
  BY <1>5, <1>12

\* Whoever is evicted when its time is over is evicted as promised.
LEMMA EvictingTheExpired ==
  ASSUME IInv, NEW gone \in SUBSET Completed, \A s \in gone : clock - completedAt[s] >= Ttl,
         Evict(gone), UNCHANGED <<clock, born, pid, running, completedAt>>
  PROVE  RetainedOrDue
<1>1. Listed' = Listed \ gone
  BY EvictStep DEF Completed
<1>2. \A s \in gone : s \notin running
  BY DEF Completed
<1> QED
  BY <1>1, <1>2 DEF RetainedOrDue

LEMMA StartRetains ==
  ASSUME IInv, NEW p \in Pids, Start(p)
  PROVE  RetainedOrDue
<1> SUFFICES ASSUME NEW s \in Listed \ Listed'
             PROVE  /\ s \notin running'
                    /\ clock - completedAt'[s] >= Ttl \/ (pid'[born'] = pid[s] /\ born' # born)
  BY DEF RetainedOrDue
<1>1. /\ s \in 1..born /\ born \in Nat /\ born + 1 \in Sessions /\ table[pid[s]] = s
      /\ pid[s] \in Pids /\ pid \in [Sessions -> Pids \cup {Nobody}]
  BY DEF Listed, IInv, TypeOK, PidsAreKnown, Start
<1>2. /\ born' = born + 1 /\ pid' = [pid EXCEPT ![born + 1] = p] /\ UNCHANGED <<clock, completedAt>>
      /\ running' = running \cup {born + 1}
      /\ \A t \in running : pid[t] # p
      /\ table' = [q \in Pids |-> CASE q = p -> born + 1
                                    [] q # p /\ table[q] \in Expired -> Nobody
                                    [] OTHER -> table[q]]
  BY DEF Start
<1>3. s # born + 1 /\ s \in Sessions /\ s \in 1..born'
  BY <1>1, <1>2, ProcessAssumption DEF Sessions
<1>4. pid'[s] = pid[s] /\ pid'[born'] = p
  BY <1>1, <1>2, <1>3
<1>5. table'[pid[s]] # s
  BY <1>3, <1>4 DEF Listed
<1>6. CASE pid[s] = p
  BY <1>1, <1>2, <1>3, <1>4, <1>6
<1>7. CASE pid[s] # p
  <2>1. s \in Expired
    BY <1>1, <1>2, <1>5, <1>7
  <2> QED
    BY <1>2, <1>3, <2>1 DEF Expired, Completed
<1> QED
  BY <1>6, <1>7

LEMMA ExitRetains ==
  ASSUME IInv, CompletedBefore, NEW s \in 1..born, Exit(s)
  PROVE  RetainedOrDue
<1> DEFINE all == Completed \cup {s}
           surplus == Cardinality(all) - MaxRetained
           when == [completedAt EXCEPT ![s] = clock]
<1>1. PICK old \in OldestOf(all, IF surplus > 0 THEN surplus ELSE 0, when) :
        LET gone == IF Ttl = 0 THEN old \cup {s} ELSE old IN
        /\ table' = [p \in Pids |-> IF table[p] \in gone THEN Nobody ELSE table[p]]
        /\ ids' = ids \ gone
  BY DEF Exit
<1> DEFINE gone == IF Ttl = 0 THEN old \cup {s} ELSE old
<1>2. /\ s \in running /\ running' = running \ {s}
      /\ UNCHANGED <<clock, born, pid, termination, call>>
      /\ completedAt' = when
  BY DEF Exit
<1>3. /\ old \in SUBSET all
      /\ Cardinality(old) = IF surplus > 0 THEN surplus ELSE 0
      /\ \A x \in old, y \in all \ old : when[x] <= when[y]
  BY <1>1 DEF OldestOf
<1>4. s \in Listed
  BY <1>2 DEF IInv, RunningAreListed
<1>5. gone \in SUBSET all /\ all \in SUBSET Listed /\ Listed \in SUBSET (1..born)
  BY <1>3, <1>4 DEF Completed, Listed
<1>6. Evict(gone)
  BY <1>1 DEF Evict
<1>7. Listed' = Listed \ gone
  <2> HIDE DEF gone
  <2> QED
    BY <1>2, <1>5, <1>6, EvictStep
<1>8. 1..born \subseteq Sessions /\ clock \in Nat /\ completedAt \in [Sessions -> Nat] /\ Ttl \in Nat
  BY ProcessAssumption DEF IInv, TypeOK, Sessions
<1>9. SUFFICES ASSUME NEW x \in gone
      PROVE  /\ x \notin running'
             /\ \/ clock - completedAt'[x] >= Ttl
                \/ /\ Cardinality(Completed') = MaxRetained
                   /\ \A t \in Completed' : completedAt'[x] <= completedAt'[t]
  <2> HIDE DEF gone
  <2> QED
    BY <1>2, <1>5, <1>7 DEF RetainedOrDue
<1>10. x \notin running' /\ x \in 1..born
  BY <1>2, <1>5, Zenon DEF Completed
<1>11. CASE Ttl = 0
  <2>1. completedAt'[x] <= clock /\ completedAt'[x] \in Nat
    BY <1>2, <1>8, <1>10 DEF CompletedBefore
  <2> QED
    BY <1>8, <1>10, <1>11, <2>1
<1>12. CASE Ttl # 0
  <2>1. gone = old
    BY <1>12
  <2>2. Completed' = all \ old
    BY <1>2, <1>4, <1>7, <2>1 DEF Completed
  <2>3. IsFiniteSet(all) /\ IsFiniteSet(old) /\ Cardinality(all) \in Nat /\ Cardinality(old) \in Nat
    BY <1>3, <1>5, SessionsAreFinite DEF IInv
  <2>4. surplus > 0
    <3>1. CASE ~(surplus > 0)
      <4>1. Cardinality(old) = 0
        BY <1>3, <3>1
      <4>2. old = {}
        BY <2>3, <4>1, FS_EmptySet
      <4> QED
        BY <2>1, <4>2
    <3> QED
      BY <3>1
  <2>5. Cardinality(all \ old) = Cardinality(all) - Cardinality(old)
    BY <2>3, <1>3, FS_Difference, all \cap old = old
  <2>6. Cardinality(Completed') = MaxRetained
    BY <1>3, <2>2, <2>3, <2>4, <2>5, ProcessAssumption
  <2>7. \A t \in Completed' : completedAt'[x] <= completedAt'[t]
    BY <1>2, <1>3, <2>1, <2>2
  <2> QED
    BY <1>10, <2>6, <2>7
<1> QED
  BY <1>11, <1>12

LEMMA RetentionStep == IInv /\ CompletedBefore /\ [Next]_vars => [RetainedOrDue]_vars
<1> SUFFICES ASSUME IInv, CompletedBefore, Next PROVE RetainedOrDue
  OBVIOUS
<1>1. CASE \E p \in Pids : Start(p)
  BY <1>1, StartRetains
<1>2. CASE \E s \in 1..born : Exit(s)
  BY <1>2, ExitRetains
<1>3. CASE Evict(Expired) /\ UNCHANGED <<clock, born, pid, running, completedAt>>
  BY <1>3, EvictingTheExpired DEF Expired
<1>4. CASE \E s \in 1..born : EvictionTimer(s)
  <2>1. PICK s \in 1..born : EvictionTimer(s)
    BY <1>4
  <2>2. /\ {s} \cap Listed \in SUBSET Completed /\ clock - completedAt[s] >= Ttl
        /\ Evict({s} \cap Listed) /\ UNCHANGED <<clock, born, pid, running, completedAt>>
    BY <2>1 DEF EvictionTimer, Exited, Completed, sessionVars
  <2> QED
    BY <2>2, EvictingTheExpired
<1>5. CASE UNCHANGED <<table, pid, born>>
  BY <1>5 DEF RetainedOrDue, Listed
<1>6. CASE Sweep
  BY <1>3, <1>6 DEF Sweep, sessionVars
<1>7. CASE Tick
  BY <1>5, <1>7 DEF Tick, sessionVars, tableVars
<1>8. CASE \E s \in 1..born : TimeoutTimer(s) \/ GraceOver(s) \/ TerminationOver(s)
  BY <1>5, <1>8 DEF TimeoutTimer, GraceOver, TerminationOver, tableVars
<1>9. CASE \E c \in Calls : \E p \in Pids : Interact(c, p) \/ AskTermination(c, p)
  BY <1>3, <1>9 DEF Interact, AskTermination, sessionVars
<1>10. CASE \E c \in Calls : \E k \in Pids \cup (1..born) : Read(c, k)
  BY <1>3, <1>10 DEF Read, sessionVars
<1>11. CASE \E c \in Calls : Written(c)
  BY <1>3, <1>11 DEF Written, sessionVars
<1>12. CASE \E c \in Calls : WriteFails(c) \/ Answer(c)
  BY <1>5, <1>12 DEF WriteFails, Answer, sessionVars, tableVars
<1> QED
  BY <1>1, <1>2, <1>4, <1>6, <1>7, <1>8, <1>9, <1>10, <1>11, <1>12 DEF Next

\* A completed session leaves the table only when it may, whichever of the timers, the
\* limit and the hand-out of PIDs comes first.
THEOREM SessionsAreRetained == Spec => RetainedAsPromised
<1>1. Init => CompletedBefore
  BY DEF Init, CompletedBefore
<1> QED
  BY <1>1, CompletedBeforeStep, RetentionStep, ProcessInvariant, PTL DEF Spec, RetainedAsPromised

-----------------------------------------------------------------------------
(***************************************************************************)
(* The composition implements every component: each step of it is a step   *)
(* of one of them and leaves the variables of the others alone.            *)
(***************************************************************************)
LEMMA ToolsStep ==
  ASSUME [ToolsNext]_toolVars
  PROVE  /\ [Next]_processVars /\ [Output!Next]_(Output!vars) /\ [Search!Next]_(Search!vars)
         /\ [Edits!Next]_(Edits!vars) /\ [Paging!Next]_(Paging!vars)
         /\ [Connection!Next]_(Connection!vars)
<1> USE DEF toolVars, processVars, outputVars, searchVars, fileVars, pagingVars, frameVars,
            Output!vars, Search!vars, Edits!vars, Paging!vars, Connection!vars
<1>1. CASE Processes
  BY <1>1 DEF Processes
<1>2. CASE OutputComes
  BY <1>2 DEF OutputComes
<1>3. CASE SearchGoesOn
  BY <1>3 DEF SearchGoesOn
<1>4. CASE FilesChange
  BY <1>4 DEF FilesChange
<1>5. CASE PagesAreRead
  BY <1>5 DEF PagesAreRead
<1>6. CASE FramesCome
  BY <1>6 DEF FramesCome
<1>7. CASE UNCHANGED toolVars
  BY <1>7
<1> QED
  BY <1>1, <1>2, <1>3, <1>4, <1>5, <1>6, <1>7 DEF ToolsNext

\* Whatever tool a behaviour is about, every one behaves as its own specification says.
THEOREM ToolsImplementTheirParts ==
  ToolsSpec => /\ Spec /\ Output!Spec /\ Search!Spec /\ Edits!Spec
               /\ Paging!Spec /\ Connection!Spec
<1>1. ToolsInit => /\ Init /\ Output!Init /\ Search!Init /\ Edits!Init
                   /\ Paging!Init /\ Connection!Init
  BY DEF ToolsInit
<1>2. [ToolsNext]_toolVars =>
        /\ [Next]_vars /\ [Output!Next]_(Output!vars) /\ [Search!Next]_(Search!vars)
        /\ [Edits!Next]_(Edits!vars) /\ [Paging!Next]_(Paging!vars)
        /\ [Connection!Next]_(Connection!vars)
  BY ToolsStep DEF processVars
<1> QED
  BY <1>1, <1>2, PTL DEF ToolsSpec, Spec, Output!Spec, Search!Spec, Edits!Spec,
                         Paging!Spec, Connection!Spec

-----------------------------------------------------------------------------
(***************************************************************************)
(* A search.  Its steps are functions of the job record; those that go on  *)
(* leave a job that runs or is stopped, or one whose task has ended.       *)
(***************************************************************************)
\* A search that goes on: it has not ended by itself.
Fields == {"status", "results", "truncated", "task", "file", "line", "pending", "before"}

IsJob(j) == j = [x \in Fields |-> j[x]]

Steady(j) == /\ IsJob(j) /\ j.status # "none"
             /\ j.status = "completed" => j.task = "ended"

SearchInv ==
  /\ listed => status # "none"
  /\ status = "none" => task = "none"
  /\ task = "none" => stopper # "returned"
  /\ task \in {"walking", "reading"} => status # "completed" /\ stopper # "returned"
  /\ task \in {"none", "walking", "reading", "ended"}

-----------------------------------------------------------------------------

\* Neither a result nor the end of a file makes a search go on that has ended.
LEMMA AddAllSteady ==
  ASSUME NEW j, Steady(j), NEW new
  PROVE  /\ Steady(Search!AddAll(j, new))
         /\ Search!AddAll(j, new).task = j.task /\ Search!AddAll(j, new).status = j.status
BY Zenon DEF Search!AddAll, Steady, IsJob, Fields

LEMMA OnwardSteady ==
  ASSUME NEW j, Steady(j), j.status # "completed"
  PROVE  Steady(Search!Onward(j)) /\ Search!Onward(j).task \in {"walking", "ended"}
BY Zenon DEF Search!Onward, Steady, IsJob, Fields

LEMMA EndedSteady ==
  ASSUME NEW j, Steady(j)
  PROVE  Steady(Search!Ended(j)) /\ Search!Ended(j).task = "ended"
BY Zenon DEF Search!Ended, Steady, IsJob, Fields

LEMMA CloseSteady ==
  ASSUME NEW j, Steady(j), j.status # "completed"
  PROVE  Steady(Search!Close(j)) /\ Search!Close(j).task \in {"walking", "ended"}
<1> DEFINE n == IF options.early THEN Search!Min2(1, Len(j.pending)) ELSE Len(j.pending)
           k == Search!AddAll(j, SubSeq(j.pending, 1, n))
           e == [k EXCEPT !.pending = <<>>]
<1>1. Steady(k) /\ k.status = j.status
  BY AddAllSteady
<1> HIDE DEF k
<1>2. Steady(e) /\ e.status = j.status
  BY <1>1 DEF Steady, IsJob, Fields
<1>3. e = Search!EmitAll(j)
  BY DEF Search!EmitAll, k
<1> HIDE DEF e
<1> QED
  BY <1>2, <1>3, OnwardSteady DEF Search!Close

LEMMA EmitReadySteady ==
  ASSUME NEW j, Steady(j), j.status # "completed"
  PROVE  Steady(Search!EmitReady(j)) /\ Search!EmitReady(j).task \in {j.task, "walking", "ended"}
<1> DEFINE due == Search!HowManyDue(j)
           n == IF options.early THEN Search!Min2(1, due) ELSE due
           room == options.max - Len(j.results)
           emitted == Search!AddAll(j, SubSeq(j.pending, 1, n))
           left == SubSeq(j.pending, Search!Min2(n, room + 1) + 1, Len(j.pending))
           k == [emitted EXCEPT !.pending = left]
<1>1. Steady(emitted) /\ emitted.status = j.status /\ emitted.task = j.task
  <2> HIDE DEF n
  <2> QED
    BY AddAllSteady
<1> HIDE DEF emitted, left
<1>2. Steady(k) /\ k.status = j.status /\ k.task = j.task
  BY <1>1 DEF Steady, IsJob, Fields
<1>3. Search!EmitReady(j) = IF n > room \/ (options.early /\ n > 0) THEN Search!Close(k) ELSE k
  BY Zenon DEF Search!EmitReady, emitted, left
<1> HIDE DEF k, n, room
<1> QED
  BY <1>2, <1>3, CloseSteady

-----------------------------------------------------------------------------

\* The job becomes one that goes on, or has ended.
LEMMA BecomesSteady ==
  ASSUME SearchInv, task \in {"walking", "reading"}, UNCHANGED <<listed, stopper>>,
         NEW j, Steady(j), j.task \in {"walking", "reading", "ended"}, Search!Becomes(j)
  PROVE  SearchInv'
<1>1. status' = j.status /\ task' = j.task
  BY DEF Search!Becomes
<1> QED
  BY <1>1 DEF SearchInv, Steady

LEMMA JobIsSteady ==
  ASSUME SearchInv, task \in {"walking", "reading"}
  PROVE  Steady(Search!Job) /\ Search!Job.task = task /\ Search!Job.status = status /\ status # "completed"
BY DEF SearchInv, Search!Job, Steady, IsJob, Fields

LEMMA WalkStep ==
  ASSUME SearchInv, Search!Walk
  PROVE  SearchInv'
<1>1. /\ task = "walking" /\ UNCHANGED <<listed, stopper>>
      /\ Steady(Search!Job) /\ Search!Job.task = task /\ Search!Job.status = status /\ status # "completed"
  BY JobIsSteady DEF Search!Walk, Search!clientVars
<1> DEFINE late == [Search!Job EXCEPT !.truncated = TRUE]
           opened == [Search!Job EXCEPT !.task = "reading", !.line = 0, !.before = 0, !.pending = <<>>]
           found == IF file \in Named THEN Search!AddAll(Search!Job, <<[file |-> file]>>) ELSE Search!Job
<1>2. Steady(late) /\ Steady(opened) /\ opened.task = "reading"
  BY <1>1, Zenon DEF Steady, IsJob, Fields
<1>3. Steady(found) /\ found.status # "completed"
  BY <1>1, AddAllSteady
<1>4. Search!Becomes(Search!Ended(Search!Job)) \/ Search!Becomes(Search!Ended(late)) \/ Search!Becomes(opened) \/ Search!Becomes(Search!Onward(found))
  BY DEF Search!Walk
<1> HIDE DEF late, opened, found
<1>5. /\ Steady(Search!Ended(Search!Job)) /\ Search!Ended(Search!Job).task = "ended"
      /\ Steady(Search!Ended(late)) /\ Search!Ended(late).task = "ended"
      /\ Steady(Search!Onward(found)) /\ Search!Onward(found).task \in {"walking", "ended"}
  BY <1>1, <1>2, <1>3, EndedSteady, OnwardSteady
<1> QED
  BY <1>1, <1>2, <1>4, <1>5, BecomesSteady

LEMMA LineStep ==
  ASSUME SearchInv, Search!Line
  PROVE  SearchInv'
<1>1. /\ task = "reading" /\ UNCHANGED <<listed, stopper>>
      /\ Steady(Search!Job) /\ Search!Job.task = task /\ Search!Job.status = status /\ status # "completed"
  BY JobIsSteady DEF Search!Line, Search!clientVars
<1> DEFINE late == [Search!Job EXCEPT !.truncated = TRUE]
<1>2. Steady(late) /\ late.status # "completed"
  BY <1>1, Zenon DEF Steady, IsJob, Fields
<1>3. Search!Becomes(Search!Close(Search!Job)) \/ Search!Becomes(Search!Close(late)) \/ Search!ReadLine(line + 1)
  BY DEF Search!Line
<1> HIDE DEF late
<1>4. /\ Steady(Search!Close(Search!Job)) /\ Search!Close(Search!Job).task \in {"walking", "ended"}
      /\ Steady(Search!Close(late)) /\ Search!Close(late).task \in {"walking", "ended"}
  BY <1>1, <1>2, CloseSteady
<1>5. CASE Search!ReadLine(line + 1)
  <2> DEFINE read == Search!LineBehind(line + 1)
             first == Search!EmitReady(read)
             behind == [first EXCEPT !.pending = @ \o Search!MatchesIn(line + 1)]
             second == Search!EmitReady(behind)
             kept == [second EXCEPT !.before = Search!KeptBefore(@ + 1)]
  <2>1. Steady(read) /\ read.task = "reading" /\ read.status # "completed"
    BY <1>1, Zenon DEF Search!LineBehind, Steady, IsJob, Fields
  <2>2. Steady(first) /\ first.task \in {"reading", "walking", "ended"}
    <3> HIDE DEF read
    <3> QED
      BY <2>1, EmitReadySteady
  <2>3. CASE first.task # "reading"
    <3>1. Search!Becomes(first)
      BY <1>5, <2>3 DEF Search!ReadLine
    <3> HIDE DEF first
    <3> QED
      BY <1>1, <2>2, <2>3, <3>1, BecomesSteady
  <2>4. CASE first.task = "reading"
    <3>1. /\ second.task # "reading" => Search!Becomes(second)
          /\ second.task = "reading" => Search!Becomes(Search!Close(second)) \/ Search!Becomes(kept)
      BY <1>5, <2>4 DEF Search!ReadLine
    <3> HIDE DEF first
    <3>2. Steady(behind) /\ behind.task = "reading" /\ behind.status # "completed"
      BY <2>2, <2>4, Zenon DEF Steady, IsJob, Fields
    <3> HIDE DEF behind
    <3>3. Steady(second) /\ second.task \in {"reading", "walking", "ended"}
      BY <3>2, EmitReadySteady
    <3> HIDE DEF second
    <3>4. second.task = "reading" =>
            /\ Steady(Search!Close(second)) /\ Search!Close(second).task \in {"walking", "ended"}
            /\ Steady(kept) /\ kept.task = "reading"
      <4>1. second.task = "reading" => second.status # "completed"
        BY <3>3 DEF Steady
      <4>2. Steady(kept) /\ kept.task = second.task
        BY <3>3 DEF Steady, IsJob, Fields
      <4> HIDE DEF kept
      <4> QED
        BY <3>3, <4>1, <4>2, CloseSteady
    <3> HIDE DEF kept
    <3> QED
      BY <1>1, <3>1, <3>3, <3>4, BecomesSteady
  <2> HIDE DEF first
  <2> QED
    BY <2>3, <2>4
<1> QED
  BY <1>1, <1>3, <1>4, <1>5, BecomesSteady

LEMMA FileEndsStep ==
  ASSUME SearchInv, Search!EndOfFile \/ Search!ReadError
  PROVE  SearchInv'
<1>1. /\ task = "reading" /\ UNCHANGED <<listed, stopper>>
      /\ Steady(Search!Job) /\ Search!Job.task = task /\ Search!Job.status = status /\ status # "completed"
  BY JobIsSteady DEF Search!EndOfFile, Search!ReadError, Search!clientVars
<1>2. Search!Becomes(Search!Close(Search!Job)) \/ Search!Becomes(Search!Onward(Search!Job))
  BY DEF Search!EndOfFile, Search!ReadError
<1>3. /\ Steady(Search!Close(Search!Job)) /\ Search!Close(Search!Job).task \in {"walking", "ended"}
      /\ Steady(Search!Onward(Search!Job)) /\ Search!Onward(Search!Job).task \in {"walking", "ended"}
  BY <1>1, CloseSteady, OnwardSteady
<1> QED
  BY <1>1, <1>2, <1>3, BecomesSteady

NothingIsAdded == stopper = "returned" \/ status = "completed" => results' = results

LEMMA SearchStep == SearchInv /\ [Search!Next]_(Search!vars) => SearchInv' /\ [NothingIsAdded]_(Search!vars)
<1> SUFFICES ASSUME SearchInv, [Search!Next]_(Search!vars) PROVE SearchInv' /\ [NothingIsAdded]_(Search!vars)
  OBVIOUS
<1>1. CASE Search!Walk \/ Search!Line \/ Search!EndOfFile \/ Search!ReadError
  <2>1. task \in {"walking", "reading"}
    BY <1>1 DEF Search!Walk, Search!Line, Search!EndOfFile, Search!ReadError
  <2>2. NothingIsAdded
    BY <2>1 DEF SearchInv, NothingIsAdded
  <2> QED
    BY <1>1, <2>2, WalkStep, LineStep, FileEndsStep
<1>2. CASE \E o \in Search!AllOptions : Search!Start(o)
  BY <1>2 DEF Search!Start, SearchInv, NothingIsAdded, Search!clientVars
<1>3. CASE Search!TimePasses
  BY <1>3 DEF Search!TimePasses, SearchInv, NothingIsAdded, Search!jobVars, Search!clientVars
<1>4. CASE \E n \in PageSizes : Search!GetMore(n)
  BY <1>4 DEF Search!GetMore, SearchInv, NothingIsAdded, Search!jobVars
<1>5. CASE Search!Stop
  BY <1>5 DEF Search!Stop, SearchInv, NothingIsAdded
<1>6. CASE Search!StopReturns
  BY <1>6 DEF Search!StopReturns, SearchInv, NothingIsAdded, Search!jobVars
<1>7. CASE Search!Expire
  BY <1>7 DEF Search!Expire, SearchInv, NothingIsAdded, Search!clientVars
<1>8. CASE UNCHANGED Search!vars
  BY <1>8 DEF Search!vars, SearchInv
<1> QED
  BY <1>1, <1>2, <1>3, <1>4, <1>5, <1>6, <1>7, <1>8 DEF Search!Next

LEMMA SearchesStop == Search!Spec => Search!StoppedIsFinal
<1>1. Search!Init => SearchInv
  BY DEF Search!Init, SearchInv
<1> QED
  BY <1>1, SearchStep, PTL DEF Search!Spec, Search!StoppedIsFinal, NothingIsAdded

\* When stop has returned, or a search has ended by itself, nothing is added.
THEOREM StopEndsASearch == ToolsSpec => StoppedIsFinal
  BY ToolsImplementTheirParts, SearchesStop DEF StoppedIsFinal

-----------------------------------------------------------------------------
(* Several writes, edits, appends and moves of one file: what is at a path    *)
(* that clients use is whole (edit.ts atomicReplace, files.ts writeTextFile). *)
(* Two writes of one millisecond share a temporary file, and then nothing is  *)
(* promised; a collision never goes away, so everything below is said of the  *)
(* states without one, and needs to be kept only by steps that make none.     *)

Contents == Edits!Ops \cup {Base, Rest}
EditsStages == {"idle", "seen", "read", "synced", "open", "full", "ok", "failed"}
TempPaths == Edits!Paths \ {Edits!Target, Edits!Other}

FilesTyped ==
  /\ ms \in 0..MaxMs
  /\ at \in [Edits!Paths -> Edits!Inodes \cup {NoFile}]
  /\ disk \in [Edits!Inodes -> Seq(Contents)]
  /\ stage \in [Edits!Ops -> EditsStages]
  /\ fd \in [Writes \cup Appends -> Edits!Inodes \cup {NoFile}]
  /\ temp \in [Writes -> TempPaths \cup {NoFile}]
  /\ \A w \in Writes : stage[w] # "idle" => temp[w] \in TempPaths
  /\ \A w \in Writes : fd[w] = NoFile <=> stage[w] = "idle"
  /\ \A a \in Appends : stage[a] = "open" => fd[a] \in Edits!Inodes
  /\ seen \in [BlockEdits -> Seq(Contents)]
  /\ base \in [BlockEdits -> Seq(Contents)]
  /\ staged \subseteq BlockEdits

(* An inode that has, or has had, a path that clients use: no step takes that *)
(* from it.                                                                   *)
Published(i) == i = Base \/ i \in Appends \/ (i \in Writes \cup BlockEdits /\ stage[i] = "ok")

(* A content made by operations that were answered with success.              *)
Answered(s) == \A k \in DOMAIN s : s[k] \in Edits!Ops => stage[s[k]] = "ok"

(* A content that begins with m and goes on with what was appended.           *)
GoesOn(s, m) ==
  /\ Len(m) <= Len(s) /\ SubSeq(s, 1, Len(m)) = m
  /\ \A k \in DOMAIN s : k > Len(m) => s[k] \in Appends

OwnsItsInode ==
  \A w \in Writes : /\ fd[w] \in {w, NoFile}
                    /\ stage[w] \in {"open", "full"} => at[temp[w]] = w
                    /\ stage[w] = "open" => disk[w] = <<>>
                    /\ stage[w] = "full" => disk[w] = <<w>>
KeepsWhatItRead ==
  \A e \in BlockEdits :
    /\ stage[e] \in {"read", "synced", "ok"} => Answered(base[e])
    /\ stage[e] = "synced" => disk[e] = base[e] \o <<e>>
PathsArePublished ==
  /\ \A p \in {Edits!Target, Edits!Other} : at[p] # NoFile => Published(at[p])
  /\ \A a \in Appends : fd[a] # NoFile => Published(fd[a])
LeftBehind ==
  \A p \in TempPaths : at[p] # NoFile =>
    \E w \in Writes : temp[w] = p /\ fd[w] = at[p] /\ stage[w] # "ok"
PublishedIsMeant ==
  \A i \in Edits!Inodes : Published(i) => GoesOn(disk[i], Edits!Meant(i)) /\ Answered(disk[i])
StagedIsSynced == \A e \in staged : stage[e] = "synced"

Apart == /\ OwnsItsInode /\ KeepsWhatItRead /\ PathsArePublished
         /\ LeftBehind /\ PublishedIsMeant

FilesInv == FilesTyped /\ StagedIsSynced /\ (~Edits!Collided => Apart)

LEMMA FilesApart ==
  /\ Writes \cap BlockEdits = {} /\ Writes \cap Appends = {} /\ BlockEdits \cap Appends = {}
  /\ Base \notin Writes /\ Base \notin BlockEdits /\ Base \notin Appends
  /\ NoFile \notin Writes /\ NoFile \notin BlockEdits /\ NoFile \notin Appends /\ NoFile # Base
  /\ Base \notin Edits!Ops
  /\ Edits!Target # Edits!Other /\ Edits!Target \in Edits!Paths /\ Edits!Other \in Edits!Paths
  /\ MaxMs \in Nat
  /\ \A t \in 0..MaxMs : Edits!TempAt(t) \in TempPaths
<1>1. \A t \in 0..MaxMs : Edits!TempAt(t) # Edits!Target /\ Edits!TempAt(t) # Edits!Other
  BY DEF Edits!TempAt, Edits!Target, Edits!Other
<1> QED BY <1>1, OperationsAreApart DEF Edits!FileAssumption, Edits!Ops, Edits!Inodes, TempPaths, Edits!Paths, Edits!Target, Edits!Other

LEMMA GoesOnItself ==
  ASSUME NEW S, NEW m \in Seq(S) PROVE GoesOn(m, m)
<1>1. Len(m) \in Nat /\ DOMAIN m = 1..Len(m)
  OBVIOUS
<1>2. SubSeq(m, 1, Len(m)) = m
  OBVIOUS
<1> QED BY <1>1, <1>2 DEF GoesOn

LEMMA GoesOnAppended ==
  ASSUME NEW S, NEW s \in Seq(S), NEW m \in Seq(S), GoesOn(s, m), NEW a \in Appends, a \in S
  PROVE  GoesOn(Append(s, a), m)
<1>1. Len(m) \in Nat /\ Len(s) \in Nat /\ Len(m) <= Len(s) /\ DOMAIN s = 1..Len(s)
  BY DEF GoesOn
<1>2. /\ Append(s, a) \in Seq(S) /\ Len(Append(s, a)) = Len(s) + 1
      /\ \A k \in 1..Len(s) : Append(s, a)[k] = s[k]
      /\ Append(s, a)[Len(s) + 1] = a /\ DOMAIN Append(s, a) = 1..(Len(s) + 1)
  OBVIOUS
<1>3. SubSeq(Append(s, a), 1, Len(m)) = SubSeq(s, 1, Len(m))
  BY <1>1, <1>2
<1>4. ASSUME NEW k \in 1..(Len(s) + 1), k > Len(m) PROVE Append(s, a)[k] \in Appends
  <2>1. CASE k = Len(s) + 1
    BY <2>1, <1>2
  <2>2. CASE k # Len(s) + 1
    <3>1. k \in 1..Len(s)
      BY <2>2, <1>1
    <3> QED BY <3>1, <1>1, <1>2, <1>4 DEF GoesOn
  <2> QED BY <2>1, <2>2
<1> QED BY <1>1, <1>2, <1>3, <1>4 DEF GoesOn

LEMMA FilesTypedInit == Edits!Init => FilesTyped
<1> SUFFICES ASSUME Edits!Init PROVE FilesTyped
  OBVIOUS
<1>1. disk \in [Edits!Inodes -> Seq(Contents)]
  <2>1. <<Base>> \in Seq(Contents) /\ <<>> \in Seq(Contents)
    BY DEF Contents
  <2> QED BY <2>1 DEF Edits!Init
<1>2. at \in [Edits!Paths -> Edits!Inodes \cup {NoFile}]
  BY DEF Edits!Init, Edits!Inodes
<1> QED BY <1>1, <1>2, FilesApart DEF Edits!Init, FilesTyped, EditsStages, Edits!Ops, Edits!Inodes, Contents

LEMMA FilesInvInit == Edits!Init => FilesInv
<1> SUFFICES ASSUME Edits!Init PROVE FilesInv
  OBVIOUS
<1>1. FilesTyped
  BY FilesTypedInit
<1>2. OwnsItsInode /\ KeepsWhatItRead /\ StagedIsSynced
  BY FilesApart DEF Edits!Init, OwnsItsInode, KeepsWhatItRead, StagedIsSynced, Edits!Ops
<1>3. PathsArePublished /\ LeftBehind
  BY FilesApart DEF Edits!Init, PathsArePublished, LeftBehind, Published, TempPaths
<1>4. PublishedIsMeant
  <2> SUFFICES ASSUME NEW i \in Edits!Inodes, Published(i)
               PROVE  GoesOn(disk[i], Edits!Meant(i)) /\ Answered(disk[i])
    BY DEF PublishedIsMeant
  <2>1. CASE i = Base
    <3>1. disk[i] = <<Base>> /\ Edits!Meant(i) = <<Base>>
      BY <2>1, FilesApart DEF Edits!Init, Edits!Meant
    <3>2. <<Base>> \in Seq(Contents)
      BY DEF Contents
    <3>3. GoesOn(<<Base>>, <<Base>>)
      BY <3>2, GoesOnItself, Zenon
    <3> QED BY <3>1, <3>3, FilesApart DEF Answered
  <2>2. CASE i \in Appends
    <3>1. disk[i] = <<>> /\ Edits!Meant(i) = <<>>
      BY <2>2, FilesApart DEF Edits!Init, Edits!Meant
    <3> QED BY <3>1 DEF GoesOn, Answered
  <2> QED BY <2>1, <2>2 DEF Published, Edits!Init, Edits!Ops
<1> QED BY <1>1, <1>2, <1>3, <1>4 DEF FilesInv, Apart

LEMMA FilesTypedStep == FilesTyped /\ [Edits!Next]_(Edits!vars) => FilesTyped'
<1> SUFFICES ASSUME FilesTyped, [Edits!Next]_(Edits!vars) PROVE FilesTyped'
  OBVIOUS
<1> USE FilesApart DEF Edits!To
<1>0. Writes \subseteq Edits!Ops /\ BlockEdits \subseteq Edits!Ops /\ Appends \subseteq Edits!Ops /\ Moves \subseteq Edits!Ops
      /\ Edits!Ops \subseteq Contents /\ Writes \subseteq Edits!Inodes /\ BlockEdits \subseteq Edits!Inodes
      /\ Appends \subseteq Edits!Inodes /\ Edits!Target \in Edits!Paths /\ Rest \in Contents
  BY DEF Edits!Ops, Contents, Edits!Inodes
<1>1. ASSUME NEW w \in Writes, Edits!OpenTemp(w) PROVE FilesTyped'
  <2>1. Edits!TempAt(ms) \in TempPaths /\ Edits!TempAt(ms) \in Edits!Paths
    BY DEF FilesTyped, TempPaths
  <2>2. at[Edits!TempAt(ms)] \in Edits!Inodes \cup {NoFile}
    BY <2>1 DEF FilesTyped
  <2> DEFINE inode == IF at[Edits!TempAt(ms)] = NoFile THEN w ELSE at[Edits!TempAt(ms)]
  <2>3. inode \in Edits!Inodes /\ inode # NoFile
    BY <2>2, <1>0 DEF Edits!Inodes
  <2>4. /\ temp' = [temp EXCEPT ![w] = Edits!TempAt(ms)] /\ fd' = [fd EXCEPT ![w] = inode]
        /\ at' = [at EXCEPT ![Edits!TempAt(ms)] = inode] /\ disk' = [disk EXCEPT ![inode] = <<>>]
        /\ stage' = [stage EXCEPT ![w] = "open"] /\ UNCHANGED <<ms, seen, base, staged>>
    BY <1>1 DEF Edits!OpenTemp
  <2>5. <<>> \in Seq(Contents) /\ w \notin Appends
    OBVIOUS
  <2> HIDE DEF inode
  <2> QED BY <2>1, <2>3, <2>4, <2>5, <1>0 DEF FilesTyped, EditsStages
<1>2. ASSUME NEW w \in Writes, Edits!Fill(w) PROVE FilesTyped'
  <2>1. PICK rest \in {<<>>, <<Rest>>} : disk' = [disk EXCEPT ![fd[w]] = <<w>> \o rest]
    BY <1>2, Zenon DEF Edits!Fill
  <2>2. <<w>> \o rest \in Seq(Contents)
    <3>1. <<w>> \in Seq(Contents) /\ <<>> \in Seq(Contents) /\ <<Rest>> \in Seq(Contents)
      BY <1>0
    <3>2. rest \in Seq(Contents)
      BY <3>1, Zenon
    <3>3. \A s, t \in Seq(Contents) : s \o t \in Seq(Contents)
      OBVIOUS
    <3> QED BY <3>1, <3>2, <3>3
  <2>3. stage' = [stage EXCEPT ![w] = "full"] /\ stage[w] = "open" /\ UNCHANGED <<ms, at, fd, temp, seen, base, staged>>
    BY <1>2 DEF Edits!Fill
  <2> QED BY <2>1, <2>2, <2>3, <1>0 DEF FilesTyped, EditsStages
<1>3. ASSUME NEW w \in Writes, Edits!FillFails(w) PROVE FilesTyped'
  BY <1>3, <1>0 DEF FilesTyped, EditsStages, Edits!FillFails
<1>4. ASSUME NEW w \in Writes, Edits!RenameTemp(w) PROVE FilesTyped'
  <2>1. temp[w] \in Edits!Paths
    BY <1>4, <1>0 DEF FilesTyped, Edits!RenameTemp, TempPaths
  <2> QED BY <1>4, <2>1, <1>0 DEF FilesTyped, EditsStages, Edits!RenameTemp
<1>5. ASSUME NEW w \in Writes, Edits!RenameFails(w) PROVE FilesTyped'
  BY <1>5, <1>0 DEF FilesTyped, EditsStages, Edits!RenameFails, TempPaths
<1>6. ASSUME NEW e \in BlockEdits, Edits!ClientReads(e) PROVE FilesTyped'
  <2>1. disk[at[Edits!Target]] \in Seq(Contents)
    BY <1>6, <1>0 DEF FilesTyped, Edits!ClientReads
  <2> QED BY <1>6, <2>1, <1>0 DEF FilesTyped, EditsStages, Edits!ClientReads
<1>7. ASSUME NEW e \in BlockEdits, Edits!EditReads(e) PROVE FilesTyped'
  <2>1. CASE UNCHANGED base /\ Edits!To(e, "failed")
    BY <1>7, <2>1, <1>0 DEF FilesTyped, EditsStages, Edits!EditReads
  <2>2. CASE at[Edits!Target] # NoFile /\ base' = [base EXCEPT ![e] = disk[at[Edits!Target]]] /\ Edits!To(e, "read")
    <3>1. disk[at[Edits!Target]] \in Seq(Contents)
      BY <2>2, <1>0 DEF FilesTyped
    <3> QED BY <1>7, <2>2, <3>1, <1>0 DEF FilesTyped, EditsStages, Edits!EditReads
  <2> QED BY <1>7, <2>1, <2>2 DEF Edits!EditReads
<1>8. ASSUME NEW e \in BlockEdits, Edits!StageEdit(e) PROVE FilesTyped'
  <2>1. base[e] \o <<e>> \in Seq(Contents)
    BY <1>0 DEF FilesTyped
  <2> QED BY <1>8, <2>1, <1>0 DEF FilesTyped, EditsStages, Edits!StageEdit
<1>9. ASSUME NEW e \in BlockEdits, Edits!RenameEdit(e) PROVE FilesTyped'
  BY <1>9, <1>0 DEF FilesTyped, EditsStages, Edits!RenameEdit
<1>10. ASSUME NEW e \in BlockEdits, Edits!EditFails(e) PROVE FilesTyped'
  BY <1>10, <1>0 DEF FilesTyped, EditsStages, Edits!EditFails
<1>11. ASSUME NEW a \in Appends, Edits!AppendOpens(a) PROVE FilesTyped'
  <2> DEFINE inode == IF at[Edits!Target] = NoFile THEN a ELSE at[Edits!Target]
  <2>1. inode \in Edits!Inodes
    BY <1>0 DEF FilesTyped
  <2>2. /\ fd' = [fd EXCEPT ![a] = inode] /\ at' = [at EXCEPT ![Edits!Target] = inode]
        /\ stage' = [stage EXCEPT ![a] = "open"]
        /\ UNCHANGED <<ms, disk, temp, seen, base, staged>>
    BY <1>11 DEF Edits!AppendOpens
  <2> HIDE DEF inode
  <2> QED BY <2>1, <2>2, <1>0 DEF FilesTyped, EditsStages
<1>12. ASSUME NEW a \in Appends, Edits!AppendWrites(a) PROVE FilesTyped'
  <2>1. CASE disk' = [disk EXCEPT ![fd[a]] = Append(@, a)] /\ Edits!To(a, "ok")
    <3>1. fd[a] \in Edits!Inodes
      BY <1>12 DEF FilesTyped, Edits!AppendWrites
    <3>2. Append(disk[fd[a]], a) \in Seq(Contents)
      BY <3>1, <1>0 DEF FilesTyped
    <3> QED BY <1>12, <2>1, <3>1, <3>2, <1>0 DEF FilesTyped, EditsStages, Edits!AppendWrites
  <2>2. CASE Edits!To(a, "failed") /\ UNCHANGED disk
    BY <1>12, <2>2, <1>0 DEF FilesTyped, EditsStages, Edits!AppendWrites
  <2> QED BY <1>12, <2>1, <2>2 DEF Edits!AppendWrites
<1>13. ASSUME NEW m \in Moves, Edits!MoveAway(m) PROVE FilesTyped'
  <2>1. m \notin Writes /\ m \notin Appends
    BY OperationsAreApart DEF Edits!FileAssumption
  <2>2. \E s \in EditsStages : stage' = [stage EXCEPT ![m] = s]
    BY <1>13 DEF Edits!MoveAway, EditsStages
  <2>3. at' \in [Edits!Paths -> Edits!Inodes \cup {NoFile}]
    <3>1. at[Edits!Target] \in Edits!Inodes \cup {NoFile}
      BY <1>0 DEF FilesTyped
    <3> QED BY <1>13, <3>1 DEF Edits!MoveAway, FilesTyped
  <2>4. UNCHANGED <<ms, disk, fd, temp, seen, base, staged>>
    BY <1>13 DEF Edits!MoveAway
  <2> QED BY <2>1, <2>2, <2>3, <2>4, <1>0 DEF FilesTyped
<1>14. ASSUME Edits!Tick PROVE FilesTyped'
  BY <1>14 DEF FilesTyped, Edits!Tick
<1>15. ASSUME UNCHANGED Edits!vars PROVE FilesTyped'
  BY <1>15 DEF FilesTyped, Edits!vars
<1> QED BY <1>1, <1>2, <1>3, <1>4, <1>5, <1>6, <1>7, <1>8, <1>9, <1>10, <1>11, <1>12, <1>13,
           <1>14, <1>15 DEF Edits!Next

(* What a write has open stays its own, so a collision stays one.             *)
LEMMA CollidedStays == FilesTyped /\ [Edits!Next]_(Edits!vars) /\ Edits!Collided => Edits!Collided'
<1> SUFFICES ASSUME FilesTyped, [Edits!Next]_(Edits!vars) PROVE Edits!Collided => Edits!Collided'
  OBVIOUS
<1>1. \A w \in Writes : fd[w] # NoFile => fd'[w] = fd[w]
  <2>1. ASSUME NEW v \in Writes, Edits!OpenTemp(v), NEW w \in Writes, fd[w] # NoFile
        PROVE  fd'[w] = fd[w]
    BY <2>1 DEF Edits!OpenTemp, FilesTyped
  <2>2. ASSUME NEW a \in Appends, Edits!AppendOpens(a), NEW w \in Writes PROVE fd'[w] = fd[w]
    BY <2>2, FilesApart DEF Edits!AppendOpens, FilesTyped
  <2>3. CASE UNCHANGED fd
    BY <2>3
  <2> QED BY <2>1, <2>2, <2>3 DEF Edits!Next, Edits!vars, Edits!Fill, Edits!FillFails, Edits!RenameTemp, Edits!RenameFails,
             Edits!ClientReads, Edits!EditReads, Edits!StageEdit, Edits!RenameEdit, Edits!EditFails, Edits!AppendWrites,
             Edits!MoveAway, Edits!Tick
<1> QED BY <1>1 DEF Edits!Collided

(* Without a collision a write makes the file that it opens.                  *)
LEMMA OpensItsOwn ==
  ASSUME FilesTyped, LeftBehind, ~Edits!Collided', NEW w \in Writes, Edits!OpenTemp(w)
  PROVE  /\ at[Edits!TempAt(ms)] = NoFile /\ Edits!TempAt(ms) \in TempPaths
         /\ stage[w] = "idle" /\ fd[w] = NoFile
         /\ temp' = [temp EXCEPT ![w] = Edits!TempAt(ms)] /\ fd' = [fd EXCEPT ![w] = w]
         /\ at' = [at EXCEPT ![Edits!TempAt(ms)] = w] /\ disk' = [disk EXCEPT ![w] = <<>>]
         /\ stage' = [stage EXCEPT ![w] = "open"] /\ UNCHANGED <<ms, seen, base, staged>>
<1>1. Edits!TempAt(ms) \in TempPaths
  BY FilesApart DEF FilesTyped
<1>2. fd[w] = NoFile /\ stage[w] = "idle"
  BY DEF FilesTyped, Edits!OpenTemp
<1>3. ASSUME at[Edits!TempAt(ms)] # NoFile PROVE FALSE
  <2>1. PICK v \in Writes : fd[v] = at[Edits!TempAt(ms)]
    BY <1>1, <1>3 DEF LeftBehind
  <2>2. v # w
    BY <2>1, <1>2, <1>3
  <2>3. fd'[w] = at[Edits!TempAt(ms)] /\ fd'[v] = at[Edits!TempAt(ms)]
    BY <2>1, <2>2, <1>3 DEF Edits!OpenTemp, FilesTyped
  <2> QED BY <2>2, <2>3, <1>3 DEF Edits!Collided
<1> QED BY <1>1, <1>2, <1>3, Zenon DEF Edits!OpenTemp, Edits!To

(* What a step without a collision does to what was published, to what is     *)
(* published by it, and to what edits go by.                                  *)
OkStays == \A o \in Edits!Ops : stage[o] = "ok" => stage'[o] = "ok"
OnlyAppended ==
  \A i \in Edits!Inodes : Published(i) =>
    \/ disk'[i] = disk[i]
    \/ \E a \in Appends : disk'[i] = Append(disk[i], a) /\ stage'[a] = "ok"
PublishedByRename ==
  \A i \in Edits!Inodes : Published(i)' /\ ~Published(i) =>
    \/ i \in Writes /\ stage[i] = "full" /\ disk'[i] = disk[i]
    \/ i \in BlockEdits /\ stage[i] = "synced" /\ disk'[i] = disk[i]
OkBaseStays == \A e \in BlockEdits : stage'[e] = "ok" => base'[e] = base[e]
BaseIsRead ==
  \A e \in BlockEdits : stage'[e] \in {"read", "synced", "ok"} =>
    \/ base'[e] = base[e] /\ stage[e] \in {"read", "synced", "ok"}
    \/ at[Edits!Target] # NoFile /\ base'[e] = disk[at[Edits!Target]]
SyncedIsStaged ==
  \A e \in BlockEdits : stage'[e] = "synced" =>
    /\ base'[e] = base[e]
    /\ \/ disk'[e] = base[e] \o <<e>>
       \/ stage[e] = "synced" /\ disk'[e] = disk[e]

Effects == /\ OkStays /\ OnlyAppended /\ PublishedByRename /\ OkBaseStays
           /\ BaseIsRead /\ SyncedIsStaged

LEMMA StepHasEffects ==
  FilesTyped /\ Apart /\ ~Edits!Collided' /\ [Edits!Next]_(Edits!vars) => Effects
<1> SUFFICES ASSUME FilesTyped, Apart, ~Edits!Collided', [Edits!Next]_(Edits!vars) PROVE Effects
  OBVIOUS
<1> USE FilesApart DEF Edits!To
<1>0. /\ Writes \subseteq Edits!Ops /\ BlockEdits \subseteq Edits!Ops /\ Appends \subseteq Edits!Ops /\ Moves \subseteq Edits!Ops
      /\ Writes \subseteq Edits!Inodes /\ BlockEdits \subseteq Edits!Inodes /\ Appends \subseteq Edits!Inodes
      /\ \A m \in Moves : m \notin Writes /\ m \notin BlockEdits
  BY OperationsAreApart DEF Edits!Ops, Edits!Inodes, Edits!FileAssumption
<1>a. /\ stage \in [Edits!Ops -> EditsStages] /\ disk \in [Edits!Inodes -> Seq(Contents)] /\ DOMAIN base = BlockEdits
  BY DEF FilesTyped
<1>1. ASSUME NEW w \in Writes, Edits!OpenTemp(w) PROVE Effects
  <2>1. /\ stage[w] = "idle" /\ disk' = [disk EXCEPT ![w] = <<>>]
        /\ stage' = [stage EXCEPT ![w] = "open"] /\ base' = base
    BY <1>1, OpensItsOwn DEF Apart
  <2> QED BY <2>1, <1>0, <1>a DEF Effects, OkStays, OnlyAppended, PublishedByRename, OkBaseStays,
             BaseIsRead, SyncedIsStaged, Published
<1>2. ASSUME NEW w \in Writes, Edits!Fill(w) PROVE Effects
  <2>1. fd[w] = w
    BY <1>2 DEF Edits!Fill, Apart, OwnsItsInode, FilesTyped
  <2>2. PICK content : disk' = [disk EXCEPT ![w] = content]
    BY <1>2, <2>1, Zenon DEF Edits!Fill
  <2>3. stage[w] = "open" /\ stage' = [stage EXCEPT ![w] = "full"] /\ base' = base
    BY <1>2 DEF Edits!Fill
  <2> QED BY <2>2, <2>3, <1>0, <1>a DEF Effects, OkStays, OnlyAppended, PublishedByRename,
             OkBaseStays, BaseIsRead, SyncedIsStaged, Published
<1>3. ASSUME NEW w \in Writes, Edits!FillFails(w) \/ Edits!RenameFails(w) PROVE Effects
  <2>1. /\ stage[w] \in {"open", "full"} /\ stage' = [stage EXCEPT ![w] = "failed"]
        /\ base' = base /\ disk' = disk
    BY <1>3 DEF Edits!FillFails, Edits!RenameFails
  <2> QED BY <2>1, <1>0, <1>a DEF Effects, OkStays, OnlyAppended, PublishedByRename,
             OkBaseStays, BaseIsRead, SyncedIsStaged, Published
<1>4. ASSUME NEW w \in Writes, Edits!RenameTemp(w) PROVE Effects
  <2>1. /\ stage[w] = "full" /\ stage' = [stage EXCEPT ![w] = "ok"]
        /\ base' = base /\ disk' = disk
    BY <1>4 DEF Edits!RenameTemp
  <2> QED BY <2>1, <1>0, <1>a DEF Effects, OkStays, OnlyAppended, PublishedByRename,
             OkBaseStays, BaseIsRead, SyncedIsStaged, Published
<1>5. ASSUME NEW e \in BlockEdits, Edits!ClientReads(e) PROVE Effects
  <2>1. /\ stage[e] = "idle" /\ stage' = [stage EXCEPT ![e] = "seen"]
        /\ base' = base /\ disk' = disk
    BY <1>5 DEF Edits!ClientReads
  <2> QED BY <2>1, <1>0, <1>a DEF Effects, OkStays, OnlyAppended, PublishedByRename,
             OkBaseStays, BaseIsRead, SyncedIsStaged, Published
<1>6. ASSUME NEW e \in BlockEdits, Edits!EditReads(e) PROVE Effects
  <2>1. CASE UNCHANGED base /\ Edits!To(e, "failed")
    <3>1. stage[e] = "seen" /\ disk' = disk
      BY <1>6 DEF Edits!EditReads
    <3> QED BY <2>1, <3>1, <1>0, <1>a DEF Effects, OkStays, OnlyAppended, PublishedByRename,
               OkBaseStays, BaseIsRead, SyncedIsStaged, Published
  <2>2. CASE at[Edits!Target] # NoFile /\ base' = [base EXCEPT ![e] = disk[at[Edits!Target]]] /\ Edits!To(e, "read")
    <3>1. stage[e] = "seen" /\ disk' = disk
      BY <1>6 DEF Edits!EditReads
    <3> QED BY <2>2, <3>1, <1>0, <1>a DEF Effects, OkStays, OnlyAppended, PublishedByRename,
               OkBaseStays, BaseIsRead, SyncedIsStaged, Published
  <2> QED BY <1>6, <2>1, <2>2 DEF Edits!EditReads
<1>7. ASSUME NEW e \in BlockEdits, Edits!StageEdit(e) PROVE Effects
  <2>1. /\ stage[e] = "read" /\ stage' = [stage EXCEPT ![e] = "synced"]
        /\ base' = base /\ disk' = [disk EXCEPT ![e] = base[e] \o <<e>>]
    BY <1>7 DEF Edits!StageEdit
  <2> QED BY <2>1, <1>0, <1>a DEF Effects, OkStays, OnlyAppended, PublishedByRename,
             OkBaseStays, BaseIsRead, SyncedIsStaged, Published
<1>8. ASSUME NEW e \in BlockEdits, Edits!RenameEdit(e) PROVE Effects
  <2>1. /\ stage[e] = "synced" /\ stage' = [stage EXCEPT ![e] = "ok"]
        /\ base' = base /\ disk' = disk
    BY <1>8 DEF Edits!RenameEdit
  <2> QED BY <2>1, <1>0, <1>a DEF Effects, OkStays, OnlyAppended, PublishedByRename,
             OkBaseStays, BaseIsRead, SyncedIsStaged, Published
<1>9. ASSUME NEW e \in BlockEdits, Edits!EditFails(e) PROVE Effects
  <2>1. /\ stage[e] \in {"read", "synced"} /\ stage' = [stage EXCEPT ![e] = "failed"]
        /\ base' = base /\ disk' = disk
    BY <1>9 DEF Edits!EditFails
  <2> QED BY <2>1, <1>0, <1>a DEF Effects, OkStays, OnlyAppended, PublishedByRename,
             OkBaseStays, BaseIsRead, SyncedIsStaged, Published
<1>10. ASSUME NEW a \in Appends, Edits!AppendOpens(a) PROVE Effects
  <2>1. /\ stage[a] = "idle" /\ stage' = [stage EXCEPT ![a] = "open"]
        /\ base' = base /\ disk' = disk
    BY <1>10 DEF Edits!AppendOpens
  <2> QED BY <2>1, <1>0, <1>a DEF Effects, OkStays, OnlyAppended, PublishedByRename,
             OkBaseStays, BaseIsRead, SyncedIsStaged, Published
<1>11. ASSUME NEW a \in Appends, Edits!AppendWrites(a) PROVE Effects
  <2>0. stage[a] = "open" /\ base' = base
    BY <1>11 DEF Edits!AppendWrites
  <2>1. CASE disk' = [disk EXCEPT ![fd[a]] = Append(@, a)] /\ Edits!To(a, "ok")
    <3>1. fd[a] \in Edits!Inodes /\ Published(fd[a])
      BY <2>0 DEF Apart, PathsArePublished, FilesTyped, Edits!Inodes
    <3>2. \A e \in BlockEdits : stage'[e] = "synced" => e # fd[a]
      BY <3>1, <2>1, <1>0, <1>a DEF Published
    <3>3. /\ \A i \in Edits!Inodes : i # fd[a] => disk'[i] = disk[i]
          /\ disk'[fd[a]] = Append(disk[fd[a]], a)
      BY <2>1, <3>1, <1>a
    <3>4. /\ \A o \in Edits!Ops : o # a => stage'[o] = stage[o]
          /\ stage'[a] = "ok"
      BY <2>1, <1>0, <1>a
    <3>5. OnlyAppended
      BY <3>3, <3>4 DEF OnlyAppended
    <3>6. PublishedByRename
      BY <3>1, <3>3, <3>4, <1>0 DEF PublishedByRename, Published
    <3>7. SyncedIsStaged
      BY <3>2, <3>3, <3>4, <2>0, <1>0 DEF SyncedIsStaged
    <3> QED BY <3>4, <3>5, <3>6, <3>7, <2>0, <1>0 DEF Effects, OkStays, OkBaseStays, BaseIsRead
  <2>2. CASE Edits!To(a, "failed") /\ UNCHANGED disk
    BY <2>0, <2>2, <1>0, <1>a DEF Effects, OkStays, OnlyAppended, PublishedByRename,
       OkBaseStays, BaseIsRead, SyncedIsStaged, Published
  <2> QED BY <1>11, <2>1, <2>2 DEF Edits!AppendWrites
<1>12. ASSUME NEW m \in Moves, Edits!MoveAway(m) PROVE Effects
  <2>1. /\ stage[m] = "idle" /\ base' = base /\ disk' = disk
        /\ \A o \in Edits!Ops : o # m => stage'[o] = stage[o]
    BY <1>12, <1>0, <1>a DEF Edits!MoveAway
  <2> QED BY <2>1, <1>0, <1>a DEF Effects, OkStays, OnlyAppended, PublishedByRename,
             OkBaseStays, BaseIsRead, SyncedIsStaged, Published
<1>13. CASE Edits!Tick \/ UNCHANGED Edits!vars
  <2>1. base' = base /\ disk' = disk /\ stage' = stage
    BY <1>13 DEF Edits!Tick, Edits!vars
  <2> QED BY <2>1 DEF Effects, OkStays, OnlyAppended, PublishedByRename,
             OkBaseStays, BaseIsRead, SyncedIsStaged, Published
<1> QED BY <1>1, <1>2, <1>3, <1>4, <1>5, <1>6, <1>7, <1>8, <1>9, <1>10, <1>11, <1>12, <1>13
        DEF Edits!Next

LEMMA AnsweredStays ==
  ASSUME FilesTyped, OkStays, NEW s \in Seq(Contents), Answered(s)
  PROVE  Answered(s)'
BY DEF Answered, OkStays

LEMMA PublishedStays ==
  ASSUME OkStays, NEW i \in Edits!Inodes, Published(i)
  PROVE  Published(i)'
BY DEF Published, OkStays, Edits!Ops

LEMMA PublishedIsMeantStep ==
  FilesTyped /\ Apart /\ Effects => PublishedIsMeant'
<1> SUFFICES ASSUME FilesTyped, Apart, Effects, NEW i \in Edits!Inodes, Published(i)'
             PROVE  GoesOn(disk[i], Edits!Meant(i))' /\ Answered(disk[i])'
  BY DEF PublishedIsMeant
<1> USE FilesApart
<1>1. disk[i] \in Seq(Contents) /\ \A e \in BlockEdits : base[e] \in Seq(Contents)
  BY DEF FilesTyped
<1>2. /\ Writes \subseteq Edits!Ops /\ BlockEdits \subseteq Edits!Ops /\ Appends \subseteq Edits!Ops
      /\ Edits!Ops \subseteq Contents /\ Base \in Contents
  BY DEF Edits!Ops, Contents
<1>3. CASE Published(i)
  <2>1. GoesOn(disk[i], Edits!Meant(i)) /\ Answered(disk[i])
    BY <1>3 DEF Apart, PublishedIsMeant
  <2>2. Edits!Meant(i)' = Edits!Meant(i)
    <3>1. CASE i \in BlockEdits
      <4>1. base'[i] = base[i]
        BY <3>1, <1>3, <1>2 DEF Published, Effects, OkBaseStays, OkStays
      <4>2. Edits!Meant(i)' = base'[i] \o <<i>> /\ Edits!Meant(i) = base[i] \o <<i>>
        BY <3>1, Zenon DEF Edits!Meant
      <4> QED BY <4>1, <4>2
    <3>2. CASE i \notin BlockEdits
      BY <3>2 DEF Edits!Meant
    <3> QED BY <3>1, <3>2
  <2>3. Answered(disk[i])
    BY <2>1
  <2>4. Edits!Meant(i) \in Seq(Contents)
    <3>1. CASE i \in Writes
      BY <3>1, <1>2 DEF Edits!Meant
    <3>2. CASE i \in BlockEdits
      <4>1. Edits!Meant(i) = base[i] \o <<i>> /\ base[i] \in Seq(Contents) /\ i \in Contents
        BY <3>2, <1>1, <1>2 DEF Edits!Meant
      <4> QED BY <4>1
    <3>3. CASE i = Base
      BY <3>3, <1>2 DEF Edits!Meant
    <3>4. CASE i \in Appends
      <4>1. Edits!Meant(i) = <<>>
        BY <3>4 DEF Edits!Meant
      <4> QED BY <4>1
    <3> QED BY <3>1, <3>2, <3>3, <3>4 DEF Edits!Inodes
  <2>5. CASE disk'[i] = disk[i]
    <3>1. Answered(disk[i])'
      <4>1. \A k \in DOMAIN disk[i] : disk[i][k] \in Edits!Ops => stage'[disk[i][k]] = "ok"
        BY <2>1 DEF Answered, Effects, OkStays
      <4> QED BY <4>1, <2>5 DEF Answered
    <3> QED BY <2>1, <2>2, <2>5, <3>1 DEF GoesOn
  <2>6. ASSUME NEW a \in Appends, disk'[i] = Append(disk[i], a), stage'[a] = "ok"
        PROVE  GoesOn(disk[i], Edits!Meant(i))' /\ Answered(disk[i])'
    <3>1. GoesOn(Append(disk[i], a), Edits!Meant(i))
      BY <2>1, <2>4, <1>1, <1>2, GoesOnAppended
    <3>2. \A k \in DOMAIN Append(disk[i], a) :
            \/ k \in DOMAIN disk[i] /\ Append(disk[i], a)[k] = disk[i][k]
            \/ Append(disk[i], a)[k] = a
      BY <1>1
    <3>3. \A k \in DOMAIN disk[i] : disk[i][k] \in Edits!Ops => stage'[disk[i][k]] = "ok"
      BY <2>1 DEF Answered, Effects, OkStays
    <3>4. Answered(disk[i])'
      BY <2>6, <3>2, <3>3 DEF Answered
    <3>5. GoesOn(disk[i], Edits!Meant(i))'
      BY <2>6, <3>1, <2>2, Zenon DEF GoesOn
    <3> QED BY <3>4, <3>5
  <2> QED BY <1>3, <2>5, <2>6 DEF Effects, OnlyAppended
<1>4. CASE ~Published(i) /\ i \in Writes
  <2>1. disk'[i] = <<i>> /\ Edits!Meant(i)' = <<i>> /\ stage'[i] = "ok"
    BY <1>4 DEF Effects, PublishedByRename, Published, Apart, OwnsItsInode, Edits!Meant
  <2>2. <<i>> \in Seq(Contents)
    BY <1>4, <1>2
  <2>3. GoesOn(<<i>>, <<i>>)
    BY <2>2, GoesOnItself, Zenon
  <2>4. Answered(disk[i])'
    BY <2>1 DEF Answered
  <2> QED BY <2>1, <2>3, <2>4 DEF GoesOn
<1>5. CASE ~Published(i) /\ i \in BlockEdits
  <2>0. stage[i] = "synced" /\ disk'[i] = disk[i] /\ stage'[i] = "ok" /\ base'[i] = base[i]
    BY <1>5 DEF Effects, PublishedByRename, Published, OkBaseStays
  <2>1. disk[i] = base[i] \o <<i>> /\ Answered(base[i])
    BY <2>0, <1>5, Zenon DEF Apart, KeepsWhatItRead
  <2>2. base[i] \in Seq(Contents) /\ i \in Contents
    BY <1>1, <1>2, <1>5
  <2>3. GoesOn(disk[i], disk[i])
    BY <1>1, GoesOnItself
  <2>4. Edits!Meant(i)' = disk[i]
    BY <2>0, <2>1, <1>5 DEF Edits!Meant
  <2>5. \A k \in DOMAIN (base[i] \o <<i>>) :
            \/ k \in DOMAIN base[i] /\ (base[i] \o <<i>>)[k] = base[i][k]
            \/ (base[i] \o <<i>>)[k] = i
    BY <2>2
  <2>6. \A k \in DOMAIN base[i] : base[i][k] \in Edits!Ops => stage'[base[i][k]] = "ok"
    BY <2>1 DEF Answered, Effects, OkStays
  <2>7. Answered(disk[i])'
    BY <2>0, <2>1, <2>5, <2>6 DEF Answered
  <2>8. GoesOn(disk[i], Edits!Meant(i))'
    BY <2>0, <2>3, <2>4 DEF GoesOn
  <2> QED BY <2>7, <2>8
<1> QED BY <1>3, <1>4, <1>5 DEF Published, Edits!Inodes

LEMMA KeepsWhatItReadStep ==
  FilesTyped /\ Apart /\ Effects => KeepsWhatItRead'
<1> SUFFICES ASSUME FilesTyped, Apart, Effects, NEW e \in BlockEdits
             PROVE  /\ stage'[e] \in {"read", "synced", "ok"} => Answered(base[e])'
                    /\ stage'[e] = "synced" => disk'[e] = base'[e] \o <<e>>
  BY Zenon DEF KeepsWhatItRead
<1>1. ASSUME stage'[e] \in {"read", "synced", "ok"} PROVE Answered(base[e])'
  <2>1. Answered(base'[e])
    <3>1. CASE base'[e] = base[e] /\ stage[e] \in {"read", "synced", "ok"}
      BY <3>1, Zenon DEF Apart, KeepsWhatItRead
    <3>2. CASE at[Edits!Target] # NoFile /\ base'[e] = disk[at[Edits!Target]]
      <4>1. at[Edits!Target] \in Edits!Inodes /\ Published(at[Edits!Target])
        BY <3>2, FilesApart DEF FilesTyped, Apart, PathsArePublished
      <4> QED BY <4>1, <3>2 DEF Apart, PublishedIsMeant
    <3> QED BY <1>1, <3>1, <3>2 DEF Effects, BaseIsRead
  <2>2. \A k \in DOMAIN base'[e] : base'[e][k] \in Edits!Ops => stage'[base'[e][k]] = "ok"
    BY <2>1 DEF Answered, Effects, OkStays
  <2> QED BY <2>2 DEF Answered
<1>2. ASSUME stage'[e] = "synced" PROVE disk'[e] = base'[e] \o <<e>>
  <2>1. CASE disk'[e] = base[e] \o <<e>>
    BY <1>2, <2>1, Zenon DEF Effects, SyncedIsStaged
  <2>2. CASE stage[e] = "synced" /\ disk'[e] = disk[e]
    BY <1>2, <2>2, Zenon DEF Effects, SyncedIsStaged, Apart, KeepsWhatItRead
  <2> QED BY <1>2, <2>1, <2>2, Zenon DEF Effects, SyncedIsStaged
<1> QED BY <1>1, <1>2

(* What the paths hold after a step, and what the writes have open.           *)
PathsHold == OwnsItsInode /\ PathsArePublished /\ LeftBehind

LEMMA PathsHoldStep ==
  FilesTyped /\ Apart /\ Effects /\ FilesTyped' /\ ~Edits!Collided' /\ [Edits!Next]_(Edits!vars) => PathsHold'
<1> SUFFICES ASSUME FilesTyped, Apart, Effects, FilesTyped', ~Edits!Collided', [Edits!Next]_(Edits!vars)
             PROVE  PathsHold'
  OBVIOUS
<1> USE FilesApart DEF Edits!To
<1>0. /\ Writes \subseteq Edits!Ops /\ BlockEdits \subseteq Edits!Ops /\ Appends \subseteq Edits!Ops /\ Moves \subseteq Edits!Ops
      /\ Writes \subseteq Edits!Inodes /\ BlockEdits \subseteq Edits!Inodes /\ Appends \subseteq Edits!Inodes
      /\ \A o \in Moves : o \notin Writes /\ o \notin Appends
      /\ TempPaths \subseteq Edits!Paths /\ Edits!Target \notin TempPaths /\ Edits!Other \notin TempPaths
  BY OperationsAreApart DEF Edits!Ops, Edits!Inodes, Edits!FileAssumption, TempPaths
<1>a. /\ stage \in [Edits!Ops -> EditsStages] /\ disk \in [Edits!Inodes -> Seq(Contents)]
      /\ at \in [Edits!Paths -> Edits!Inodes \cup {NoFile}] /\ DOMAIN fd = Writes \cup Appends
      /\ \A w \in Writes : /\ stage[w] # "idle" => temp[w] \in TempPaths
                           /\ fd[w] = NoFile <=> stage[w] = "idle"
      /\ DOMAIN temp = Writes
  BY DEF FilesTyped
<1>b. /\ \A i \in Edits!Inodes : Published(i) => Published(i)'
      /\ \A a \in Appends : fd[a] # NoFile => fd[a] \in Edits!Inodes /\ Published(fd[a])
      /\ \A p \in {Edits!Target, Edits!Other} : at[p] # NoFile => at[p] \in Edits!Inodes /\ Published(at[p])
  BY PublishedStays DEF Effects, FilesTyped, Apart, PathsArePublished
<1>c. /\ \A w \in Writes : disk'[w] # disk[w] => stage[w] # "full" \/ stage'[w] # "full"
      /\ OwnsItsInode /\ LeftBehind
  <2>1. ASSUME NEW w \in Writes, disk'[w] # disk[w], stage[w] = "full", stage'[w] = "full"
        PROVE  FALSE
    <3>1. ASSUME NEW v \in Writes, Edits!OpenTemp(v) PROVE FALSE
      BY <2>1, <3>1, OpensItsOwn, <1>0, <1>a DEF Apart
    <3>2. ASSUME NEW v \in Writes, Edits!Fill(v) PROVE FALSE
      BY <2>1, <3>2, <1>0, <1>a DEF Apart, OwnsItsInode, Edits!Fill
    <3>3. ASSUME NEW a \in Appends, Edits!AppendWrites(a) PROVE FALSE
      BY <2>1, <3>3, <1>0, <1>a, <1>b DEF Edits!AppendWrites, Published, FilesTyped, Edits!Inodes
    <3>4. ASSUME NEW e \in BlockEdits, Edits!StageEdit(e) PROVE FALSE
      BY <2>1, <3>4, <1>0, <1>a DEF Edits!StageEdit
    <3>5. CASE disk' = disk
      BY <2>1, <3>5
    <3> QED BY <3>1, <3>2, <3>3, <3>4, <3>5 DEF Edits!Next, Edits!vars, Edits!FillFails, Edits!RenameTemp, Edits!RenameFails,
               Edits!ClientReads, Edits!EditReads, Edits!RenameEdit, Edits!EditFails, Edits!AppendOpens, Edits!MoveAway, Edits!Tick
  <2> QED BY <2>1 DEF Apart
<1>1. ASSUME NEW w \in Writes, Edits!OpenTemp(w) PROVE PathsHold'
  <2>1. /\ at[Edits!TempAt(ms)] = NoFile /\ Edits!TempAt(ms) \in TempPaths
        /\ stage[w] = "idle" /\ fd[w] = NoFile
        /\ temp' = [temp EXCEPT ![w] = Edits!TempAt(ms)] /\ fd' = [fd EXCEPT ![w] = w]
        /\ at' = [at EXCEPT ![Edits!TempAt(ms)] = w] /\ disk' = [disk EXCEPT ![w] = <<>>]
        /\ stage' = [stage EXCEPT ![w] = "open"]
    BY <1>1, OpensItsOwn DEF Apart
  <2>2. OwnsItsInode'
    BY <2>1, <1>0, <1>a, <1>c DEF OwnsItsInode
  <2>3. PathsArePublished'
    BY <2>1, <1>0, <1>a, <1>b DEF PathsArePublished
  <2>4. LeftBehind'
    BY <2>1, <1>0, <1>a, <1>c DEF LeftBehind
  <2> QED BY <2>2, <2>3, <2>4 DEF PathsHold
<1>2. ASSUME NEW w \in Writes, Edits!Fill(w) PROVE PathsHold'
  <2>1. fd[w] = w /\ disk[w] = <<>>
    BY <1>2, <1>a, <1>c DEF OwnsItsInode, Edits!Fill
  <2>2. disk' = [disk EXCEPT ![w] = <<w>>]
    <3>1. \A rest : rest \in (IF disk[w] = <<>> THEN {<<>>} ELSE {<<>>, <<Rest>>}) => rest = <<>>
      BY <2>1
    <3>2. <<w>> \o <<>> = <<w>>
      OBVIOUS
    <3> QED BY <1>2, <2>1, <3>1, <3>2 DEF Edits!Fill
  <2>3. /\ stage' = [stage EXCEPT ![w] = "full"] /\ stage[w] = "open"
        /\ UNCHANGED <<at, fd, temp>>
    BY <1>2 DEF Edits!Fill
  <2>4. OwnsItsInode'
    BY <2>1, <2>2, <2>3, <1>0, <1>a, <1>c DEF OwnsItsInode
  <2>5. PathsArePublished'
    BY <2>3, <1>0, <1>a, <1>b DEF PathsArePublished
  <2>6. LeftBehind'
    BY <2>3, <1>0, <1>a, <1>c DEF LeftBehind
  <2> QED BY <2>4, <2>5, <2>6 DEF PathsHold
<1>3. ASSUME NEW w \in Writes, Edits!FillFails(w) PROVE PathsHold'
  <2>1. /\ stage' = [stage EXCEPT ![w] = "failed"] /\ stage[w] = "open"
        /\ UNCHANGED <<at, fd, temp, disk>>
    BY <1>3 DEF Edits!FillFails
  <2>4. OwnsItsInode'
    BY <2>1, <1>0, <1>a, <1>c DEF OwnsItsInode
  <2>5. PathsArePublished'
    BY <2>1, <1>0, <1>a, <1>b DEF PathsArePublished
  <2>6. LeftBehind'
    BY <2>1, <1>0, <1>a, <1>c DEF LeftBehind
  <2> QED BY <2>4, <2>5, <2>6 DEF PathsHold
<1>4. ASSUME NEW w \in Writes, Edits!RenameTemp(w) PROVE PathsHold'
  <2>1. /\ stage' = [stage EXCEPT ![w] = "ok"] /\ stage[w] = "full"
        /\ UNCHANGED <<fd, temp, disk>> /\ at[temp[w]] = w /\ temp[w] \in TempPaths
    BY <1>4, <1>a, <1>c DEF Edits!RenameTemp, OwnsItsInode
  <2>2. at' = [at EXCEPT ![Edits!Target] = w, ![temp[w]] = NoFile]
    BY <1>4, <2>1 DEF Edits!RenameTemp
  <2>3. Published(w)'
    BY <2>1, <1>0, <1>a DEF Published
  <2>4. OwnsItsInode'
    BY <2>1, <2>2, <1>0, <1>a, <1>c DEF OwnsItsInode
  <2>5. PathsArePublished'
    BY <2>1, <2>2, <2>3, <1>0, <1>a, <1>b DEF PathsArePublished
  <2>6. LeftBehind'
    <3> SUFFICES ASSUME NEW p \in TempPaths, at'[p] # NoFile
                 PROVE  \E v \in Writes : temp'[v] = p /\ fd'[v] = at'[p] /\ stage'[v] # "ok"
      BY DEF LeftBehind
    <3>1. at'[p] = at[p]
      BY <2>1, <2>2, <1>0, <1>a
    <3>2. PICK v \in Writes : temp[v] = p /\ fd[v] = at[p] /\ stage[v] # "ok"
      BY <3>1, <1>c DEF LeftBehind
    <3>3. temp'[v] = p /\ fd'[v] = at'[p] /\ stage'[v] # "ok"
      BY <3>1, <3>2, <2>1, <2>2, <1>0, <1>a
    <3> QED BY <3>3
  <2> QED BY <2>4, <2>5, <2>6 DEF PathsHold
<1>5. ASSUME NEW w \in Writes, Edits!RenameFails(w) PROVE PathsHold'
  <2>1. /\ stage' = [stage EXCEPT ![w] = "failed"] /\ stage[w] = "full"
        /\ UNCHANGED <<fd, temp, disk>> /\ at[temp[w]] = w /\ temp[w] \in TempPaths
        /\ at' = [at EXCEPT ![temp[w]] = NoFile]
    BY <1>5, <1>a, <1>c DEF Edits!RenameFails, OwnsItsInode
  <2>4. OwnsItsInode'
    BY <2>1, <1>0, <1>a, <1>c DEF OwnsItsInode
  <2>5. PathsArePublished'
    BY <2>1, <1>0, <1>a, <1>b DEF PathsArePublished
  <2>6. LeftBehind'
    BY <2>1, <1>0, <1>a, <1>c DEF LeftBehind
  <2> QED BY <2>4, <2>5, <2>6 DEF PathsHold
<1>6. ASSUME NEW e \in BlockEdits, Edits!RenameEdit(e) PROVE PathsHold'
  <2>1. /\ stage' = [stage EXCEPT ![e] = "ok"] /\ e \notin Writes
        /\ UNCHANGED <<fd, temp, disk>> /\ at' = [at EXCEPT ![Edits!Target] = e]
    BY <1>6 DEF Edits!RenameEdit
  <2>3. Published(e)'
    BY <2>1, <1>0, <1>a DEF Published
  <2>4. OwnsItsInode'
    BY <2>1, <1>0, <1>a, <1>c DEF OwnsItsInode
  <2>5. PathsArePublished'
    BY <2>1, <2>3, <1>0, <1>a, <1>b DEF PathsArePublished
  <2>6. LeftBehind'
    BY <2>1, <1>0, <1>a, <1>c, SMTT(20) DEF LeftBehind
  <2> QED BY <2>4, <2>5, <2>6 DEF PathsHold
<1>7. ASSUME NEW e \in BlockEdits, Edits!ClientReads(e) \/ Edits!EditReads(e) \/ Edits!StageEdit(e) \/ Edits!EditFails(e)
      PROVE  PathsHold'
  <2>1. /\ UNCHANGED <<at, fd, temp>> /\ e \notin Writes
        /\ \A o \in Edits!Ops : o # e => stage'[o] = stage[o]
        /\ \A i \in Edits!Inodes : i # e => disk'[i] = disk[i]
    BY <1>7, <1>0, <1>a DEF Edits!ClientReads, Edits!EditReads, Edits!StageEdit, Edits!EditFails
  <2>4. OwnsItsInode'
    BY <2>1, <1>0, <1>a, <1>c DEF OwnsItsInode
  <2>5. PathsArePublished'
    BY <2>1, <1>0, <1>a, <1>b DEF PathsArePublished
  <2>6. LeftBehind'
    BY <2>1, <1>0, <1>a, <1>c DEF LeftBehind
  <2> QED BY <2>4, <2>5, <2>6 DEF PathsHold
<1>8. ASSUME NEW a \in Appends, Edits!AppendOpens(a) PROVE PathsHold'
  <2>1. /\ stage' = [stage EXCEPT ![a] = "open"] /\ a \notin Writes
        /\ UNCHANGED <<temp, disk>>
    BY <1>8 DEF Edits!AppendOpens
  <2>2. PICK inode \in Edits!Inodes : /\ Published(inode) /\ inode # NoFile
                                /\ fd' = [fd EXCEPT ![a] = inode]
                                /\ at' = [at EXCEPT ![Edits!Target] = inode]
    <3>1. CASE at[Edits!Target] = NoFile
      <4>1. Published(a) /\ a # NoFile /\ fd' = [fd EXCEPT ![a] = a]
            /\ at' = [at EXCEPT ![Edits!Target] = a]
        BY <1>8, <3>1 DEF Edits!AppendOpens, Published
      <4> QED BY <4>1, <1>0, Zenon
    <3>2. CASE at[Edits!Target] # NoFile
      <4>1. fd' = [fd EXCEPT ![a] = at[Edits!Target]] /\ at' = [at EXCEPT ![Edits!Target] = at[Edits!Target]]
        BY <1>8, <3>2 DEF Edits!AppendOpens
      <4> QED BY <4>1, <3>2, <1>b, Zenon
    <3> QED BY <3>1, <3>2
  <2>4. OwnsItsInode'
    BY <2>1, <2>2, <1>0, <1>a, <1>c DEF OwnsItsInode
  <2>5. PathsArePublished'
    BY <2>1, <2>2, <1>0, <1>a, <1>b DEF PathsArePublished
  <2>6. LeftBehind'
    BY <2>1, <2>2, <1>0, <1>a, <1>c DEF LeftBehind
  <2> QED BY <2>4, <2>5, <2>6 DEF PathsHold
<1>9. ASSUME NEW a \in Appends, Edits!AppendWrites(a) PROVE PathsHold'
  <2>1. /\ UNCHANGED <<at, fd, temp>> /\ a \notin Writes
        /\ \A o \in Edits!Ops : o # a => stage'[o] = stage[o]
        /\ fd[a] \in Edits!Inodes /\ Published(fd[a])
        /\ \A i \in Edits!Inodes : i # fd[a] => disk'[i] = disk[i]
    BY <1>9, <1>0, <1>a, <1>b DEF Edits!AppendWrites, FilesTyped, Edits!Inodes
  <2>4. OwnsItsInode'
    BY <2>1, <1>0, <1>a, <1>c DEF OwnsItsInode, Published
  <2>5. PathsArePublished'
    BY <2>1, <1>0, <1>a, <1>b DEF PathsArePublished
  <2>6. LeftBehind'
    <3> SUFFICES ASSUME NEW p \in TempPaths, at'[p] # NoFile
                 PROVE  \E v \in Writes : temp'[v] = p /\ fd'[v] = at'[p] /\ stage'[v] # "ok"
      BY DEF LeftBehind
    <3>1. at'[p] = at[p]
      BY <2>1, <1>0, <1>a
    <3>2. PICK v \in Writes : temp[v] = p /\ fd[v] = at[p] /\ stage[v] # "ok"
      BY <3>1, <1>c DEF LeftBehind
    <3>3. temp'[v] = p /\ fd'[v] = at'[p] /\ stage'[v] # "ok"
      BY <3>1, <3>2, <2>1, <1>0, <1>a
    <3> QED BY <3>3
  <2> QED BY <2>4, <2>5, <2>6 DEF PathsHold
<1>10. ASSUME NEW m \in Moves, Edits!MoveAway(m) PROVE PathsHold'
  <2>1. /\ UNCHANGED <<fd, temp, disk>> /\ m \notin Writes
        /\ \A o \in Edits!Ops : o # m => stage'[o] = stage[o]
        /\ \A p \in TempPaths : at'[p] = at[p]
        /\ \A p \in {Edits!Target, Edits!Other} : at'[p] \in {at[Edits!Target], at[p], NoFile}
    BY <1>10, <1>0, <1>a DEF Edits!MoveAway
  <2>4. OwnsItsInode'
    BY <2>1, <1>0, <1>a, <1>c DEF OwnsItsInode
  <2>5. PathsArePublished'
    BY <2>1, <1>0, <1>a, <1>b DEF PathsArePublished
  <2>6. LeftBehind'
    <3> SUFFICES ASSUME NEW p \in TempPaths, at'[p] # NoFile
                 PROVE  \E v \in Writes : temp'[v] = p /\ fd'[v] = at'[p] /\ stage'[v] # "ok"
      BY DEF LeftBehind
    <3>1. at'[p] = at[p]
      BY <2>1, <1>0, <1>a
    <3>2. PICK v \in Writes : temp[v] = p /\ fd[v] = at[p] /\ stage[v] # "ok"
      BY <3>1, <1>c DEF LeftBehind
    <3>3. temp'[v] = p /\ fd'[v] = at'[p] /\ stage'[v] # "ok"
      BY <3>1, <3>2, <2>1, <1>0, <1>a
    <3> QED BY <3>3
  <2> QED BY <2>4, <2>5, <2>6 DEF PathsHold
<1>11. CASE Edits!Tick \/ UNCHANGED Edits!vars
  <2>1. UNCHANGED <<fd, temp, disk, stage, at>>
    BY <1>11 DEF Edits!Tick, Edits!vars
  <2>4. OwnsItsInode'
    BY <2>1, <1>c DEF OwnsItsInode
  <2>5. PathsArePublished'
    BY <2>1, <1>0, <1>a, <1>b DEF PathsArePublished
  <2>6. LeftBehind'
    BY <2>1, <1>c DEF LeftBehind
  <2> QED BY <2>4, <2>5, <2>6 DEF PathsHold
<1> QED BY <1>1, <1>2, <1>3, <1>4, <1>5, <1>6, <1>7, <1>8, <1>9, <1>10, <1>11 DEF Edits!Next

LEMMA StagedIsSyncedStep == FilesTyped /\ StagedIsSynced /\ [Edits!Next]_(Edits!vars) => StagedIsSynced'
<1> SUFFICES ASSUME FilesTyped, StagedIsSynced, [Edits!Next]_(Edits!vars), NEW e \in staged'
             PROVE  stage'[e] = "synced"
  BY DEF StagedIsSynced
<1> USE FilesApart DEF Edits!To
<1>0. /\ stage \in [Edits!Ops -> EditsStages] /\ staged \subseteq BlockEdits /\ BlockEdits \subseteq Edits!Ops
      /\ \A o \in Moves \cup Writes \cup Appends : o \in Edits!Ops /\ o \notin BlockEdits
      /\ \A d \in staged : stage[d] = "synced"
  BY OperationsAreApart DEF FilesTyped, StagedIsSynced, Edits!Ops, Edits!FileAssumption
<1>1. ASSUME NEW d \in BlockEdits, Edits!StageEdit(d) PROVE stage'[e] = "synced"
  BY <1>1, <1>0 DEF Edits!StageEdit
<1>2. ASSUME NEW d \in BlockEdits, Edits!RenameEdit(d) \/ Edits!EditFails(d) PROVE stage'[e] = "synced"
  BY <1>2, <1>0 DEF Edits!RenameEdit, Edits!EditFails
<1>3. ASSUME NEW d \in BlockEdits, Edits!ClientReads(d) \/ Edits!EditReads(d) PROVE stage'[e] = "synced"
  <2>1. /\ staged' = staged /\ stage[d] \in {"idle", "seen"}
        /\ \A o \in Edits!Ops : o # d => stage'[o] = stage[o]
    BY <1>3, <1>0 DEF Edits!ClientReads, Edits!EditReads
  <2> QED BY <2>1, <1>0
<1>4. ASSUME NEW o \in Moves \cup Writes \cup Appends, NEW s \in EditsStages,
             stage' = [stage EXCEPT ![o] = s], staged' = staged
      PROVE  stage'[e] = "synced"
  BY <1>4, <1>0
<1>5. CASE stage' = stage /\ staged' = staged
  BY <1>5, <1>0
<1>6. ASSUME NEW w \in Writes,
             Edits!OpenTemp(w) \/ Edits!Fill(w) \/ Edits!FillFails(w) \/ Edits!RenameTemp(w) \/ Edits!RenameFails(w)
      PROVE  stage'[e] = "synced"
  <2>1. \E s \in EditsStages : stage' = [stage EXCEPT ![w] = s] /\ staged' = staged
    BY <1>6 DEF Edits!OpenTemp, Edits!Fill, Edits!FillFails, Edits!RenameTemp, Edits!RenameFails, EditsStages
  <2> QED BY <2>1, <1>4, Zenon
<1>7. ASSUME NEW a \in Appends, Edits!AppendOpens(a) \/ Edits!AppendWrites(a) PROVE stage'[e] = "synced"
  <2>1. \E s \in EditsStages : stage' = [stage EXCEPT ![a] = s] /\ staged' = staged
    BY <1>7 DEF Edits!AppendOpens, Edits!AppendWrites, EditsStages
  <2> QED BY <2>1, <1>4, Zenon
<1>8. ASSUME NEW m \in Moves, Edits!MoveAway(m) PROVE stage'[e] = "synced"
  <2>1. \E s \in EditsStages : stage' = [stage EXCEPT ![m] = s] /\ staged' = staged
    BY <1>8 DEF Edits!MoveAway, EditsStages
  <2> QED BY <2>1, <1>4, Zenon
<1> QED BY <1>1, <1>2, <1>3, <1>5, <1>6, <1>7, <1>8 DEF Edits!Next, Edits!vars, Edits!Tick

LEMMA FilesInvStep == FilesInv /\ [Edits!Next]_(Edits!vars) => FilesInv'
<1> SUFFICES ASSUME FilesInv, [Edits!Next]_(Edits!vars) PROVE FilesInv'
  OBVIOUS
<1>1. FilesTyped' /\ StagedIsSynced'
  BY FilesTypedStep, StagedIsSyncedStep DEF FilesInv
<1>2. ASSUME ~Edits!Collided' PROVE Apart'
  <2>1. Apart
    BY <1>2, CollidedStays DEF FilesInv
  <2>2. Effects
    BY <1>2, <2>1, StepHasEffects DEF FilesInv
  <2>3. PathsHold'
    BY <1>1, <1>2, <2>1, <2>2, PathsHoldStep DEF FilesInv
  <2>4. PublishedIsMeant' /\ KeepsWhatItRead'
    BY <2>1, <2>2, PublishedIsMeantStep, KeepsWhatItReadStep DEF FilesInv
  <2> QED BY <2>3, <2>4 DEF Apart, PathsHold
<1> QED BY <1>1, <1>2 DEF FilesInv

LEMMA FilesInvMeans == FilesInv => Edits!TargetIsMeant
<1> SUFFICES ASSUME FilesInv, ~Edits!Collided PROVE Edits!TargetIsMeant
  BY DEF Edits!TargetIsMeant
<1>1. ASSUME NEW p \in {Edits!Target, Edits!Other}, at[p] # NoFile
      PROVE  /\ Edits!Whole(at[p])
             /\ \A k \in DOMAIN disk[at[p]] :
                  disk[at[p]][k] \in Edits!Ops => stage[disk[at[p]][k]] # "failed"
  <2>1. at[p] \in Edits!Inodes /\ Published(at[p])
    BY <1>1, FilesApart DEF FilesInv, Apart, PathsArePublished, FilesTyped
  <2>2. GoesOn(disk[at[p]], Edits!Meant(at[p])) /\ Answered(disk[at[p]])
    BY <2>1 DEF FilesInv, Apart, PublishedIsMeant
  <2> QED BY <2>2 DEF GoesOn, Answered, Edits!Whole
<1>2. LeftBehind /\ StagedIsSynced
  BY DEF FilesInv, Apart
<1> QED BY <1>1, <1>2 DEF Edits!TargetIsMeant, LeftBehind, StagedIsSynced, TempPaths

LEMMA FilesAreMeant == Edits!Spec => []Edits!TargetIsMeant
<1>1. Edits!Init => FilesInv
  BY FilesInvInit
<1>2. FilesInv /\ [Edits!Next]_(Edits!vars) => FilesInv'
  BY FilesInvStep
<1>3. FilesInv => Edits!TargetIsMeant
  BY FilesInvMeans
<1> QED BY <1>1, <1>2, <1>3, PTL DEF Edits!Spec

\* What is at a path that clients use is whole, unless two writes fell into the same
\* millisecond.
THEOREM FilesAreWhole == ToolsSpec => []TargetIsMeant
<1>1. Edits!TargetIsMeant => TargetIsMeant
  BY DEF TargetIsMeant
<1> QED
  BY <1>1, ToolsImplementTheirParts, FilesAreMeant, PTL

-----------------------------------------------------------------------------

(***************************************************************************)
(* A connection.  Where the frames end in all that was ever written says   *)
(* what every byte on the wire is, and how far the reader has come; the    *)
(* decoder is followed byte by byte.                                       *)
(***************************************************************************)
Frame == [size : Nat, what : Connection!Whats]

\* e[i] bytes make up the first i frames and their newlines.
Marks(e) ==
  /\ e \in [0..Len(frames) -> Nat] /\ e[0] = 0
  /\ \A i \in 1..Len(frames) : e[i] = e[i - 1] + frames[i].size + 1

Behind(e) == e[Len(frames)] - Len(wire)

\* What is on the wire is the end of what was written.
OnTheWire(e) ==
  /\ Behind(e) \in Nat
  /\ \A k \in 1..Len(wire), i \in 1..Len(frames) :
       e[i - 1] < Behind(e) + k /\ Behind(e) + k <= e[i] =>
         wire[k] = IF Behind(e) + k = e[i] THEN 0 ELSE i

\* Who has read p bytes has c frames and the first bytes r of the next.
ReadTo(e, p, c, r) ==
  /\ c \in 0..Len(frames)
  /\ e[c] <= p /\ (c < Len(frames) => p < e[c + 1])
  /\ p <= e[Len(frames)]
  /\ r \in Seq(Nat) /\ Len(r) = p - e[c] /\ Len(r) <= MaxFrameBytes
  /\ \A j \in 1..Len(r) : r[j] = c + 1

Ascends(s) == \A i, j \in 1..Len(s) : i < j => s[i] < s[j]

\* The numbers in s are those between b and c that are not blank, in order.
LeavesOutBlanks(s, b, c) ==
  /\ s \in Seq(Nat) /\ Ascends(s)
  /\ \A i \in 1..Len(s) : s[i] \in (b + 1)..c /\ ~Connection!Blank(s[i])
  /\ \A x \in (b + 1)..c : ~Connection!Blank(x) => \E i \in 1..Len(s) : s[i] = x

FramesTyped ==
  /\ frames \in Seq(Frame) /\ Len(frames) <= MaxFrames
  /\ wire \in Seq(Nat) /\ remainder \in Seq(Nat) /\ handled \in Seq(Nat)
  /\ Len(remainder) <= MaxFrameBytes /\ open \in BOOLEAN

WhileOpen ==
  \E e, c :
    /\ Marks(e) /\ OnTheWire(e) /\ ReadTo(e, Behind(e), c, remainder)
    /\ LeavesOutBlanks(handled, 0, c)
    /\ \A i \in 1..c : Connection!Blank(i) \/ Connection!Good(i)

OnceClosed ==
  /\ Ascends(handled) /\ \A i \in 1..Len(handled) : Connection!Good(handled[i])
  /\ \E bad \in 1..Len(frames) :
       /\ ~Connection!Good(bad) /\ ~Connection!Blank(bad)
       /\ \A i \in 1..Len(handled) : handled[i] < bad

StreamInv == FramesTyped /\ (IF open THEN WhileOpen ELSE OnceClosed)

-----------------------------------------------------------------------------

LEMMA StreamCounts == \A S : Connection!Cardinality(S) = Cardinality(S)
BY DEF Connection!Cardinality, Cardinality

\* A later frame ends later.
LEMMA MarksGrow ==
  ASSUME frames \in Seq(Frame), NEW e, Marks(e), NEW i \in 0..Len(frames)
  PROVE  \A j \in i..Len(frames) : e[j] >= e[i] + (j - i)
<1> DEFINE G == {n \in Nat : i + n <= Len(frames) => e[i + n] >= e[i] + n}
<1>0. Len(frames) \in Nat /\ i \in Nat
  BY LenProperties
<1>1. \A k \in 0..Len(frames) : e[k] \in Nat
  BY Zenon DEF Marks
<1>2. 0 \in G
  BY <1>0, <1>1
<1>3. ASSUME NEW n \in Nat, n \in G PROVE n + 1 \in G
  <2>1. CASE i + (n + 1) <= Len(frames)
    <3>1. i + (n + 1) \in 1..Len(frames) /\ (i + (n + 1)) - 1 = i + n /\ i + n \in 0..Len(frames)
      BY <1>0, <2>1
    <3>2. e[i + (n + 1)] = e[i + n] + frames[i + (n + 1)].size + 1
      BY <3>1, Zenon DEF Marks
    <3>3. frames[i + (n + 1)].size \in Nat
      <4>1. frames[i + (n + 1)] \in Frame
        BY <3>1, ElementOfSeq
      <4> QED
        BY <4>1 DEF Frame
    <3>4. e[i + n] >= e[i] + n
      BY <1>0, <1>3, <2>1
    <3> QED
      <4> DEFINE a == e[i + n]
                 b == e[i + (n + 1)]
                 s == frames[i + (n + 1)].size
      <4>1. a \in Nat /\ b \in Nat /\ e[i] \in Nat /\ s \in Nat /\ b = a + s + 1 /\ a >= e[i] + n
        BY <1>0, <1>1, <3>1, <3>2, <3>3, <3>4
      <4> HIDE DEF a, b, s
      <4>2. b >= e[i] + (n + 1)
        BY <4>1
      <4> QED
        BY <4>2 DEF b
  <2>2. CASE ~ (i + (n + 1) <= Len(frames))
    BY <2>2
  <2> QED
    BY <2>1, <2>2
<1>4. \A n \in Nat : n \in G
  <2> HIDE DEF G
  <2>1. \A n \in Nat : n \in G => n + 1 \in G
    BY <1>3
  <2> QED
    BY <1>2, <2>1, CountingUp, Zenon
<1>5. ASSUME NEW j \in i..Len(frames) PROVE e[j] >= e[i] + (j - i)
  <2>1. j - i \in Nat /\ i + (j - i) = j
    BY <1>0
  <2>2. j - i \in G
    BY <1>4, <2>1
  <2> QED
    BY <1>0, <2>1, <2>2
<1> QED
  BY <1>5

\* Every byte that was written belongs to a frame.
LEMMA InAFrame ==
  ASSUME frames \in Seq(Frame), NEW e, Marks(e), NEW p \in 1..e[Len(frames)]
  PROVE  \E i \in 1..Len(frames) : e[i - 1] < p /\ p <= e[i]
<1> DEFINE T == {i \in 0..Len(frames) : p <= e[i]}
<1>0. Len(frames) \in Nat /\ (\A k \in 0..Len(frames) : e[k] \in Nat) /\ e[0] = 0
  BY LenProperties DEF Marks
<1>1. T # {} /\ T \subseteq Nat
  BY <1>0
<1>2. PICK i \in T : \A k \in T : i <= k
  BY <1>1, LeastNumber, Zenon
<1>3. i # 0 /\ i \in 1..Len(frames)
  BY <1>0, <1>2
<1>4. i - 1 \in 0..Len(frames) /\ i - 1 \notin T
  BY <1>0, <1>2, <1>3
<1> QED
  BY <1>0, <1>2, <1>3, <1>4

\* Who has read c frames has seen the newlines of just these.
LEMMA CompleteIs ==
  ASSUME FramesTyped, NEW e, Marks(e), OnTheWire(e), NEW c, NEW r, ReadTo(e, Behind(e), c, r)
  PROVE  Connection!Complete = c
<1> DEFINE N == Len(frames)
           D == Behind(e)
           W == Len(wire)
           ends == {k \in 1..W : wire[k] = 0}
           f == [i \in (c + 1)..N |-> e[i] - D]
<1>0. /\ N \in Nat /\ W \in Nat /\ D \in Nat /\ D = e[N] - W /\ c \in 0..N
      /\ \A k \in 0..N : e[k] \in Nat
      /\ e[c] <= D /\ (c < N => D < e[c + 1])
  BY LenProperties, Zenon DEF FramesTyped, Marks, OnTheWire, Behind, ReadTo
<1>1. \A i, j \in 0..N : i < j => e[i] < e[j]
  <2> SUFFICES ASSUME NEW i \in 0..N, NEW j \in 0..N, i < j PROVE e[i] < e[j]
    OBVIOUS
  <2>1. e[j] >= e[i] + (j - i)
    BY <1>0, MarksGrow DEF FramesTyped
  <2> HIDE DEF N, D, W
  <2> QED
    BY <1>0, <2>1
<1>2. \A k \in 1..W, i \in 1..N : e[i - 1] < D + k /\ D + k <= e[i] => wire[k] = IF D + k = e[i] THEN 0 ELSE i
  BY DEF OnTheWire
<1>3. \A p \in 1..e[N] : \E i \in 1..N : e[i - 1] < p /\ p <= e[i]
  BY InAFrame DEF FramesTyped
<1>4. Connection!Complete = N - Cardinality(ends)
  <2>1. DOMAIN wire = 1..W /\ Connection!Newline = 0
    BY LenProperties DEF FramesTyped, Connection!Newline
  <2> QED
    BY <2>1, StreamCounts, Zenon DEF Connection!Complete
<1> HIDE DEF N, D, W
<1>5. \A i \in (c + 1)..N : e[i] > D
  <2> SUFFICES ASSUME NEW i \in (c + 1)..N PROVE e[i] > D
    OBVIOUS
  <2>1. e[c + 1] > D /\ c + 1 \in 0..N /\ e[c + 1] \in Nat /\ e[i] \in Nat
    BY <1>0
  <2>2. i # c + 1 => e[c + 1] < e[i]
    BY <1>0, <1>1
  <2> QED
    BY <1>0, <2>1, <2>2
<1>6. \A i \in (c + 1)..N : e[i] - D \in ends
  <2> SUFFICES ASSUME NEW i \in (c + 1)..N PROVE e[i] - D \in ends
    OBVIOUS
  <2>1. /\ i \in 1..N /\ i - 1 \in 0..N /\ e[i] \in Nat /\ e[i - 1] \in Nat /\ e[N] \in Nat
        /\ e[i - 1] < e[i] /\ e[i] > D
    BY <1>0, <1>1, <1>5
  <2>2. e[i] <= e[N]
    <3>1. i # N => e[i] < e[N]
      BY <1>0, <1>1
    <3> QED
      BY <2>1, <3>1
  <2>3. e[i] - D \in 1..W /\ D + (e[i] - D) = e[i]
    BY <1>0, <2>1, <2>2
  <2>4. wire[e[i] - D] = 0
    BY <1>2, <2>1, <2>3
  <2> QED
    BY <2>3, <2>4
<1>7. \A k \in ends : \E i \in (c + 1)..N : f[i] = k
  <2> SUFFICES ASSUME NEW k \in ends PROVE \E i \in (c + 1)..N : f[i] = k
    OBVIOUS
  <2>1. k \in 1..W /\ wire[k] = 0 /\ D + k \in 1..e[N]
    BY <1>0
  <2>2. PICK i \in 1..N : e[i - 1] < D + k /\ D + k <= e[i]
    BY <1>3, <2>1
  <2>3. D + k = e[i]
    BY <1>2, <2>1, <2>2
  <2>4. i \in 0..N /\ e[i] \in Nat /\ e[c] \in Nat /\ e[c] < e[i]
    BY <1>0, <2>1, <2>2, <2>3
  <2>5. i > c
    <3>1. i < c => e[i] < e[c]
      BY <1>0, <1>1, <2>4
    <3> QED
      BY <1>0, <2>4, <3>1
  <2>6. i \in (c + 1)..N /\ e[i] - D = k
    BY <1>0, <2>1, <2>2, <2>3, <2>5
  <2> QED
    BY <2>6
<1>8. \A i, j \in (c + 1)..N : f[i] = f[j] => i = j
  <2> SUFFICES ASSUME NEW i \in (c + 1)..N, NEW j \in (c + 1)..N, f[i] = f[j] PROVE i = j
    OBVIOUS
  <2>1. i \in 0..N /\ j \in 0..N /\ e[i] \in Nat /\ e[j] \in Nat /\ e[i] = e[j]
    BY <1>0
  <2>2. (i < j => e[i] < e[j]) /\ (j < i => e[j] < e[i])
    BY <1>1, <2>1
  <2> QED
    BY <2>1, <2>2
<1>9. f \in [(c + 1)..N -> ends]
  <2> HIDE DEF ends
  <2> QED
    BY <1>6
<1> HIDE DEF ends, f
<1>10. f \in Bijection((c + 1)..N, ends)
  BY <1>7, <1>8, <1>9 DEF Bijection, Injection, Surjection, IsInjective
<1>11. IsFiniteSet((c + 1)..N) /\ Cardinality((c + 1)..N) = N - c
  <2>1. c + 1 \in Int /\ N \in Int
    BY <1>0
  <2>2. /\ IsFiniteSet((c + 1)..N)
        /\ Cardinality((c + 1)..N) = IF c + 1 > N THEN 0 ELSE N - (c + 1) + 1
    BY <2>1, FS_Interval
  <2> QED
    BY <1>0, <2>2
<1>12. Cardinality(ends) = N - c
  BY <1>10, <1>11, FS_Bijection DEF ExistsBijection
<1> QED
  BY <1>0, <1>4, <1>12

-----------------------------------------------------------------------------

\* The decoder, at every byte.
Decoders == [remainder : Seq(Nat), decoded : Seq(Nat), failed : BOOLEAN]

LEMMA PushIsADecoder ==
  ASSUME NEW d \in Decoders, NEW byte \in Nat
  PROVE  Connection!Push(d, byte) \in Decoders
<1>1. /\ d.remainder \in Seq(Nat) /\ d.decoded \in Seq(Nat) /\ d.failed \in BOOLEAN
      /\ <<>> \in Seq(Nat) /\ Append(d.remainder, byte) \in Seq(Nat)
  BY DEF Decoders
<1>2. d.remainder # <<>> => Append(d.decoded, d.remainder[1]) \in Seq(Nat)
  <2>1. d.remainder # <<>> => 1 \in 1..Len(d.remainder)
    BY <1>1, EmptySeq
  <2> QED
    BY <1>1, <2>1, ElementOfSeq
<1> QED
  BY <1>1, <1>2, Zenon DEF Connection!Push, Decoders

LEMMA DecodedIs ==
  ASSUME FramesTyped
  PROVE  /\ Connection!Decoded[0] = Connection!Decoder
         /\ \A k \in 0..Len(wire) : Connection!Decoded[k] \in Decoders
         /\ \A k \in 1..Len(wire) : Connection!Decoded[k] = Connection!Push(Connection!Decoded[k - 1], wire[k])
<1> DEFINE L == Len(wire)
           step == [k \in 1..L |-> [d \in Decoders |-> Connection!Push(d, wire[k])]]
           Is(f) == f = [k \in 0..L |-> IF k = 0 THEN Connection!Decoder ELSE Connection!Push(f[k - 1], wire[k])]
<1>0. L \in Nat /\ \A k \in 1..L : wire[k] \in Nat
  BY LenProperties DEF FramesTyped
<1>1. Connection!Decoder \in Decoders
  BY DEF Connection!Decoder, Decoders, FramesTyped
<1>2. step \in FoldSteps(L, Decoders)
  BY <1>0, PushIsADecoder DEF FoldSteps
<1>3. PICK f \in [0..L -> Decoders] : f[0] = Connection!Decoder /\ \A k \in 1..L : f[k] = step[k][f[k - 1]]
  <2>1. Folds(L, Decoders, Connection!Decoder, step) # {}
    <3> HIDE DEF L, step
    <3> QED
      BY <1>0, <1>1, <1>2, FoldIsDefined
  <2> HIDE DEF L, step
  <2> QED
    BY <2>1 DEF Folds
<1>4. \A k \in 1..L : f[k] = Connection!Push(f[k - 1], wire[k])
  <2> SUFFICES ASSUME NEW k \in 1..L PROVE f[k] = Connection!Push(f[k - 1], wire[k])
    OBVIOUS
  <2>1. k - 1 \in 0..L /\ f[k - 1] \in Decoders
    BY <1>0, <1>3
  <2>2. f[k] = step[k][f[k - 1]]
    BY <1>3
  <2>3. step[k][f[k - 1]] = Connection!Push(f[k - 1], wire[k])
    BY <2>1
  <2> QED
    BY <2>2, <2>3
<1>5. Is(f)
  <2> DEFINE g == [k \in 0..L |-> IF k = 0 THEN Connection!Decoder ELSE Connection!Push(f[k - 1], wire[k])]
  <2>1. \A k \in 0..L : f[k] = g[k]
    BY <1>0, <1>3, <1>4
  <2>2. f = g
    BY <1>3, <2>1
  <2> QED
    BY <2>2, Zenon
<1>6. Connection!Decoded = CHOOSE g : Is(g)
  BY DEF Connection!Decoded
<1>7. Is(Connection!Decoded)
  <2> HIDE DEF Is
  <2> QED
    BY <1>5, <1>6
<1>8. \A k \in 0..L : Connection!Decoded[k] = IF k = 0 THEN Connection!Decoder ELSE Connection!Push(Connection!Decoded[k - 1], wire[k])
  BY <1>7
<1> DEFINE D == Connection!Decoded
           G == {n \in Nat : n <= L => D[n] \in Decoders}
<1>9. D[0] = Connection!Decoder /\ \A k \in 1..L : D[k] = Connection!Push(D[k - 1], wire[k])
  BY <1>0, <1>8
<1> HIDE DEF D
<1>10. 0 \in G
  BY <1>1, <1>9
<1>11. ASSUME NEW n \in Nat, n \in G PROVE n + 1 \in G
  <2>1. n + 1 <= L => D[n + 1] = Connection!Push(D[n], wire[n + 1]) /\ D[n] \in Decoders /\ wire[n + 1] \in Nat
    <3>1. n + 1 <= L => n + 1 \in 1..L /\ (n + 1) - 1 = n
      BY <1>0
    <3> QED
      BY <1>0, <1>9, <1>11, <3>1
  <2> QED
    BY <2>1, PushIsADecoder
<1>12. \A n \in Nat : n \in G
  <2> HIDE DEF G
  <2>1. \A n \in Nat : n \in G => n + 1 \in G
    BY <1>11
  <2> QED
    BY <1>10, <2>1, CountingUp, Zenon
<1> QED
  BY <1>0, <1>9, <1>12 DEF D

Json(i) == frames[i].size \in 1..MaxFrameBytes /\ frames[i].what # "no json"

\* Behind p bytes, of which the decoder got those behind b frames.
HasDecoded(d, e, p, b) ==
  IF d.failed
  THEN d.remainder = <<>> /\ \E bad \in (b + 1)..Len(frames) : ~Connection!Good(bad) /\ ~Connection!Blank(bad)
  ELSE \E c \in b..Len(frames) :
         /\ ReadTo(e, p, c, d.remainder) /\ LeavesOutBlanks(d.decoded, b, c)
         /\ \A i \in (b + 1)..c : Connection!Blank(i) \/ Json(i)

LEMMA OneMore ==
  ASSUME NEW b \in Nat, NEW c \in Nat, b <= c, NEW s, LeavesOutBlanks(s, b, c)
  PROVE  /\ Connection!Blank(c + 1) => LeavesOutBlanks(s, b, c + 1)
         /\ ~Connection!Blank(c + 1) => LeavesOutBlanks(Append(s, c + 1), b, c + 1)
<1>1. s \in Seq(Nat) /\ Len(s) \in Nat /\ c + 1 \in Nat
  BY LenProperties DEF LeavesOutBlanks
<1>2. \A i \in 1..Len(s) : s[i] \in (b + 1)..c /\ ~Connection!Blank(s[i])
  BY DEF LeavesOutBlanks
<1>3. \A x \in (b + 1)..c : ~Connection!Blank(x) => \E i \in 1..Len(s) : s[i] = x
  BY DEF LeavesOutBlanks
<1>4. \A i, j \in 1..Len(s) : i < j => s[i] < s[j]
  BY DEF LeavesOutBlanks, Ascends
<1>5. CASE Connection!Blank(c + 1)
  <2>1. \A x \in (b + 1)..(c + 1) : x = c + 1 \/ x \in (b + 1)..c
    OBVIOUS
  <2>2. \A i \in 1..Len(s) : s[i] \in (b + 1)..(c + 1) /\ ~Connection!Blank(s[i])
    BY <1>2
  <2>3. \A x \in (b + 1)..(c + 1) : ~Connection!Blank(x) => \E i \in 1..Len(s) : s[i] = x
    BY <1>3, <1>5, <2>1
  <2> QED
    BY <1>1, <1>4, <1>5, <2>2, <2>3 DEF LeavesOutBlanks, Ascends
<1>6. CASE ~Connection!Blank(c + 1)
  <2> DEFINE t == Append(s, c + 1)
  <2>1. /\ t \in Seq(Nat) /\ Len(t) = Len(s) + 1 /\ t[Len(s) + 1] = c + 1
        /\ \A i \in 1..Len(s) : t[i] = s[i]
    BY <1>1, AppendProperties
  <2> HIDE DEF t
  <2>2. \A i \in 1..Len(t) : i \in 1..Len(s) \/ i = Len(s) + 1
    BY <1>1, <2>1
  <2>3. ASSUME NEW i \in 1..Len(t) PROVE t[i] \in (b + 1)..(c + 1) /\ ~Connection!Blank(t[i])
    <3>1. CASE i \in 1..Len(s)
      <4>1. t[i] = s[i] /\ s[i] \in (b + 1)..c /\ ~Connection!Blank(s[i])
        BY <1>2, <2>1, <3>1, Zenon
      <4> QED
        BY <4>1
    <3>2. CASE i = Len(s) + 1
      <4>1. t[i] = c + 1
        BY <2>1, <3>2
      <4> QED
        BY <1>6, <4>1
    <3> QED
      BY <2>2, <3>1, <3>2
  <2>4. ASSUME NEW x \in (b + 1)..(c + 1), ~Connection!Blank(x) PROVE \E i \in 1..Len(t) : t[i] = x
    <3>1. CASE x = c + 1
      <4>1. Len(s) + 1 \in 1..Len(t)
        BY <1>1, <2>1
      <4> QED
        BY <2>1, <3>1, <4>1
    <3>2. CASE x \in (b + 1)..c
      <4>1. PICK i \in 1..Len(s) : s[i] = x
        BY <1>3, <2>4, <3>2
      <4>2. i \in 1..Len(t) /\ t[i] = x
        BY <1>1, <2>1, <4>1
      <4> QED
        BY <4>2
    <3> QED
      BY <3>1, <3>2
  <2>5. ASSUME NEW i \in 1..Len(t), NEW j \in 1..Len(t), i < j PROVE t[i] < t[j]
    <3>1. i \in 1..Len(s) /\ t[i] = s[i] /\ s[i] <= c
      <4>1. i \in 1..Len(s)
        BY <1>1, <2>1, <2>5
      <4>2. s[i] \in (b + 1)..c
        BY <1>2, <4>1
      <4> QED
        BY <2>1, <4>1, <4>2
    <3>2. CASE j \in 1..Len(s)
      BY <1>4, <2>1, <2>5, <3>1, <3>2, Zenon
    <3>3. CASE j = Len(s) + 1
      BY <1>2, <2>1, <3>1, <3>3
    <3> QED
      BY <2>2, <3>2, <3>3
  <2>6. LeavesOutBlanks(t, b, c + 1)
    BY <2>1, <2>3, <2>4, <2>5 DEF LeavesOutBlanks, Ascends
  <2> QED
    BY <1>6, <2>6 DEF t
<1> QED
  BY <1>5, <1>6

LEMMA ReadToIs ==
  ASSUME NEW e, NEW p, NEW c \in 0..Len(frames), NEW r \in Seq(Nat),
         e[c] <= p, c < Len(frames) => p < e[c + 1], p <= e[Len(frames)],
         Len(r) = p - e[c], Len(r) <= MaxFrameBytes, \A j \in 1..Len(r) : r[j] = c + 1
  PROVE  ReadTo(e, p, c, r)
BY DEF ReadTo

LEMMA PushStep ==
  ASSUME FramesTyped, MaxFrameBytes \in Nat, NEW e, Marks(e), OnTheWire(e), NEW k \in 1..Len(wire),
         NEW d \in Decoders, NEW b \in 0..Len(frames), HasDecoded(d, e, Behind(e) + k - 1, b)
  PROVE  HasDecoded(Connection!Push(d, wire[k]), e, Behind(e) + k, b)
<1> DEFINE N == Len(frames)
           p == Behind(e) + k - 1
           q == Connection!Push(d, wire[k])
           last == e[N]
           bad(x) == ~Connection!Good(x) /\ ~Connection!Blank(x)
<1>0. /\ N \in Nat /\ p \in Nat /\ b \in Nat /\ last \in Nat
      /\ p + 1 = Behind(e) + k /\ p + 1 <= last
      /\ \A i \in 0..N : e[i] \in Nat
  <2>1. N \in Nat /\ Len(wire) \in Nat
    BY LenProperties DEF FramesTyped
  <2>2. N \in 0..N
    BY <2>1
  <2>3. \A i \in 0..N : e[i] \in Nat
    BY DEF Marks
  <2>4. Behind(e) \in Nat /\ Behind(e) = last - Len(wire)
    BY DEF OnTheWire, Behind
  <2>5. last \in Nat
    BY <2>2, <2>3
  <2> HIDE DEF N, last
  <2> QED
    BY <2>1, <2>3, <2>4, <2>5 DEF N
<1>1. CASE d.failed
  <2>1. q = d
    BY <1>1 DEF Connection!Push
  <2> QED
    BY <1>1, <2>1 DEF HasDecoded
<1>2. CASE ~d.failed
  <2>1. PICK c \in b..N :
          /\ ReadTo(e, p, c, d.remainder) /\ LeavesOutBlanks(d.decoded, b, c)
          /\ \A i \in (b + 1)..c : Connection!Blank(i) \/ Json(i)
    BY <1>2 DEF HasDecoded
  <2> DEFINE r == d.remainder
             len == Len(r)
             size == frames[c + 1].size
             from == e[c]
             to == e[c + 1]
  <2>2. /\ c \in 0..N /\ from <= p /\ (c < N => p < to) /\ r \in Seq(Nat) /\ len = p - from
        /\ len <= MaxFrameBytes /\ \A j \in 1..len : r[j] = c + 1
    BY <2>1 DEF ReadTo
  <2>3. c < N /\ c + 1 \in 1..N /\ c + 1 \in 0..N /\ c \in Nat /\ c \in 0..N /\ (c + 1) - 1 = c
    <3>1. c = N => last <= p
      BY <2>2
    <3> HIDE DEF N, p, last
    <3>2. c # N
      <4>1. last \in Nat /\ p \in Nat /\ p + 1 <= last
        BY <1>0
      <4> QED
        BY <3>1, <4>1
    <3>3. N \in Nat /\ b \in Nat /\ c \in 0..N
      BY <1>0, <2>2
    <3> QED
      BY <3>2, <3>3
  <2>4. size \in Nat /\ to = from + size + 1 /\ frames[c + 1].what \in Connection!Whats
    <3>1. frames[c + 1] \in Frame
      BY <2>3, ElementOfSeq DEF FramesTyped
    <3>2. e[c + 1] = e[(c + 1) - 1] + size + 1
      BY <2>3, Zenon DEF Marks
    <3> QED
      BY <2>3, <3>1, <3>2, Zenon DEF Frame
  <2>5. wire[k] = IF p + 1 = to THEN 0 ELSE c + 1
    <3>1. p < p + 1 /\ from < p + 1 /\ p + 1 <= to
      <4>1. from \in Nat /\ to \in Nat /\ from <= p /\ p < to /\ p \in Nat
        BY <1>0, <2>2, <2>3
      <4> HIDE DEF from, to, p
      <4> QED
        BY <4>1
    <3>2. e[(c + 1) - 1] < Behind(e) + k /\ Behind(e) + k <= e[c + 1]
      BY <1>0, <2>3, <3>1
    <3>3. wire[k] = IF Behind(e) + k = e[c + 1] THEN 0 ELSE c + 1
      BY <2>3, <3>2 DEF OnTheWire
    <3> QED
      BY <1>0, <3>3
  <2>6. from \in Nat /\ to \in Nat /\ len \in Nat
    BY <1>0, <2>2, <2>3, LenProperties, Zenon
  <2>7. /\ to <= last
        /\ c + 1 < N => to < e[(c + 1) + 1]
    <3>1. N \in (c + 1)..N /\ (c + 1 < N => (c + 1) + 1 \in (c + 1)..N /\ (c + 1) + 1 \in 0..N)
      BY <1>0, <2>3
    <3>2. \A j \in (c + 1)..N : e[j] >= to + (j - (c + 1))
      BY <2>3, MarksGrow, Zenon DEF FramesTyped
    <3>3. last >= to + (N - (c + 1)) /\ N - (c + 1) \in Nat
      BY <1>0, <2>3, <3>1, <3>2
    <3>4. c + 1 < N => e[(c + 1) + 1] >= to + 1 /\ e[(c + 1) + 1] \in Nat
      <4>1. c + 1 < N => e[(c + 1) + 1] >= to + (((c + 1) + 1) - (c + 1)) /\ e[(c + 1) + 1] \in Nat
        BY <1>0, <3>1, <3>2, Zenon
      <4>2. ((c + 1) + 1) - (c + 1) = 1
        BY <2>3
      <4> QED
        BY <4>1, <4>2
    <3> HIDE DEF last, to, N
    <3> QED
      BY <1>0, <2>3, <2>6, <3>3, <3>4
  <2>8. d = [remainder |-> r, decoded |-> d.decoded, failed |-> FALSE]
    BY <1>2 DEF Decoders
  <2>9. Connection!Newline = 0
    BY DEF Connection!Newline
  <2> HIDE DEF N, p, last, from, to, len
  <2>10. CASE p + 1 # to /\ len = MaxFrameBytes
    <3>1. wire[k] # Connection!Newline
      BY <2>3, <2>5, <2>9, <2>10
    <3>2. q.failed /\ q.remainder = <<>>
      BY <1>2, <2>8, <2>10, <3>1 DEF Connection!Push, len
    <3>3. size > MaxFrameBytes
      <4> HIDE DEF size
      <4> QED
        BY <1>0, <2>2, <2>3, <2>4, <2>6, <2>10
    <3>4. bad(c + 1)
      BY <2>4, <3>3 DEF Connection!Good, Connection!Blank
    <3>5. c + 1 \in (b + 1)..N
      BY <1>0, <2>1, <2>3
    <3> HIDE DEF q
    <3> QED
      BY <3>2, <3>4, <3>5 DEF HasDecoded, N, q
  <2>11. CASE p + 1 # to /\ len # MaxFrameBytes
    <3> DEFINE s == Append(r, c + 1)
    <3>1. wire[k] = c + 1 /\ wire[k] # Connection!Newline
      BY <2>3, <2>5, <2>9, <2>11
    <3>2. q = [remainder |-> s, decoded |-> d.decoded, failed |-> FALSE]
      <4>1. Len(d.remainder) # MaxFrameBytes /\ ~d.failed
        BY <1>2, <2>11 DEF len
      <4> QED
        BY <3>1, <4>1 DEF Connection!Push
    <3>3. /\ s \in Seq(Nat) /\ Len(s) = len + 1
          /\ \A j \in 1..len : s[j] = r[j]
          /\ s[len + 1] = c + 1
      <4>1. c + 1 \in Nat /\ r \in Seq(Nat)
        BY <2>2, <2>3
      <4> QED
        BY <4>1, AppendProperties DEF len
    <3> HIDE DEF s
    <3>4. \A j \in 1..Len(s) : s[j] = c + 1
      <4> SUFFICES ASSUME NEW j \in 1..Len(s) PROVE s[j] = c + 1
        OBVIOUS
      <4>1. j \in 1..len \/ j = len + 1
        BY <2>6, <3>3
      <4> QED
        BY <2>2, <3>3, <4>1, Zenon
    <3>5. /\ from <= p + 1 /\ p + 1 < to /\ p + 1 <= last
          /\ Len(s) = (p + 1) - from /\ Len(s) <= MaxFrameBytes
      BY <1>0, <2>2, <2>3, <2>6, <2>11, <3>3
    <3>6. ReadTo(e, p + 1, c, s)
      <4>1. /\ c \in 0..Len(frames) /\ e[c] <= p + 1 /\ p + 1 < e[c + 1] /\ p + 1 <= e[Len(frames)]
            /\ s \in Seq(Nat) /\ Len(s) = (p + 1) - e[c] /\ Len(s) <= MaxFrameBytes
        BY <2>3, <3>3, <3>5, Zenon DEF N, from, to, last
      <4> QED
        BY <3>4, <4>1, ReadToIs, Zenon
    <3>7. ReadTo(e, Behind(e) + k, c, q.remainder) /\ q.decoded = d.decoded /\ ~q.failed
      BY <1>0, <3>2, <3>6
    <3> HIDE DEF q
    <3> QED
      BY <2>1, <3>7 DEF HasDecoded, N, q
  <2>12. CASE p + 1 = to
    <3>1. wire[k] = Connection!Newline /\ len = size
      <4>1. wire[k] = Connection!Newline
        BY <2>5, <2>9, <2>12
      <4> HIDE DEF size
      <4> QED
        BY <1>0, <2>2, <2>4, <2>6, <2>12, <4>1
    <3>2. ReadTo(e, p + 1, c + 1, <<>>)
      <4>1. <<>> \in Seq(Nat) /\ Len(<<>>) = 0 /\ 1..0 = {}
        BY EmptySeq
      <4>2. /\ c + 1 \in 0..N /\ e[c + 1] <= p + 1 /\ p + 1 <= e[N] /\ (p + 1) - e[c + 1] = 0
            /\ 0 <= MaxFrameBytes
        <5>1. to <= p + 1 /\ p + 1 <= last /\ (p + 1) - to = 0
          BY <1>0, <2>6, <2>7, <2>12
        <5> QED
          BY <2>3, <5>1 DEF to, last
      <4>3. c + 1 < N => p + 1 < e[(c + 1) + 1]
        BY <2>7, <2>12
      <4>4. /\ c + 1 \in 0..Len(frames) /\ e[c + 1] <= p + 1 /\ p + 1 <= e[Len(frames)]
            /\ c + 1 < Len(frames) => p + 1 < e[(c + 1) + 1]
            /\ Len(<<>>) = (p + 1) - e[c + 1] /\ Len(<<>>) <= MaxFrameBytes
            /\ \A j \in 1..Len(<<>>) : <<>>[j] = c + 1 + 1
        BY <4>1, <4>2, <4>3 DEF N
      <4> QED
        BY <4>1, <4>4, ReadToIs, Zenon
    <3>3. c + 1 \in b..N /\ c + 1 \in (b + 1)..N /\ b <= c
      BY <1>0, <2>1, <2>3
    <3>4. \A i \in (b + 1)..(c + 1) : i = c + 1 \/ i \in (b + 1)..c
      BY <1>0, <2>3
    <3>5. CASE r = <<>>
      <4>1. q = d
        BY <1>2, <3>1, <3>5 DEF Connection!Push
      <4>2. Connection!Blank(c + 1)
        BY <3>1, <3>5, EmptySeq, Zenon DEF Connection!Blank, len
      <4>3. LeavesOutBlanks(d.decoded, b, c + 1)
        BY <1>0, <2>1, <2>3, <3>3, <4>2, OneMore
      <4>4. \A i \in (b + 1)..(c + 1) : Connection!Blank(i) \/ Json(i)
        BY <2>1, <3>4, <4>2
      <4>5. ReadTo(e, Behind(e) + k, c + 1, q.remainder) /\ q.decoded = d.decoded /\ ~q.failed
        BY <1>0, <1>2, <3>2, <3>5, <4>1
      <4> HIDE DEF q
      <4> QED
        BY <3>3, <4>3, <4>4, <4>5 DEF HasDecoded, N, q
    <3>6. CASE r # <<>>
      <4>1. len > 0 /\ 1 \in 1..len /\ r[1] = c + 1 /\ DOMAIN r = 1..len
        <5>1. len \in Nat \ {0} /\ DOMAIN r = 1..len
          BY <2>2, <3>6, EmptySeq, LenProperties, Zenon DEF len
        <5>2. 1 \in 1..len
          BY <5>1
        <5> QED
          BY <2>2, <5>1, <5>2
      <4>2. ~Connection!Blank(c + 1) /\ size \in 1..MaxFrameBytes
        <5>1. size \in 1..MaxFrameBytes
          BY <2>2, <2>6, <3>1, <4>1
        <5> QED
          BY <5>1 DEF Connection!Blank
      <4>3. Connection!IsJson(r) <=> frames[c + 1].what # "no json"
        BY <2>2, <3>1, <4>1, Zenon DEF Connection!IsJson, len
      <4>4. CASE Connection!IsJson(r)
        <5>1. q = [remainder |-> <<>>, decoded |-> Append(d.decoded, c + 1), failed |-> FALSE]
          <6>1. d.remainder[1] = c + 1 /\ d.remainder # <<>>
            BY <3>6, <4>1
          <6> QED
            BY <1>2, <3>1, <4>4, <6>1 DEF Connection!Push
        <5>2. LeavesOutBlanks(Append(d.decoded, c + 1), b, c + 1)
          BY <1>0, <2>1, <2>3, <3>3, <4>2, OneMore, Zenon
        <5>3. Json(c + 1)
          BY <4>2, <4>3, <4>4, Zenon DEF Json
        <5>4. \A i \in (b + 1)..(c + 1) : Connection!Blank(i) \/ Json(i)
          BY <2>1, <3>4, <5>3
        <5>5. ReadTo(e, Behind(e) + k, c + 1, q.remainder) /\ q.decoded = Append(d.decoded, c + 1) /\ ~q.failed
          BY <1>0, <3>2, <5>1
        <5> HIDE DEF q
        <5> QED
          BY <3>3, <5>2, <5>4, <5>5 DEF HasDecoded, N, q
      <4>5. CASE ~Connection!IsJson(r)
        <5>1. q.failed /\ q.remainder = <<>>
          <6>1. q = [d EXCEPT !.failed = TRUE, !.remainder = <<>>]
            BY <1>2, <3>1, <3>6, <4>5 DEF Connection!Push
          <6> HIDE DEF q
          <6> QED
            BY <2>8, <6>1
        <5>2. bad(c + 1)
          BY <4>2, <4>3, <4>5, Zenon DEF Connection!Good
        <5> HIDE DEF q
        <5> QED
          BY <3>3, <5>1, <5>2 DEF HasDecoded, N, q
      <4> QED
        BY <4>4, <4>5
    <3> QED
      BY <3>5, <3>6
  <2> QED
    BY <2>10, <2>11, <2>12
<1> QED
  BY <1>1, <1>2

LEMMA Decodes ==
  ASSUME FramesTyped, MaxFrameBytes \in Nat, NEW e, Marks(e), OnTheWire(e), NEW b,
         ReadTo(e, Behind(e), b, remainder), NEW n \in 1..Len(wire)
  PROVE  Connection!Decoded[n] \in Decoders /\ HasDecoded(Connection!Decoded[n], e, Behind(e) + n, b)
<1> DEFINE D == Connection!Decoded
           L == Len(wire)
           G == {k \in Nat : k <= L => HasDecoded(D[k], e, Behind(e) + k, b)}
<1>0. L \in Nat /\ Behind(e) \in Nat /\ b \in 0..Len(frames) /\ Len(frames) \in Nat
  BY LenProperties DEF FramesTyped, OnTheWire, ReadTo
<1>1. /\ D[0] = Connection!Decoder
      /\ \A k \in 0..L : D[k] \in Decoders
      /\ \A k \in 1..L : D[k] = Connection!Push(D[k - 1], wire[k])
  BY DecodedIs
<1> HIDE DEF D, L
<1>2. 0 \in G
  <2>1. LeavesOutBlanks(<<>>, b, b)
    <3>1. <<>> \in Seq(Nat) /\ Len(<<>>) = 0 /\ 1..0 = {} /\ (b + 1)..b = {}
      BY <1>0, EmptySeq
    <3> QED
      BY <3>1 DEF LeavesOutBlanks, Ascends
  <2>2. /\ D[0].remainder = remainder /\ D[0].decoded = <<>> /\ ~D[0].failed
        /\ Behind(e) + 0 = Behind(e) /\ (b + 1)..b = {} /\ b \in b..Len(frames)
    BY <1>0, <1>1 DEF Connection!Decoder
  <2>3. HasDecoded(D[0], e, Behind(e) + 0, b)
    BY <2>1, <2>2 DEF HasDecoded
  <2> QED
    BY <2>3
<1>3. ASSUME NEW k \in Nat, k \in G PROVE k + 1 \in G
  <2>1. CASE k + 1 <= L
    <3>1. k + 1 \in 1..L /\ k \in 0..L /\ (k + 1) - 1 = k /\ Behind(e) + (k + 1) - 1 = Behind(e) + k
      BY <1>0, <2>1
    <3>2. HasDecoded(D[k], e, Behind(e) + k, b)
      BY <1>3, <2>1, <1>0
    <3>3. D[k + 1] = Connection!Push(D[k], wire[k + 1]) /\ D[k] \in Decoders
      BY <1>1, <3>1
    <3>4. HasDecoded(D[k + 1], e, Behind(e) + (k + 1), b)
      BY <1>0, <3>1, <3>2, <3>3, PushStep, Zenon DEF L
    <3> QED
      BY <3>4
  <2>2. CASE ~ (k + 1 <= L)
    BY <2>2
  <2> QED
    BY <2>1, <2>2
<1>4. \A k \in Nat : k \in G
  <2> HIDE DEF G
  <2>1. \A k \in Nat : k \in G => k + 1 \in G
    BY <1>3
  <2> QED
    BY <1>2, <2>1, CountingUp, Zenon
<1>5. n \in Nat /\ n <= L /\ n \in 0..L
  BY <1>0 DEF L
<1>6. n \in G
  BY <1>4, <1>5
<1> QED
  BY <1>1, <1>5, <1>6 DEF D

-----------------------------------------------------------------------------

LEMMA StreamInitially == Connection!Init => StreamInv
<1> SUFFICES ASSUME Connection!Init PROVE StreamInv
  OBVIOUS
<1> DEFINE e == [i \in 0..0 |-> 0]
<1>1. /\ frames = <<>> /\ wire = <<>> /\ remainder = <<>> /\ handled = <<>> /\ open = TRUE
      /\ MaxFrameBytes \in Nat /\ MaxFrames \in Nat
  BY FramesHaveSizes DEF Connection!Init, Connection!FrameAssumption
<1>2. /\ \A S : <<>> \in Seq(S)
      /\ Len(<<>>) = 0 /\ 1..0 = {} /\ 1 > 0 /\ (0 + 1)..0 = {}
  BY EmptySeq
<1>3. FramesTyped
  BY <1>1, <1>2 DEF FramesTyped
<1>4. Marks(e) /\ e[0] = 0
  <2>1. e \in [0..0 -> Nat] /\ e[0] = 0
    OBVIOUS
  <2> HIDE DEF e
  <2> QED
    BY <1>1, <1>2, <2>1 DEF Marks
<1> HIDE DEF e
<1>5. OnTheWire(e) /\ Behind(e) = 0
  BY <1>1, <1>2, <1>4 DEF OnTheWire, Behind
<1>6. ReadTo(e, Behind(e), 0, remainder)
  BY <1>1, <1>2, <1>4, <1>5 DEF ReadTo
<1>7. LeavesOutBlanks(handled, 0, 0)
  BY <1>1, <1>2 DEF LeavesOutBlanks, Ascends
<1>8. \A i \in 1..0 : Connection!Blank(i) \/ Connection!Good(i)
  BY <1>2
<1> QED
  BY <1>1, <1>3, <1>4, <1>5, <1>6, <1>7, <1>8 DEF StreamInv, WhileOpen

\* A frame more makes the wire longer by its bytes.
LEMMA WriteFrameStep ==
  ASSUME StreamInv, NEW size \in FrameSizes, NEW what \in Connection!Whats,
         Connection!WriteFrame(size, what)
  PROVE  StreamInv'
<1> DEFINE N == Len(frames)
           W == Len(wire)
           new == [size |-> size, what |-> what]
           tail == [j \in 1..size |-> N + 1]
           bytes == Connection!Bytes(N + 1, size)
<1>1. /\ open /\ Len(frames) < MaxFrames /\ frames' = Append(frames, new) /\ wire' = wire \o bytes
      /\ UNCHANGED <<remainder, handled, open>>
  BY DEF Connection!WriteFrame
<1>2. /\ FramesTyped /\ N \in Nat /\ W \in Nat /\ size \in Nat /\ MaxFrames \in Nat /\ MaxFrameBytes \in Nat
      /\ frames \in Seq(Frame) /\ wire \in Seq(Nat) /\ new \in Frame
  BY LenProperties, FramesHaveSizes DEF StreamInv, FramesTyped, Connection!FrameAssumption, Frame
<1>3. PICK e, c :
        /\ Marks(e) /\ OnTheWire(e) /\ ReadTo(e, Behind(e), c, remainder)
        /\ LeavesOutBlanks(handled, 0, c)
        /\ \A i \in 1..c : Connection!Blank(i) \/ Connection!Good(i)
  BY <1>1 DEF StreamInv, WhileOpen
<1> DEFINE last == e[N]
           B == Behind(e)
<1>4. /\ bytes \in Seq(Nat) /\ Len(bytes) = size + 1 /\ bytes[size + 1] = 0
      /\ \A j \in 1..size : bytes[j] = N + 1
  <2>1. tail \in Seq(Nat) /\ Len(tail) = size /\ \A j \in 1..size : tail[j] = N + 1
    <3>1. tail \in [1..size -> Nat]
      BY <1>2
    <3> HIDE DEF tail
    <3>2. tail \in Seq(Nat)
      BY <1>2, <3>1, SeqDef
    <3>3. Len(tail) = size
      BY <1>2, <3>1, <3>2, LenProperties
    <3> QED
      BY <3>2, <3>3, Zenon DEF tail
  <2>2. bytes = Append(tail, 0)
    BY DEF Connection!Bytes, Connection!Newline
  <2> HIDE DEF tail, bytes
  <2> QED
    BY <1>2, <2>1, <2>2, AppendProperties
<1> HIDE DEF bytes
<1>5. /\ wire' \in Seq(Nat) /\ Len(wire') = W + (size + 1)
      /\ \A k \in 1..W : wire'[k] = wire[k]
      /\ \A k \in (W + 1)..(W + (size + 1)) : wire'[k] = bytes[k - W]
  <2>1. /\ wire' \in Seq(Nat) /\ Len(wire') = W + (size + 1)
        /\ \A k \in 1..W + (size + 1) : wire'[k] = IF k <= W THEN wire[k] ELSE bytes[k - W]
    <3>1. bytes \in Seq(Nat) /\ Len(bytes) = size + 1 /\ wire' = wire \o bytes /\ wire \in Seq(Nat)
      BY <1>1, <1>2, <1>4
    <3>2. /\ wire' \in Seq(Nat) /\ Len(wire') = Len(wire) + Len(bytes)
          /\ \A k \in 1..Len(wire) + Len(bytes) :
               wire'[k] = IF k <= Len(wire) THEN wire[k] ELSE bytes[k - Len(wire)]
      BY <3>1, ConcatProperties, Zenon
    <3> QED
      BY <3>1, <3>2, Zenon
  <2> HIDE DEF W
  <2>2. ASSUME NEW k \in 1..W PROVE wire'[k] = wire[k]
    <3>1. k \in 1..W + (size + 1) /\ k <= W
      BY <1>2
    <3> QED
      BY <2>1, <3>1
  <2>3. ASSUME NEW k \in (W + 1)..(W + (size + 1)) PROVE wire'[k] = bytes[k - W]
    <3>1. k \in 1..W + (size + 1) /\ ~(k <= W)
      BY <1>2
    <3> QED
      BY <2>1, <3>1
  <2> QED
    BY <2>1, <2>2, <2>3
<1>6. /\ frames' \in Seq(Frame) /\ Len(frames') = N + 1 /\ frames'[N + 1] = new
      /\ \A i \in 1..N : frames'[i] = frames[i]
  BY <1>1, <1>2, AppendProperties
<1>7. FramesTyped'
  <2>1. Len(frames') <= MaxFrames
    BY <1>1, <1>2, <1>6
  <2> QED
    BY <1>1, <1>2, <1>5, <1>6, <2>1 DEF FramesTyped
<1>8. /\ e \in [0..N -> Nat] /\ e[0] = 0 /\ last \in Nat
      /\ \A i \in 1..N : e[i] = e[i - 1] + frames[i].size + 1
  <2>1. N \in 0..N
    BY <1>2
  <2> QED
    BY <1>3, <2>1 DEF Marks
<1>9. \E f : /\ f \in [0..(N + 1) -> Nat] /\ f[0] = 0 /\ f[N + 1] = last + size + 1
             /\ \A i \in 0..N : f[i] = e[i]
  <2> DEFINE f == [i \in 0..(N + 1) |-> IF i <= N THEN e[i] ELSE last + size + 1]
  <2> HIDE DEF last
  <2>1. f \in [0..(N + 1) -> Nat]
    <3> SUFFICES ASSUME NEW i \in 0..(N + 1) PROVE (IF i <= N THEN e[i] ELSE last + size + 1) \in Nat
      OBVIOUS
    <3>1. last + size + 1 \in Nat
      BY <1>2, <1>8
    <3>2. i <= N => e[i] \in Nat
      BY <1>2, <1>8
    <3> QED
      BY <3>1, <3>2
  <2>2. 0 \in 0..(N + 1) /\ 0 <= N /\ N + 1 \in 0..(N + 1) /\ ~(N + 1 <= N)
    BY <1>2
  <2>3. \A i \in 0..N : i \in 0..(N + 1) /\ i <= N
    BY <1>2
  <2>4. f[0] = 0 /\ f[N + 1] = last + size + 1 /\ \A i \in 0..N : f[i] = e[i]
    BY <1>8, <2>2, <2>3
  <2> QED
    BY <2>1, <2>4
<1>f. PICK f : /\ f \in [0..(N + 1) -> Nat] /\ f[0] = 0 /\ f[N + 1] = last + size + 1
               /\ \A i \in 0..N : f[i] = e[i]
  BY <1>9
<1>10. Marks(f)'
  <2>1. ASSUME NEW i \in 1..(N + 1) PROVE f[i] = f[i - 1] + frames'[i].size + 1
    <3>1. CASE i \in 1..N
      <4>1. i - 1 \in 0..N /\ i \in 0..N
        BY <1>2, <3>1
      <4> QED
        BY <1>6, <1>8, <1>f, <3>1, <4>1, Zenon
    <3>2. CASE i = N + 1
      <4>1. i - 1 = N /\ N \in 0..N /\ frames'[i].size = size
        BY <1>2, <1>6, <3>2
      <4>2. f[i - 1] = last /\ f[i] = last + size + 1
        BY <1>f, <3>2, <4>1
      <4> QED
        BY <4>1, <4>2
    <3> QED
      BY <1>2, <3>1, <3>2
  <2> QED
    BY <1>6, <1>f, <2>1 DEF Marks
<1>11. Behind(f)' = B /\ B \in Nat /\ B = last - W
  <2>1. B \in Nat /\ B = last - W
    BY <1>3 DEF OnTheWire, Behind
  <2>2. Behind(f)' = (last + size + 1) - (W + (size + 1))
    BY <1>5, <1>6, <1>f DEF Behind
  <2> HIDE DEF B, last, W
  <2> QED
    BY <1>2, <1>8, <2>1, <2>2
<1>12. OnTheWire(f)'
  <2>1. ASSUME NEW k \in 1..(W + (size + 1)), NEW i \in 1..(N + 1), f[i - 1] < B + k, B + k <= f[i]
        PROVE  wire'[k] = IF B + k = f[i] THEN 0 ELSE i
    <3>1. CASE i \in 1..N
      <4>1. i - 1 \in 0..N /\ i \in 0..N /\ f[i] = e[i] /\ f[i - 1] = e[i - 1] /\ e[i] \in Nat
        <5>1. i - 1 \in 0..N /\ i \in 0..N
          BY <1>2, <3>1
        <5> QED
          BY <1>8, <1>f, <5>1, Zenon
      <4>2. e[i] <= last
        <5>1. N \in i..N
          BY <1>2, <3>1
        <5>2. last >= e[i] + (N - i)
          BY <1>2, <1>3, <4>1, <5>1, MarksGrow
        <5> QED
          BY <1>2, <1>8, <3>1, <4>1, <5>2
      <4>3. k \in 1..W
        <5>1. B + k <= e[i] /\ e[i] \in Nat /\ k \in Nat /\ k >= 1
          BY <1>2, <2>1, <4>1
        <5>2. B \in Nat /\ B = last - W /\ last \in Nat /\ W \in Nat
          BY <1>2, <1>8, <1>11
        <5> HIDE DEF B, last, W
        <5> QED
          BY <4>2, <5>1, <5>2
      <4>4. wire[k] = IF B + k = e[i] THEN 0 ELSE i
        BY <1>3, <2>1, <3>1, <4>1, <4>3 DEF OnTheWire
      <4> QED
        BY <1>5, <4>1, <4>3, <4>4, Zenon
    <3>2. CASE i = N + 1
      <4>1. i - 1 = N /\ N \in 0..N /\ f[i - 1] = last /\ f[i] = last + size + 1
        BY <1>2, <1>f, <3>2
      <4>2. k \in (W + 1)..(W + (size + 1)) /\ k - W \in 1..(size + 1) /\ (B + k = f[i] <=> k - W = size + 1)
        <5>1. last < B + k /\ B + k <= last + size + 1 /\ (B + k = f[i] <=> B + k = last + size + 1)
          BY <2>1, <4>1
        <5>2. k \in Nat /\ k <= W + (size + 1)
          BY <1>2
        <5>3. B \in Nat /\ B = last - W /\ last \in Nat /\ W \in Nat /\ size \in Nat
          BY <1>2, <1>8, <1>11
        <5> HIDE DEF B, last, W
        <5>4. B + k = f[i] <=> k - W = size + 1
          BY <5>1, <5>2, <5>3
        <5>5. W < k /\ k - W <= size + 1
          BY <5>1, <5>2, <5>3
        <5> QED
          BY <5>2, <5>3, <5>4, <5>5
      <4>3. wire'[k] = bytes[k - W]
        <5> HIDE DEF B, last, W
        <5> QED
          BY <1>5, <4>2
      <4>4. k - W = size + 1 \/ k - W \in 1..size
        BY <1>2, <4>2
      <4> QED
        BY <1>4, <3>2, <4>2, <4>3, <4>4
    <3> QED
      BY <1>2, <3>1, <3>2
  <2> QED
    BY <1>5, <1>6, <1>11, <2>1 DEF OnTheWire
<1>13. c \in 0..N /\ c \in Nat
  BY <1>2, <1>3 DEF ReadTo
<1>14. ReadTo(f, Behind(f), c, remainder)'
  <2>1. /\ e[c] <= B /\ (c < N => B < e[c + 1]) /\ B <= last
        /\ remainder \in Seq(Nat) /\ Len(remainder) = B - e[c] /\ Len(remainder) <= MaxFrameBytes
        /\ \A j \in 1..Len(remainder) : remainder[j] = c + 1
    BY <1>3 DEF ReadTo
  <2>2. f[c] = e[c] /\ c \in 0..(N + 1)
    BY <1>2, <1>f, <1>13
  <2>3. B < f[c + 1]
    <3>1. CASE c < N
      <4>1. f[c + 1] = e[c + 1]
        <5>1. c + 1 \in 0..N
          BY <1>2, <1>13, <3>1
        <5> QED
          BY <1>f, <5>1
      <4> QED
        BY <2>1, <3>1, <4>1
    <3>2. CASE c = N
      <4>1. f[c + 1] = last + size + 1
        BY <1>f, <3>2
      <4> HIDE DEF B, last, W
      <4> QED
        BY <1>2, <1>8, <1>11, <4>1
    <3> QED
      BY <1>2, <1>13, <3>1, <3>2
  <2>4. B <= f[N + 1]
    <3> HIDE DEF B, last, W
    <3> QED
      BY <1>2, <1>8, <1>f, <1>11
  <2> HIDE DEF B
  <2> QED
    BY <1>1, <1>6, <1>11, <2>1, <2>2, <2>3, <2>4 DEF ReadTo
<1>15. \A i \in 1..c : (Connection!Blank(i)' <=> Connection!Blank(i)) /\ (Connection!Good(i)' <=> Connection!Good(i))
  <2>1. \A i \in 1..c : frames'[i] = frames[i]
    BY <1>2, <1>6, <1>13
  <2> QED
    BY <2>1 DEF Connection!Blank, Connection!Good
<1>16. LeavesOutBlanks(handled, 0, c)'
  <2>1. \A x \in (0 + 1)..c : x \in 1..c
    BY <1>13
  <2> QED
    BY <1>1, <1>3, <1>15, <2>1 DEF LeavesOutBlanks, Ascends
<1>17. \A i \in 1..c : (Connection!Blank(i) \/ Connection!Good(i))'
  BY <1>3, <1>15
<1> QED
  BY <1>1, <1>7, <1>10, <1>12, <1>14, <1>16, <1>17 DEF StreamInv, WhileOpen

\* What was handled before, and what the chunk brought.
LEMMA JoinedUp ==
  ASSUME NEW b \in Nat, NEW c \in Nat, b <= c, NEW s, NEW t,
         LeavesOutBlanks(s, 0, b), LeavesOutBlanks(t, b, c)
  PROVE  LeavesOutBlanks(s \o t, 0, c)
<1> DEFINE u == s \o t
<1>1. s \in Seq(Nat) /\ t \in Seq(Nat) /\ Len(s) \in Nat /\ Len(t) \in Nat
  BY LenProperties DEF LeavesOutBlanks
<1>2. /\ u \in Seq(Nat) /\ Len(u) = Len(s) + Len(t)
      /\ \A i \in 1..Len(s) : u[i] = s[i]
      /\ \A i \in 1..Len(t) : u[Len(s) + i] = t[i]
  <2>1. /\ u \in Seq(Nat) /\ Len(u) = Len(s) + Len(t)
        /\ \A i \in 1..Len(s) + Len(t) : u[i] = IF i <= Len(s) THEN s[i] ELSE t[i - Len(s)]
    BY <1>1, ConcatProperties
  <2> HIDE DEF u
  <2>2. \A i \in 1..Len(s) : i \in 1..Len(s) + Len(t) /\ i <= Len(s)
    BY <1>1
  <2>3. \A i \in 1..Len(t) : /\ Len(s) + i \in 1..Len(s) + Len(t)
                              /\ ~(Len(s) + i <= Len(s)) /\ (Len(s) + i) - Len(s) = i
    BY <1>1
  <2> QED
    BY <2>1, <2>2, <2>3, Zenon
<1>3. \A i \in 1..Len(s) : s[i] \in (0 + 1)..b /\ ~Connection!Blank(s[i])
  BY DEF LeavesOutBlanks
<1>4. \A i \in 1..Len(t) : t[i] \in (b + 1)..c /\ ~Connection!Blank(t[i])
  BY DEF LeavesOutBlanks
<1> HIDE DEF u
<1>5. \A i \in 1..Len(u) : i \in 1..Len(s) \/ \E k \in 1..Len(t) : i = Len(s) + k
  <2> SUFFICES ASSUME NEW i \in 1..Len(u), i \notin 1..Len(s) PROVE \E k \in 1..Len(t) : i = Len(s) + k
    OBVIOUS
  <2>1. i - Len(s) \in 1..Len(t) /\ i = Len(s) + (i - Len(s))
    BY <1>1, <1>2
  <2> QED
    BY <2>1, Zenon
<1>6. ASSUME NEW i \in 1..Len(u) PROVE u[i] \in (0 + 1)..c /\ ~Connection!Blank(u[i])
  <2>1. CASE i \in 1..Len(s)
    <3>1. u[i] = s[i] /\ s[i] \in (0 + 1)..b /\ ~Connection!Blank(s[i])
      BY <1>2, <1>3, <2>1, Zenon
    <3> QED
      BY <3>1
  <2>2. CASE \E k \in 1..Len(t) : i = Len(s) + k
    <3>1. PICK k \in 1..Len(t) : i = Len(s) + k
      BY <2>2
    <3>2. u[i] = t[k] /\ t[k] \in (b + 1)..c /\ ~Connection!Blank(t[k])
      BY <1>2, <1>4, <3>1
    <3> QED
      BY <3>2
  <2> QED
    BY <1>5, <2>1, <2>2
<1>7. ASSUME NEW x \in (0 + 1)..c, ~Connection!Blank(x) PROVE \E i \in 1..Len(u) : u[i] = x
  <2>1. CASE x \in (0 + 1)..b
    <3>0. \A y \in (0 + 1)..b : ~Connection!Blank(y) => \E i \in 1..Len(s) : s[i] = y
      BY DEF LeavesOutBlanks
    <3>1. PICK i \in 1..Len(s) : s[i] = x
      BY <1>7, <2>1, <3>0, Zenon
    <3>2. i \in 1..Len(u) /\ u[i] = x
      BY <1>1, <1>2, <3>1
    <3> QED
      BY <3>2
  <2>2. CASE x \in (b + 1)..c
    <3>0. \A y \in (b + 1)..c : ~Connection!Blank(y) => \E i \in 1..Len(t) : t[i] = y
      BY DEF LeavesOutBlanks
    <3>1. PICK i \in 1..Len(t) : t[i] = x
      BY <1>7, <2>2, <3>0, Zenon
    <3>2. Len(s) + i \in 1..Len(u)
      BY <1>1, <1>2
    <3>3. u[Len(s) + i] = x
      BY <1>2, <3>1, Zenon
    <3> QED
      BY <3>2, <3>3
  <2> QED
    BY <2>1, <2>2
<1>8. ASSUME NEW i \in 1..Len(u), NEW j \in 1..Len(u), i < j PROVE u[i] < u[j]
  <2>1. CASE i \in 1..Len(s) /\ j \in 1..Len(s)
    <3>1. s[i] < s[j]
      BY <1>8, <2>1 DEF LeavesOutBlanks, Ascends
    <3> QED
      BY <1>2, <2>1, <3>1
  <2>2. CASE i \in 1..Len(s) /\ \E k \in 1..Len(t) : j = Len(s) + k
    <3>1. PICK k \in 1..Len(t) : j = Len(s) + k
      BY <2>2
    <3>2. u[i] \in (0 + 1)..b /\ u[j] \in (b + 1)..c
      BY <1>2, <1>3, <1>4, <2>2, <3>1, Zenon
    <3> QED
      BY <3>2
  <2>3. CASE \E k \in 1..Len(t) : i = Len(s) + k
    <3>1. PICK k \in 1..Len(t) : i = Len(s) + k
      BY <2>3
    <3>2. PICK m \in 1..Len(t) : j = Len(s) + m
      <4>1. j \notin 1..Len(s)
        BY <1>1, <1>8, <3>1
      <4> QED
        BY <1>5, <4>1
    <3>3. k < m
      BY <1>1, <1>8, <3>1, <3>2
    <3>4. t[k] < t[m]
      BY <3>3 DEF LeavesOutBlanks, Ascends
    <3> QED
      BY <1>2, <3>1, <3>2, <3>4
  <2> QED
    BY <1>5, <2>1, <2>2, <2>3
<1>9. LeavesOutBlanks(u, 0, c)
  BY <1>2, <1>6, <1>7, <1>8 DEF LeavesOutBlanks, Ascends
<1> QED
  BY <1>9 DEF u

LEMMA BeginningLeavesOut ==
  ASSUME NEW b \in Nat, NEW c \in Nat, NEW s, LeavesOutBlanks(s, b, c), NEW m \in 1..Len(s)
  PROVE  LeavesOutBlanks(SubSeq(s, 1, m - 1), b, s[m] - 1)
<1> DEFINE t == SubSeq(s, 1, m - 1)
<1>1. /\ s \in Seq(Nat) /\ Len(s) \in Nat
      /\ \A i \in 1..Len(s) : s[i] \in (b + 1)..c /\ ~Connection!Blank(s[i])
      /\ \A x \in (b + 1)..c : ~Connection!Blank(x) => \E i \in 1..Len(s) : s[i] = x
      /\ \A i, j \in 1..Len(s) : i < j => s[i] < s[j]
  BY LenProperties DEF LeavesOutBlanks, Ascends
<1>2. t \in Seq(Nat) /\ Len(t) = m - 1 /\ \A i \in 1..(m - 1) : t[i] = s[i]
  BY <1>1, Beginning
<1> HIDE DEF t
<1>3. \A i \in 1..Len(t) : i \in 1..Len(s) /\ i < m /\ t[i] = s[i]
  BY <1>1, <1>2
<1>4. ASSUME NEW i \in 1..Len(t) PROVE t[i] \in (b + 1)..(s[m] - 1) /\ ~Connection!Blank(t[i])
  <2>1. s[i] < s[m] /\ s[i] \in (b + 1)..c /\ s[m] \in (b + 1)..c /\ ~Connection!Blank(s[i]) /\ t[i] = s[i]
    BY <1>1, <1>3
  <2>2. s[i] \in (b + 1)..(s[m] - 1)
    BY <2>1
  <2> QED
    BY <2>1, <2>2
<1>5. ASSUME NEW x \in (b + 1)..(s[m] - 1), ~Connection!Blank(x) PROVE \E i \in 1..Len(t) : t[i] = x
  <2>1. x \in (b + 1)..c /\ x < s[m] /\ s[m] \in Nat
    BY <1>1
  <2>2. PICK i \in 1..Len(s) : s[i] = x
    <3>1. \A y \in (b + 1)..c : ~Connection!Blank(y) => \E i \in 1..Len(s) : s[i] = y
      BY <1>1
    <3> QED
      BY <1>5, <2>1, <3>1
  <2>3. i < m
    <3>1. i # m
      BY <2>1, <2>2
    <3>2. ~(m < i)
      <4>1. m < i => s[m] < s[i]
        BY <1>1, <2>2, Zenon
      <4> QED
        BY <2>1, <2>2, <4>1
    <3> QED
      BY <1>1, <3>1, <3>2
  <2>4. i \in 1..Len(t)
    BY <1>1, <1>2, <2>3
  <2> QED
    BY <1>2, <2>2, <2>4, Zenon
<1>6. \A i, j \in 1..Len(t) : i < j => t[i] < t[j]
  BY <1>1, <1>3
<1>7. LeavesOutBlanks(t, b, s[m] - 1)
  BY <1>2, <1>4, <1>5, <1>6 DEF LeavesOutBlanks, Ascends
<1> QED
  BY <1>7 DEF t

\* A chunk of n bytes takes the wire on by them.
LEMMA WireGoesOn ==
  ASSUME FramesTyped, NEW e, Marks(e), OnTheWire(e), NEW n \in 1..Len(wire),
         wire' = SubSeq(wire, n + 1, Len(wire)), UNCHANGED frames
  PROVE  wire' \in Seq(Nat) /\ Marks(e)' /\ OnTheWire(e)' /\ Behind(e)' = Behind(e) + n
<1> DEFINE W == Len(wire)
           N == Len(frames)
           B == Behind(e)
<1>1. /\ W \in Nat /\ wire \in Seq(Nat) /\ N \in Nat /\ B \in Nat /\ B = e[N] - W /\ e[N] \in Nat
      /\ n \in 1..W
  <2>1. W \in Nat /\ wire \in Seq(Nat) /\ N \in Nat /\ N \in 0..N /\ n \in 1..W
    BY LenProperties DEF FramesTyped
  <2> QED
    BY <2>1 DEF OnTheWire, Behind, Marks
<1>2. wire' \in Seq(Nat) /\ Len(wire') = W - n /\ \A k \in 1..(W - n) : wire'[k] = wire[n + k]
  <2>1. n + 1 \in Int /\ W \in Int /\ \A i \in (n + 1)..W : wire[i] \in Nat
    <3>1. \A i \in (n + 1)..W : i \in 1..W
      <4> HIDE DEF W
      <4> QED
        BY <1>1
    <3>2. \A i \in 1..W : wire[i] \in Nat
      BY <1>1, ElementOfSeq, Zenon
    <3> QED
      BY <1>1, <3>1, <3>2
  <2>2. /\ wire' \in Seq(Nat) /\ Len(wire') = (IF n + 1 <= W THEN W - (n + 1) + 1 ELSE 0)
        /\ \A i \in 1..(W - (n + 1) + 1) : wire'[i] = wire[(n + 1) + i - 1]
    BY <2>1, SubSeqProperties
  <2>3. W - (n + 1) + 1 = W - n /\ (n + 1 <= W \/ W - n = 0) /\ \A k \in 1..(W - n) : (n + 1) + k - 1 = n + k
    BY <1>1
  <2> HIDE DEF W
  <2> QED
    BY <1>1, <2>2, <2>3, Zenon
<1>3. Marks(e)'
  BY DEF Marks
<1>4. Behind(e)' = B + n
  <2>1. Behind(e)' = e[N] - (W - n)
    BY <1>2 DEF Behind
  <2>2. W \in Nat /\ n \in Nat /\ e[N] \in Nat /\ B = e[N] - W
    BY <1>1
  <2> HIDE DEF B, N, W
  <2> QED
    BY <2>1, <2>2
<1>5. OnTheWire(e)'
  <2>0. \A k \in 1..(W - n) : n + k \in 1..W /\ B + (n + k) = (B + n) + k
    <3> HIDE DEF B, W
    <3> QED
      BY <1>1
  <2>1. ASSUME NEW k \in 1..(W - n), NEW i \in 1..N, e[i - 1] < (B + n) + k, (B + n) + k <= e[i]
        PROVE  wire'[k] = IF (B + n) + k = e[i] THEN 0 ELSE i
    <3>1. n + k \in 1..W /\ wire'[k] = wire[n + k]
      BY <1>2, <2>0, Zenon
    <3>0. B + (n + k) = (B + n) + k
      BY <2>0
    <3>2. e[i - 1] < B + (n + k) /\ B + (n + k) <= e[i]
      BY <2>1, <3>0
    <3>3. wire[n + k] = IF B + (n + k) = e[i] THEN 0 ELSE i
      BY <3>1, <3>2, Zenon DEF OnTheWire
    <3> QED
      BY <3>0, <3>1, <3>3
  <2>2. B + n \in Nat /\ Len(frames') = N
    BY <1>1
  <2> QED
    BY <1>2, <1>4, <2>1, <2>2 DEF OnTheWire
<1> QED
  BY <1>2, <1>3, <1>4, <1>5

LEMMA DeliverStep ==
  ASSUME StreamInv, NEW n \in 1..Len(wire), Connection!Deliver(n)
  PROVE  StreamInv'
<1> DEFINE d == Connection!Decoded[n]
           wrong == {i \in DOMAIN d.decoded : ~Connection!IsMessage(d.decoded[i])}
<1>1. /\ open /\ wire' = SubSeq(wire, n + 1, Len(wire)) /\ remainder' = d.remainder /\ UNCHANGED frames
      /\ d.failed => open' = FALSE /\ UNCHANGED handled
      /\ ~d.failed /\ wrong # {} => /\ open' = FALSE
                                    /\ handled' = handled \o SubSeq(d.decoded, 1, Connection!Min(wrong) - 1)
      /\ ~d.failed /\ wrong = {} => UNCHANGED open /\ handled' = handled \o d.decoded
  BY Zenon DEF Connection!Deliver
<1>2. FramesTyped /\ MaxFrameBytes \in Nat /\ Len(frames) \in Nat
  BY LenProperties, FramesHaveSizes DEF StreamInv, FramesTyped, Connection!FrameAssumption
<1>3. PICK e, b :
        /\ Marks(e) /\ OnTheWire(e) /\ ReadTo(e, Behind(e), b, remainder)
        /\ LeavesOutBlanks(handled, 0, b)
        /\ \A i \in 1..b : Connection!Blank(i) \/ Connection!Good(i)
  BY <1>1 DEF StreamInv, WhileOpen
<1>4. d \in Decoders /\ HasDecoded(d, e, Behind(e) + n, b)
  BY <1>2, <1>3, Decodes
<1>5. b \in 0..Len(frames) /\ b \in Nat
  BY <1>2, <1>3 DEF ReadTo
<1>6. wire' \in Seq(Nat) /\ Marks(e)' /\ OnTheWire(e)' /\ Behind(e)' = Behind(e) + n
  BY <1>1, <1>2, <1>3, WireGoesOn
<1> HIDE DEF d
<1>7. d.remainder \in Seq(Nat) /\ d.decoded \in Seq(Nat) /\ d.failed \in BOOLEAN
  BY <1>4 DEF Decoders
<1>8. /\ handled \in Seq(Nat) /\ Len(handled) \in Nat /\ Ascends(handled)
      /\ \A i \in 1..Len(handled) : handled[i] \in (0 + 1)..b /\ Connection!Good(handled[i])
  <2>1. handled \in Seq(Nat) /\ Len(handled) \in Nat /\ Ascends(handled)
    BY <1>3, LenProperties DEF LeavesOutBlanks
  <2>2. \A i \in 1..Len(handled) : handled[i] \in (0 + 1)..b /\ ~Connection!Blank(handled[i])
    BY <1>3 DEF LeavesOutBlanks
  <2>3. (0 + 1)..b = 1..b
    OBVIOUS
  <2> QED
    BY <1>3, <2>1, <2>2, <2>3
<1>9. \A i : (Connection!Good(i)' <=> Connection!Good(i)) /\ (Connection!Blank(i)' <=> Connection!Blank(i))
  BY <1>1 DEF Connection!Good, Connection!Blank
<1>10. CASE d.failed
  <2>1. PICK bad \in (b + 1)..Len(frames) : ~Connection!Good(bad) /\ ~Connection!Blank(bad)
    BY <1>4, <1>10 DEF HasDecoded
  <2>2. bad \in 1..Len(frames) /\ \A i \in 1..Len(handled) : handled[i] < bad
    BY <1>2, <1>5, <1>8
  <2>3. open' = FALSE /\ handled' = handled
    BY <1>1, <1>10
  <2>4. OnceClosed'
    BY <1>1, <1>8, <1>9, <2>1, <2>2, <2>3 DEF OnceClosed, Ascends
  <2>5. Len(remainder') <= MaxFrameBytes
    <3>1. remainder' = <<>>
      BY <1>1, <1>4, <1>10 DEF HasDecoded
    <3> QED
      BY <1>2, <3>1, EmptySeq
  <2> QED
    BY <1>1, <1>2, <1>6, <1>7, <1>8, <2>3, <2>4, <2>5, Zenon DEF StreamInv, FramesTyped
<1>11. CASE ~d.failed
  <2>1. PICK c \in b..Len(frames) :
          /\ ReadTo(e, Behind(e) + n, c, d.remainder) /\ LeavesOutBlanks(d.decoded, b, c)
          /\ \A i \in (b + 1)..c : Connection!Blank(i) \/ Json(i)
    BY <1>4, <1>11 DEF HasDecoded
  <2>2. c \in Nat /\ c \in 0..Len(frames) /\ b <= c /\ Len(d.decoded) \in Nat /\ DOMAIN d.decoded = 1..Len(d.decoded)
    BY <1>2, <1>5, <1>7, <2>1, LenProperties
  <2>3. \A i \in 1..Len(d.decoded) : /\ d.decoded[i] \in (b + 1)..c
                                     /\ ~Connection!Blank(d.decoded[i]) /\ Json(d.decoded[i])
    <3>1. \A i \in 1..Len(d.decoded) : d.decoded[i] \in (b + 1)..c /\ ~Connection!Blank(d.decoded[i])
      BY <2>1 DEF LeavesOutBlanks
    <3> QED
      BY <2>1, <3>1
  <2>4. \A x : Json(x) /\ Connection!IsMessage(x) => Connection!Good(x)
    BY DEF Json, Connection!IsMessage, Connection!Good
  <2>5. \A x : ~Connection!IsMessage(x) => ~Connection!Good(x)
    BY DEF Connection!IsMessage, Connection!Good
  <2>6. Len(remainder') <= MaxFrameBytes
    BY <1>1, <2>1 DEF ReadTo
  <2>7. CASE wrong = {}
    <3>1. open' = TRUE /\ handled' = handled \o d.decoded
      BY <1>1, <1>11, <2>7, Zenon
    <3>2. LeavesOutBlanks(handled \o d.decoded, 0, c)
      BY <1>3, <1>5, <2>1, <2>2, JoinedUp
    <3>3. LeavesOutBlanks(handled, 0, c)'
      BY <1>9, <3>1, <3>2, Zenon DEF LeavesOutBlanks, Ascends
    <3>4. \A i \in 1..c : Connection!Blank(i) \/ Connection!Good(i)
      <4> SUFFICES ASSUME NEW i \in 1..c, ~Connection!Blank(i) PROVE Connection!Good(i)
        OBVIOUS
      <4>1. CASE i \in 1..b
        BY <1>3, <4>1
      <4>2. CASE i \notin 1..b
        <5>1. i \in (b + 1)..c
          BY <1>5, <2>2, <4>2
        <5>2. PICK j \in 1..Len(d.decoded) : d.decoded[j] = i
          BY <2>1, <5>1 DEF LeavesOutBlanks
        <5>3. Json(i) /\ Connection!IsMessage(i)
          BY <2>2, <2>3, <2>7, <5>2, Zenon
        <5> QED
          BY <2>4, <5>3
      <4> QED
        BY <4>1, <4>2
    <3>5. ReadTo(e, Behind(e), c, remainder)'
      BY <1>1, <1>6, <2>1 DEF ReadTo
    <3>6. WhileOpen'
      BY <1>6, <1>9, <3>3, <3>4, <3>5 DEF WhileOpen
    <3>7. handled' \in Seq(Nat)
      BY <3>3 DEF LeavesOutBlanks
    <3> QED
      BY <1>1, <1>2, <1>6, <1>7, <2>6, <3>1, <3>6, <3>7, Zenon DEF StreamInv, FramesTyped
  <2>8. CASE wrong # {}
    <3> DEFINE m == Connection!Min(wrong)
               first == SubSeq(d.decoded, 1, m - 1)
    <3>0. PICK bad : bad = d.decoded[m]
      BY Zenon
    <3>1. m \in wrong /\ \A i \in wrong : m <= i
      <4>1. wrong \subseteq Nat
        BY <2>2
      <4>2. \E x \in wrong : \A i \in wrong : x <= i
        <5> HIDE DEF wrong
        <5> QED
          BY <2>8, <4>1, LeastNumber, Zenon
      <4> HIDE DEF wrong
      <4> QED
        BY <4>2 DEF Connection!Min
    <3>2. m \in 1..Len(d.decoded) /\ ~Connection!IsMessage(bad)
      BY <2>2, <3>0, <3>1
    <3>3. \A i \in 1..(m - 1) : i \in 1..Len(d.decoded) /\ Connection!IsMessage(d.decoded[i])
      <4> SUFFICES ASSUME NEW i \in 1..(m - 1) PROVE i \in 1..Len(d.decoded) /\ Connection!IsMessage(d.decoded[i])
        OBVIOUS
      <4> HIDE DEF m
      <4>1. i \in 1..Len(d.decoded) /\ ~(m <= i)
        BY <2>2, <3>2
      <4> QED
        BY <2>2, <3>1, <4>1
    <3>4. open' = FALSE /\ handled' = handled \o first
      BY <1>1, <1>11, <2>8, Zenon
    <3> HIDE DEF m, wrong
    <3>5. bad \in (b + 1)..c /\ ~Connection!Blank(bad) /\ ~Connection!Good(bad)
      BY <2>3, <2>5, <3>0, <3>2
    <3>6. bad - 1 \in Nat /\ b <= bad - 1 /\ bad \in 1..Len(frames)
      BY <1>2, <1>5, <2>2, <3>5
    <3>7. LeavesOutBlanks(first, b, bad - 1)
      BY <1>5, <2>1, <2>2, <3>0, <3>2, BeginningLeavesOut, Zenon
    <3>8. LeavesOutBlanks(handled \o first, 0, bad - 1)
      BY <1>3, <1>5, <3>6, <3>7, JoinedUp
    <3>9. /\ handled' \in Seq(Nat) /\ Ascends(handled')
          /\ \A i \in 1..Len(handled') : handled'[i] \in (0 + 1)..(bad - 1) /\ ~Connection!Blank(handled'[i])
      BY <3>4, <3>8, Zenon DEF LeavesOutBlanks
    <3>10. \A i \in 1..Len(first) : Connection!Good(first[i])
      <4> SUFFICES ASSUME NEW i \in 1..Len(first) PROVE Connection!Good(first[i])
        BY Zenon
      <4>1. Len(first) = m - 1 /\ \A j \in 1..(m - 1) : first[j] = d.decoded[j]
        BY <1>7, <3>2, Beginning
      <4>2. i \in 1..(m - 1) /\ first[i] = d.decoded[i]
        BY <4>1, Zenon
      <4> QED
        BY <2>3, <2>4, <3>3, <4>2, Zenon
    <3>11. \A i \in 1..Len(handled') : Connection!Good(handled'[i])
      <4> SUFFICES ASSUME NEW i \in 1..Len(handled') PROVE Connection!Good(handled'[i])
        OBVIOUS
      <4>1. /\ first \in Seq(Nat) /\ Len(first) \in Nat /\ Len(handled') = Len(handled) + Len(first)
            /\ \A j \in 1..Len(handled) + Len(first) : handled'[j] = IF j <= Len(handled) THEN handled[j] ELSE first[j - Len(handled)]
        <5>1. first \in Seq(Nat)
          BY <3>7 DEF LeavesOutBlanks
        <5> HIDE DEF first
        <5> QED
          BY <1>8, <3>4, <5>1, ConcatProperties, LenProperties
      <4> HIDE DEF first
      <4>2. CASE i <= Len(handled)
        <5>1. i \in 1..Len(handled) /\ handled'[i] = handled[i]
          BY <1>8, <4>1, <4>2
        <5> QED
          BY <1>8, <5>1
      <4>3. CASE ~(i <= Len(handled))
        <5>1. i - Len(handled) \in 1..Len(first) /\ handled'[i] = first[i - Len(handled)]
          BY <1>8, <4>1, <4>3
        <5> QED
          BY <3>10, <5>1
      <4> QED
        BY <4>2, <4>3
    <3>12. \A i \in 1..Len(handled') : handled'[i] < bad
      BY <3>6, <3>9
    <3>13. OnceClosed'
      <4>1. ~Connection!Good(bad)' /\ ~Connection!Blank(bad)'
        BY <1>9, <3>5
      <4>2. \A i \in 1..Len(handled') : Connection!Good(handled[i])'
        BY <1>1, <3>11, Zenon DEF Connection!Good
      <4> QED
        BY <1>1, <3>6, <3>9, <3>12, <4>1, <4>2 DEF OnceClosed, Ascends
    <3> QED
      BY <1>1, <1>2, <1>6, <1>7, <2>6, <3>4, <3>9, <3>13, Zenon DEF StreamInv, FramesTyped
  <2> QED
    BY <2>7, <2>8
<1> QED
  BY <1>10, <1>11

LEMMA StreamStep ==
  ASSUME StreamInv, [Connection!Next]_(Connection!vars)
  PROVE  StreamInv'
<1>1. CASE Connection!Next
  <2>1. CASE \E size \in FrameSizes, what \in Connection!Whats : Connection!WriteFrame(size, what)
    BY <2>1, WriteFrameStep
  <2>2. CASE \E n \in 1..Len(wire) : Connection!Deliver(n)
    BY <2>2, DeliverStep
  <2> QED
    BY <1>1, <2>1, <2>2 DEF Connection!Next
<1>2. CASE UNCHANGED Connection!vars
  <2>1. UNCHANGED <<frames, wire, remainder, handled, open>>
    BY <1>2 DEF Connection!vars
  <2>2. FramesTyped' = FramesTyped
    BY <2>1 DEF FramesTyped
  <2>3. \A i : (Connection!Good(i)' <=> Connection!Good(i)) /\ (Connection!Blank(i)' <=> Connection!Blank(i))
    BY <2>1 DEF Connection!Good, Connection!Blank
  <2>4. OnceClosed => OnceClosed'
    BY <2>1 DEF OnceClosed, Ascends, Connection!Good, Connection!Blank
  <2>5. WhileOpen => WhileOpen'
    <3> SUFFICES ASSUME WhileOpen PROVE WhileOpen'
      OBVIOUS
    <3>1. PICK e, c :
            /\ Marks(e) /\ OnTheWire(e) /\ ReadTo(e, Behind(e), c, remainder)
            /\ LeavesOutBlanks(handled, 0, c)
            /\ \A i \in 1..c : Connection!Blank(i) \/ Connection!Good(i)
      BY DEF WhileOpen
    <3>2. Marks(e)' /\ OnTheWire(e)' /\ ReadTo(e, Behind(e), c, remainder)'
      BY <2>1, <3>1 DEF Marks, OnTheWire, Behind, ReadTo
    <3>3. LeavesOutBlanks(handled, 0, c)'
      BY <2>1, <2>3, <3>1 DEF LeavesOutBlanks, Ascends
    <3> QED
      BY <2>3, <3>1, <3>2, <3>3 DEF WhileOpen
  <2> QED
    BY <2>1, <2>2, <2>4, <2>5 DEF StreamInv
<1> QED
  BY <1>1, <1>2

LEMMA StreamInvIsEnough ==
  ASSUME StreamInv
  PROVE  Connection!ChunksDoNotMatter
<1>1. FramesTyped /\ handled \in Seq(Nat) /\ DOMAIN handled = 1..Len(handled) /\ Len(handled) \in Nat
      /\ DOMAIN frames = 1..Len(frames)
  BY LenProperties DEF StreamInv, FramesTyped
<1>2. Connection!TypeOK
  BY <1>1 DEF FramesTyped, Connection!TypeOK
<1>3. Connection!Range(handled) = {handled[i] : i \in 1..Len(handled)}
  BY <1>1 DEF Connection!Range
<1>4. \A i \in 1..(Len(handled) - 1) : i \in 1..Len(handled) /\ i + 1 \in 1..Len(handled) /\ i < i + 1
  BY <1>1
<1>5. CASE open
  <2>1. PICK e, c :
          /\ Marks(e) /\ OnTheWire(e) /\ ReadTo(e, Behind(e), c, remainder)
          /\ LeavesOutBlanks(handled, 0, c)
          /\ \A i \in 1..c : Connection!Blank(i) \/ Connection!Good(i)
    BY <1>5 DEF StreamInv, WhileOpen
  <2>2. Connection!Complete = c
    BY <1>1, <2>1, CompleteIs
  <2>3. c \in Nat /\ (0 + 1)..c = 1..c
    BY <2>1, LenProperties DEF ReadTo
  <2>4. /\ \A i \in 1..Len(handled) : handled[i] \in 1..c /\ ~Connection!Blank(handled[i])
        /\ \A x \in 1..c : ~Connection!Blank(x) => \E i \in 1..Len(handled) : handled[i] = x
        /\ \A i, j \in 1..Len(handled) : i < j => handled[i] < handled[j]
    <3>1. /\ \A i \in 1..Len(handled) : handled[i] \in (0 + 1)..c /\ ~Connection!Blank(handled[i])
          /\ \A x \in (0 + 1)..c : ~Connection!Blank(x) => \E i \in 1..Len(handled) : handled[i] = x
          /\ \A i, j \in 1..Len(handled) : i < j => handled[i] < handled[j]
      BY <2>1 DEF LeavesOutBlanks, Ascends
    <3> QED
      BY <2>3, <3>1
  <2>5. \A i \in DOMAIN handled : Connection!Good(handled[i])
    BY <1>1, <2>1, <2>4
  <2>6. \A i \in 1..(Len(handled) - 1) : handled[i] < handled[i + 1]
    BY <1>4, <2>4
  <2>7. Connection!Range(handled) = {i \in 1..Connection!Complete : ~Connection!Blank(i)}
    BY <1>3, <2>2, <2>4
  <2> QED
    BY <1>2, <1>5, <2>1, <2>2, <2>5, <2>6, <2>7 DEF Connection!ChunksDoNotMatter
<1>6. CASE ~open
  <2>1. /\ Ascends(handled) /\ \A i \in 1..Len(handled) : Connection!Good(handled[i])
        /\ \E bad \in 1..Len(frames) : /\ ~Connection!Good(bad) /\ ~Connection!Blank(bad)
                                       /\ \A i \in 1..Len(handled) : handled[i] < bad
    BY <1>6 DEF StreamInv, OnceClosed
  <2>2. \A i \in 1..(Len(handled) - 1) : handled[i] < handled[i + 1]
    BY <1>4, <2>1 DEF Ascends
  <2>3. \E bad \in DOMAIN frames : /\ ~Connection!Good(bad) /\ ~Connection!Blank(bad)
                                   /\ \A i \in Connection!Range(handled) : i < bad
    BY <1>1, <1>3, <2>1
  <2> QED
    BY <1>1, <1>2, <1>6, <2>1, <2>2, <2>3 DEF Connection!ChunksDoNotMatter
<1> QED
  BY <1>5, <1>6

LEMMA ConnectionHandlesWhatWasWritten == Connection!Spec => []Connection!ChunksDoNotMatter
<1>1. Connection!Init => StreamInv
  BY StreamInitially
<1>2. StreamInv /\ [Connection!Next]_(Connection!vars) => StreamInv'
  BY StreamStep
<1>3. StreamInv => Connection!ChunksDoNotMatter
  BY StreamInvIsEnough
<1> QED
  BY <1>1, <1>2, <1>3, PTL DEF Connection!Spec

\* What the daemon, or a client, handles of a connection does not depend on how its
\* bytes were cut, and it is dropped only for a frame that is bad: framing.ts.
THEOREM ChunksAreJoined == ToolsSpec => []ChunksDoNotMatter
<1>1. Connection!ChunksDoNotMatter => ChunksDoNotMatter
  BY DEF ChunksDoNotMatter
<1> QED
  BY <1>1, ToolsImplementTheirParts, ConnectionHandlesWhatWasWritten, PTL

-----------------------------------------------------------------------------
(***************************************************************************)
(* What a search finds.  A job in the middle of a file (Reading): the      *)
(* matches of its lines so far are results or pending, in order, each with *)
(* as many lines behind it as have come.  A job between two files or at    *)
(* its end (AtRest): the results hold every match of the files behind it.  *)
(* Each function of the job record is followed from the one to the other.  *)
(***************************************************************************)
Match == [file : Nat, line : Nat, nth : Nat, before : Nat, after : Nat]
Results == IF options.content THEN Match ELSE [file : Nat]

\* Only stop and an expiry stop a search.
Statuses ==
  {s \in {"running", "completed", "stopped"} : s = "stopped" => ~listed \/ stopper # "idle"}

JobRecord ==
  [status : Statuses, results : Seq(Results), truncated : BOOLEAN,
   task : {"walking", "reading", "ended"}, file : Nat, line : Nat, pending : Seq(Match), before : Nat]

\* s is in the order of the tree; all of s comes before t.
InOrder(s) == \A i, k \in 1..Len(s) : i < k => Search!Comes(s[i], s[k])
Ahead(s, t) == \A i \in 1..Len(s), k \in 1..Len(t) : Search!Comes(s[i], t[k])

\* The lines in front are those asked for, and no more are behind.
Around(s) ==
  \A i \in 1..Len(s) :
    /\ s[i].after <= options.context
    /\ options.context > 0 => s[i].before = Search!Min2(options.context, s[i].line - 1)

Finds(s, f, l, k) ==
  \E i \in 1..Len(s) :
    /\ s[i].file = f /\ s[i].line = l /\ s[i].nth = k
    /\ s[i].after = Search!Min2(options.context, Len(Tree[f]) - l)

FindsAll(s, f) == \A l \in 1..Len(Tree[f]) : \A k \in 1..Tree[f][l] : Finds(s, f, l, k)

\* Nothing was left out.
Whole(j) == options.content /\ ~j.truncated /\ ~options.early

\* A job in the middle of a file, of which the matches of c lines are pending or results.
InFile(j, c) ==
  /\ j \in JobRecord /\ options.content /\ j.task = "reading" /\ j.status # "completed"
  /\ Len(j.results) <= options.max
  /\ j.file \in 1..Len(Tree) /\ j.line \in 0..Len(Tree[j.file]) /\ c \in 0..j.line
  /\ InOrder(j.results) /\ InOrder(j.pending) /\ Ahead(j.results, j.pending)
  /\ Around(j.results) /\ Around(j.pending)
  /\ \A i \in 1..Len(j.results) : \/ j.results[i].file < j.file
                                  \/ j.results[i].file = j.file /\ j.results[i].line <= c
  /\ \A i \in 1..Len(j.pending) :
       /\ j.pending[i].file = j.file /\ j.pending[i].line \in 1..c
       /\ j.pending[i].after = Search!Min2(options.context, j.line - j.pending[i].line)

Reading(j, c) ==
  /\ InFile(j, c)
  /\ options.early => j.results = <<>>
  /\ Whole(j) =>
       /\ \A f \in 1..(j.file - 1) : f \in unread \/ FindsAll(j.results, f)
       /\ \A l \in 1..c : \A k \in 1..Tree[j.file][l] :
            \/ Finds(j.results, j.file, l, k)
            \/ \E i \in 1..Len(j.pending) : j.pending[i].line = l /\ j.pending[i].nth = k

\* A job between two files, or one that is over; the files in u
\* could not be read.
AtRest(j, u) ==
  /\ j \in JobRecord /\ j.task \in {"walking", "ended"}
  /\ Len(j.results) <= options.max /\ j.file \in 1..(Len(Tree) + 1)
  /\ options.content => InOrder(j.results) /\ Around(j.results)
  /\ options.early => Len(j.results) <= 2
  /\ j.task = "walking" =>
       /\ j.status # "completed"
       /\ options.early => j.results = <<>>
       /\ options.content => \A i \in 1..Len(j.results) : j.results[i].file < j.file
       /\ Whole(j) => \A f \in 1..(j.file - 1) : f \in u \/ FindsAll(j.results, f)
  /\ j.status = "completed" /\ Whole(j) =>
       \A f \in 1..Len(Tree) : f \in u \/ FindsAll(j.results, f)

JobIsRight(j) ==
  \/ AtRest(j, unread)
  \/ /\ Reading(j, j.line)
     /\ options.context > 0 => j.before = Search!Min2(options.context, j.line)

PagesAreRight ==
  /\ pages \in Seq(Results) /\ Len(pages) <= Len(results)
  /\ \A i \in 1..Len(pages) : pages[i] = results[i]
  /\ done /\ stopper = "idle" => status = "completed" /\ Len(pages) = Len(results)

SearchTyped ==
  /\ options \in [content : BOOLEAN, context : Nat, max : Nat, early : BOOLEAN]
  /\ {listed, overtime, cut, done} \subseteq BOOLEAN
  /\ status \in {"none", "running", "completed", "stopped"}
  /\ stopper \in {"idle", "waiting", "returned"}
  /\ listed => status # "none"

FoundInv ==
  /\ SearchTyped
  /\ IF status = "none"
     THEN /\ ~listed /\ task = "none" /\ results = <<>> /\ pages = <<>> /\ ~done /\ cut = FALSE
          /\ stopper = "idle" /\ options.content
          /\ file = 1 /\ line = 0 /\ before = 0 /\ pending = <<>> /\ unread = {}
     ELSE JobIsRight(Search!Job) /\ PagesAreRight

-----------------------------------------------------------------------------

\* r is s, and behind it the first t of new.
Adds(s, new, t, r) ==
  /\ t \in 0..Len(new) /\ r \in Seq(Results) /\ Len(r) = Len(s) + t
  /\ \A i \in 1..Len(s) : r[i] = s[i]
  /\ \A i \in 1..t : r[Len(s) + i] = new[i]

OptionsTyped == options \in [content : BOOLEAN, context : Nat, max : Nat, early : BOOLEAN]

LEMMA JobFields ==
  ASSUME NEW j \in JobRecord
  PROVE  /\ j.results \in Seq(Results) /\ Len(j.results) \in Nat
         /\ j.pending \in Seq(Match) /\ Len(j.pending) \in Nat
         /\ j.status \in {"running", "completed", "stopped"} /\ j.task \in {"walking", "reading", "ended"}
         /\ j.truncated \in BOOLEAN /\ j.file \in Nat /\ j.line \in Nat /\ j.before \in Nat
<1>1. /\ j.results \in Seq(Results) /\ j.pending \in Seq(Match)
      /\ j.status \in {"running", "completed", "stopped"} /\ j.task \in {"walking", "reading", "ended"}
      /\ j.truncated \in BOOLEAN /\ j.file \in Nat /\ j.line \in Nat /\ j.before \in Nat
  BY DEF JobRecord, Statuses
<1> QED
  BY <1>1, LenProperties

\* addResult, again and again: the beginning of what is new, as far as there is room.
LEMMA AddAllIs ==
  ASSUME OptionsTyped, NEW j \in JobRecord, Len(j.results) <= options.max, NEW new \in Seq(Results)
  PROVE  \E t \in 0..Len(new), q \in JobRecord :
           /\ q = Search!AddAll(j, new)
           /\ q.status = j.status /\ q.task = j.task /\ q.file = j.file /\ q.line = j.line
           /\ q.pending = j.pending /\ q.before = j.before
           /\ Adds(j.results, new, t, q.results) /\ Len(q.results) <= options.max
           /\ ~q.truncated => ~j.truncated /\ t = Len(new)
           /\ Len(new) > options.max - Len(j.results) => q.truncated
           /\ t = Search!Min2(options.max - Len(j.results), Len(new))
<1> DEFINE q == Search!AddAll(j, new)
           room == options.max - Len(j.results)
           t == Search!Min2(room, Len(new))
           taken == SubSeq(new, 1, t)
           tr == j.truncated \/ Len(new) > room \/ (taken # <<>> /\ Len(taken) = room)
<1>1. Len(new) \in Nat /\ Len(j.results) \in Nat /\ j.results \in Seq(Results) /\ options.max \in Nat
  BY JobFields, LenProperties DEF OptionsTyped
<1>2. room \in Nat /\ t \in 0..Len(new) /\ t <= room /\ (t = Len(new) \/ Len(new) > room)
  BY <1>1 DEF Search!Min2
<1>3. taken \in Seq(Results) /\ Len(taken) = t /\ \A i \in 1..t : taken[i] = new[i]
  <2> HIDE DEF t
  <2> QED
    BY <1>2, FrontOf
<1>4. q = [j EXCEPT !.results = @ \o taken, !.truncated = tr]
  BY Zenon DEF Search!AddAll
<1> HIDE DEF t, taken, q
<1>5. /\ j.results \o taken \in Seq(Results)
      /\ Len(j.results \o taken) = Len(j.results) + Len(taken)
      /\ \A i \in 1..Len(j.results) : (j.results \o taken)[i] = j.results[i]
      /\ \A i \in 1..Len(taken) : (j.results \o taken)[Len(j.results) + i] = taken[i]
  <2>1. j.results \in Seq(Results) /\ taken \in Seq(Results)
    BY <1>1, <1>3
  <2> QED
    BY <2>1, JoinIs
<1>6. tr \in BOOLEAN
  BY JobFields
<1> DEFINE r == j.results \o taken
<1> HIDE DEF tr, r
<1>7. /\ q \in JobRecord /\ q.results = r /\ q.truncated = tr
      /\ q.status = j.status /\ q.task = j.task /\ q.file = j.file /\ q.line = j.line
      /\ q.pending = j.pending /\ q.before = j.before
  BY <1>4, <1>5, <1>6, Zenon DEF JobRecord, r
<1>8. Adds(j.results, new, t, q.results)
  BY <1>2, <1>3, <1>5, <1>7 DEF Adds, r
<1>9. Len(q.results) <= options.max
  BY <1>1, <1>2, <1>8 DEF Adds
<1>10. (tr <=> j.truncated \/ Len(new) > room \/ (taken # <<>> /\ Len(taken) = room))
  BY DEF tr
<1> HIDE DEF room
<1>11. ~q.truncated => ~j.truncated /\ t = Len(new)
  BY <1>2, <1>7, <1>10
<1>12. Len(new) > room => q.truncated
  BY <1>7, <1>10
<1> QED
  BY <1>2, <1>7, <1>8, <1>9, <1>11, <1>12 DEF q, t, room

LEMMA AddedInOrder ==
  ASSUME NEW s \in Seq(Match), NEW new \in Seq(Match), NEW t, NEW r, Adds(s, new, t, r),
         InOrder(s), InOrder(new), Ahead(s, new)
  PROVE  InOrder(r)
<1>1. Len(s) \in Nat /\ Len(new) \in Nat /\ t \in Nat /\ t <= Len(new) /\ Len(r) = Len(s) + t
  BY LenProperties DEF Adds
<1>2. /\ \A i \in 1..Len(s) : r[i] = s[i]
      /\ \A i \in 1..t : r[Len(s) + i] = new[i] /\ i \in 1..Len(new)
  BY <1>1 DEF Adds
<1>3. ASSUME NEW i \in 1..Len(r), NEW k \in 1..Len(r), i < k PROVE Search!Comes(r[i], r[k])
  <2>1. CASE k \in 1..Len(s)
    <3>1. i \in 1..Len(s)
      BY <1>1, <1>3, <2>1
    <3> QED
      BY <1>2, <1>3, <2>1, <3>1 DEF InOrder
  <2>2. CASE k \notin 1..Len(s)
    <3>1. k - Len(s) \in 1..t /\ Len(s) + (k - Len(s)) = k
      BY <1>1, <2>2
    <3>2. r[k] = new[k - Len(s)] /\ k - Len(s) \in 1..Len(new)
      BY <1>2, <3>1
    <3>3. CASE i \in 1..Len(s)
      BY <1>2, <3>2, <3>3 DEF Ahead
    <3>4. CASE i \notin 1..Len(s)
      <4>1. i - Len(s) \in 1..t /\ Len(s) + (i - Len(s)) = i /\ i - Len(s) < k - Len(s)
        BY <1>1, <1>3, <3>4
      <4>2. r[i] = new[i - Len(s)] /\ i - Len(s) \in 1..Len(new)
        BY <1>2, <4>1
      <4> QED
        BY <3>2, <4>1, <4>2, Zenon DEF InOrder
    <3> QED
      BY <3>3, <3>4
  <2> QED
    BY <2>1, <2>2
<1> QED
  BY <1>3 DEF InOrder

\* What holds of all in s and of all in new holds of all in r.
LEMMA AddedElements ==
  ASSUME NEW s, NEW new, Len(s) \in Nat, Len(new) \in Nat, NEW t, NEW r, Adds(s, new, t, r)
  PROVE  \A i \in 1..Len(r) : \/ i \in 1..Len(s) /\ r[i] = s[i]
                              \/ i - Len(s) \in 1..t /\ i - Len(s) \in 1..Len(new) /\ r[i] = new[i - Len(s)]
<1> SUFFICES ASSUME NEW i \in 1..Len(r), i \notin 1..Len(s)
             PROVE  i - Len(s) \in 1..t /\ i - Len(s) \in 1..Len(new) /\ r[i] = new[i - Len(s)]
  BY DEF Adds
<1>1. t \in Nat /\ t <= Len(new) /\ Len(r) = Len(s) + t
  BY DEF Adds
<1>2. i - Len(s) \in 1..t /\ i - Len(s) \in 1..Len(new) /\ Len(s) + (i - Len(s)) = i
  BY <1>1
<1> QED
  BY <1>2, Zenon DEF Adds

LEMMA AddedAround ==
  ASSUME NEW s, NEW new, Len(s) \in Nat, Len(new) \in Nat, NEW t, NEW r, Adds(s, new, t, r),
         Around(s), Around(new)
  PROVE  Around(r)
<1> SUFFICES ASSUME NEW i \in 1..Len(r)
             PROVE  /\ r[i].after <= options.context
                    /\ options.context > 0 => r[i].before = Search!Min2(options.context, r[i].line - 1)
  BY DEF Around
<1>1. CASE i \in 1..Len(s) /\ r[i] = s[i]
  BY <1>1 DEF Around
<1>2. CASE i - Len(s) \in 1..Len(new) /\ r[i] = new[i - Len(s)]
  BY <1>2 DEF Around
<1> QED
  BY <1>1, <1>2, AddedElements

LEMMA StillFinds ==
  ASSUME NEW s, NEW new, Len(s) \in Nat, Len(new) \in Nat, NEW t, NEW r, Adds(s, new, t, r),
         NEW f, NEW l, NEW k, Finds(s, f, l, k)
  PROVE  Finds(r, f, l, k)
<1>1. PICK i \in 1..Len(s) : /\ s[i].file = f /\ s[i].line = l /\ s[i].nth = k
                             /\ s[i].after = Search!Min2(options.context, Len(Tree[f]) - l)
  BY DEF Finds
<1>2. i \in 1..Len(r) /\ r[i] = s[i]
  BY DEF Adds
<1> QED
  BY <1>1, <1>2 DEF Finds

LEMMA StillFindsAll ==
  ASSUME NEW s, NEW new, Len(s) \in Nat, Len(new) \in Nat, NEW t, NEW r, Adds(s, new, t, r),
         NEW f, FindsAll(s, f)
  PROVE  FindsAll(r, f)
BY StillFinds DEF FindsAll

\* s goes on as r.
Extended(s, r) == Len(s) <= Len(r) /\ \A i \in 1..Len(s) : r[i] = s[i]

LEMMA AddsExtends ==
  ASSUME NEW s, NEW new, Len(s) \in Nat, Len(new) \in Nat, NEW t, NEW r, Adds(s, new, t, r)
  PROVE  Extended(s, r)
BY DEF Adds, Extended

\* The first of what is pending become results.
LEMMA AddFront ==
  ASSUME OptionsTyped, NEW c, NEW j, InFile(j, c), NEW n \in 0..Len(j.pending)
  PROVE  \E t \in 0..n, q \in JobRecord :
           /\ q = Search!AddAll(j, SubSeq(j.pending, 1, n))
           /\ q.status = j.status /\ q.task = j.task /\ q.file = j.file /\ q.line = j.line
           /\ q.pending = j.pending /\ q.before = j.before
           /\ Adds(j.results, j.pending, t, q.results) /\ Len(q.results) <= options.max
           /\ ~q.truncated => ~j.truncated /\ t = n
           /\ n > options.max - Len(j.results) => q.truncated
           /\ t = Search!Min2(options.max - Len(j.results), n)
<1> DEFINE new == SubSeq(j.pending, 1, n)
<1>1. /\ j \in JobRecord /\ Len(j.results) <= options.max /\ Results = Match
      /\ j.pending \in Seq(Match) /\ Len(j.pending) \in Nat
  BY JobFields DEF InFile, Results
<1>2. new \in Seq(Match) /\ Len(new) = n /\ \A i \in 1..n : new[i] = j.pending[i]
  BY <1>1, FrontOf
<1>3. new \in Seq(Results)
  BY <1>1, <1>2
<1> HIDE DEF new
<1>4. PICK t \in 0..Len(new), q \in JobRecord :
        /\ q = Search!AddAll(j, new)
        /\ q.status = j.status /\ q.task = j.task /\ q.file = j.file /\ q.line = j.line
        /\ q.pending = j.pending /\ q.before = j.before
        /\ Adds(j.results, new, t, q.results) /\ Len(q.results) <= options.max
        /\ ~q.truncated => ~j.truncated /\ t = Len(new)
        /\ Len(new) > options.max - Len(j.results) => q.truncated
        /\ t = Search!Min2(options.max - Len(j.results), Len(new))
  BY <1>1, <1>3, AddAllIs
<1>5. Adds(j.results, j.pending, t, q.results)
  <2>1. t \in 0..Len(j.pending)
    BY <1>1, <1>2
  <2>2. \A i \in 1..t : i \in 1..n
    BY <1>1, <1>2
  <2> QED
    BY <1>2, <1>4, <2>1, <2>2, Zenon DEF Adds
<1>6. t \in 0..n /\ Len(new) = n
  BY <1>2
<1> QED
  BY <1>4, <1>5, <1>6 DEF new

\* What is made of the results and the first that are pending.
LEMMA FrontAdded ==
  ASSUME OptionsTyped, NEW c, NEW j, InFile(j, c), NEW t, NEW r, Adds(j.results, j.pending, t, r)
  PROVE  /\ InOrder(r) /\ Around(r) /\ Extended(j.results, r)
         /\ \A i \in 1..Len(r) : r[i].file < j.file \/ (r[i].file = j.file /\ r[i].line <= c)
<1>1. /\ j.results \in Seq(Match) /\ j.pending \in Seq(Match)
      /\ Len(j.results) \in Nat /\ Len(j.pending) \in Nat
      /\ InOrder(j.results) /\ InOrder(j.pending) /\ Ahead(j.results, j.pending)
      /\ Around(j.results) /\ Around(j.pending) /\ c \in 0..j.line /\ j.line \in Nat
  BY JobFields DEF InFile, Results
<1>2. ASSUME NEW i \in 1..Len(r) PROVE r[i].file < j.file \/ (r[i].file = j.file /\ r[i].line <= c)
  <2>1. CASE i \in 1..Len(j.results) /\ r[i] = j.results[i]
    BY <2>1 DEF InFile
  <2>2. CASE i - Len(j.results) \in 1..Len(j.pending) /\ r[i] = j.pending[i - Len(j.results)]
    <3> DEFINE m == j.pending[i - Len(j.results)]
    <3>1. m.file = j.file /\ m.line \in 1..c
      BY <2>2, Zenon DEF InFile
    <3>2. r[i] = m /\ c \in Nat
      BY <1>1, <2>2
    <3> HIDE DEF m
    <3> QED
      BY <3>1, <3>2
  <2>3. \/ i \in 1..Len(j.results) /\ r[i] = j.results[i]
        \/ i - Len(j.results) \in 1..Len(j.pending) /\ r[i] = j.pending[i - Len(j.results)]
    <3> DEFINE s == j.results
               new == j.pending
    <3>1. Len(s) \in Nat /\ Len(new) \in Nat /\ Adds(s, new, t, r)
      BY <1>1
    <3> HIDE DEF s, new
    <3>2. \/ i \in 1..Len(s) /\ r[i] = s[i]
          \/ i - Len(s) \in 1..Len(new) /\ r[i] = new[i - Len(s)]
      BY <3>1, AddedElements
    <3> QED
      BY <3>2 DEF s, new
  <2> QED
    BY <2>1, <2>2, <2>3
<1>3. InOrder(r)
  BY <1>1, AddedInOrder
<1>4. Around(r)
  BY <1>1, AddedAround
<1>5. Extended(j.results, r)
  BY <1>1, AddsExtends
<1> QED
  BY <1>2, <1>3, <1>4, <1>5

LEMMA OneOrNone ==
  \A n \in Nat : Search!Min2(1, n) \in 0..n /\ Search!Min2(1, n) <= 1 /\ (n >= 1 => Search!Min2(1, n) = 1)
BY DEF Search!Min2

LEMMA EmitAllIs ==
  ASSUME OptionsTyped, NEW c, NEW j, InFile(j, c)
  PROVE  \E t \in 0..Len(j.pending), q \in JobRecord :
           /\ q = Search!EmitAll(j)
           /\ q.status = j.status /\ q.task = j.task /\ q.file = j.file /\ q.line = j.line
           /\ Adds(j.results, j.pending, t, q.results) /\ Len(q.results) <= options.max
           /\ options.early => Len(q.results) <= Len(j.results) + 1
           /\ ~q.truncated => ~j.truncated
           /\ ~q.truncated /\ ~options.early => t = Len(j.pending)
           /\ options.early /\ j.results = <<>> /\ j.pending # <<>> => q.truncated \/ q.results # <<>>
<1> DEFINE n == IF options.early THEN Search!Min2(1, Len(j.pending)) ELSE Len(j.pending)
<1>1. /\ j \in JobRecord /\ j.pending \in Seq(Match) /\ Len(j.pending) \in Nat /\ Len(j.results) \in Nat
      /\ j.results \in Seq(Results)
  BY JobFields DEF InFile
<1>2. n \in 0..Len(j.pending) /\ (options.early => n <= 1) /\ (~options.early => n = Len(j.pending))
      /\ (options.early /\ j.pending # <<>> => n = 1)
  <2>1. j.pending # <<>> => Len(j.pending) >= 1
    BY <1>1, EmptySeq
  <2> DEFINE L == Len(j.pending)
  <2>2. Search!Min2(1, L) \in 0..L /\ Search!Min2(1, L) <= 1 /\ (L >= 1 => Search!Min2(1, L) = 1)
    <3> HIDE DEF n, L
    <3> QED
      BY <1>1, OneOrNone, Zenon DEF L
  <2>4. CASE options.early
    <3>1. n = Search!Min2(1, L)
      BY <2>4
    <3> HIDE DEF n
    <3> QED
      BY <2>1, <2>2, <2>4, <3>1
  <2>5. CASE ~options.early
    BY <1>1, <2>5
  <2> QED
    BY <2>4, <2>5
<1>3. Search!EmitAll(j) = [Search!AddAll(j, SubSeq(j.pending, 1, n)) EXCEPT !.pending = <<>>]
  BY DEF Search!EmitAll
<1> HIDE DEF n
<1>4. PICK t \in 0..n, k \in JobRecord :
        /\ k = Search!AddAll(j, SubSeq(j.pending, 1, n))
        /\ k.status = j.status /\ k.task = j.task /\ k.file = j.file /\ k.line = j.line
        /\ k.pending = j.pending /\ k.before = j.before
        /\ Adds(j.results, j.pending, t, k.results) /\ Len(k.results) <= options.max
        /\ ~k.truncated => ~j.truncated /\ t = n
  <2>1. \E t \in 0..n, k \in JobRecord :
        /\ k = Search!AddAll(j, SubSeq(j.pending, 1, n))
        /\ k.status = j.status /\ k.task = j.task /\ k.file = j.file /\ k.line = j.line
        /\ k.pending = j.pending /\ k.before = j.before
        /\ Adds(j.results, j.pending, t, k.results) /\ Len(k.results) <= options.max
        /\ ~k.truncated => ~j.truncated /\ t = n
        /\ n > options.max - Len(j.results) => k.truncated
        /\ t = Search!Min2(options.max - Len(j.results), n)
    BY <1>2, AddFront
  <2> QED
    BY <2>1
<1> DEFINE q == [k EXCEPT !.pending = <<>>]
<1>5. /\ q \in JobRecord /\ q.results = k.results /\ q.truncated = k.truncated
      /\ q.status = k.status /\ q.task = k.task /\ q.file = k.file /\ q.line = k.line
  <2>1. <<>> \in Seq(Match)
    BY EmptySeq
  <2> QED
    BY <2>1, Zenon DEF JobRecord
<1>6. q = Search!EmitAll(j)
  BY <1>3, <1>4
<1>7. Len(q.results) = Len(j.results) + t /\ t \in Nat
  BY <1>2, <1>4, <1>5 DEF Adds
<1>8. options.early => Len(q.results) <= Len(j.results) + 1
  BY <1>1, <1>2, <1>7
<1>9. options.early /\ j.results = <<>> /\ j.pending # <<>> => q.truncated \/ q.results # <<>>
  <2> SUFFICES ASSUME options.early, j.results = <<>>, j.pending # <<>>, ~q.truncated PROVE q.results # <<>>
    OBVIOUS
  <2>1. t = 1
    BY <1>2, <1>4, <1>5
  <2>2. Len(<<>>) = 0
    BY EmptySeq
  <2>3. Len(q.results) >= 1
    BY <1>1, <1>7, <2>1
  <2> QED
    BY <2>2, <2>3
<1>10. t \in 0..Len(j.pending)
  BY <1>2
<1> HIDE DEF q
<1>11. /\ q.status = j.status /\ q.task = j.task /\ q.file = j.file /\ q.line = j.line
       /\ Adds(j.results, j.pending, t, q.results) /\ Len(q.results) <= options.max
       /\ ~q.truncated => ~j.truncated
       /\ ~q.truncated /\ ~options.early => t = Len(j.pending)
  BY <1>2, <1>4, <1>5
<1> QED
  BY <1>5, <1>6, <1>8, <1>9, <1>10, <1>11

LEMMA OnwardFrom ==
  ASSUME OptionsTyped, NEW u, NEW k \in JobRecord, k.status # "completed",
         Len(k.results) <= options.max, k.file \in 1..Len(Tree),
         options.content => /\ InOrder(k.results) /\ Around(k.results)
                            /\ \A i \in 1..Len(k.results) : k.results[i].file <= k.file,
         options.early => Len(k.results) <= 2,
         Whole(k) /\ k.status = "running" => \A f \in 1..k.file : f \in u \/ FindsAll(k.results, f)
  PROVE  \E q : q = Search!Onward(k) /\ AtRest(q, u) /\ q.results = k.results
<1>1. /\ k.results \in Seq(Results) /\ Len(k.results) \in Nat /\ k.file \in Nat
      /\ k.status \in {"running", "stopped"} /\ k.truncated \in BOOLEAN
  BY JobFields
<1>0. Len(Tree) \in Nat
  BY SearchIsInATree, LenProperties DEF Search!SearchAssumption
<1>2. CASE k.status # "running" \/ k.truncated \/ (options.early /\ k.results # <<>>)
  <2> DEFINE q == [k EXCEPT !.task = "ended", !.status = IF @ = "running" THEN "completed" ELSE @]
  <2>1. q = Search!Onward(k)
    BY <1>2 DEF Search!Onward
  <2>2. /\ q \in JobRecord /\ q.task = "ended" /\ q.results = k.results /\ q.truncated = k.truncated /\ q.file = k.file
        /\ q.status = IF k.status = "running" THEN "completed" ELSE k.status
    <3>1. (IF k.status = "running" THEN "completed" ELSE k.status) \in Statuses
      BY DEF JobRecord, Statuses
    <3> QED
      BY <3>1, Zenon DEF JobRecord
  <2> HIDE DEF q
  <2>3. k.file \in 1..(Len(Tree) + 1)
    BY <1>0
  <2>4. q.status = "completed" => ~Whole(q)
    BY <1>1, <1>2, <2>2 DEF Whole
  <2>5. AtRest(q, u)
    BY <2>2, <2>3, <2>4 DEF AtRest
  <2> QED
    BY <2>1, <2>2, <2>5
<1>3. CASE ~(k.status # "running" \/ k.truncated \/ (options.early /\ k.results # <<>>))
  <2> DEFINE q == [k EXCEPT !.task = "walking", !.file = @ + 1]
  <2>1. q = Search!Onward(k)
    BY <1>3 DEF Search!Onward
  <2>2. /\ q \in JobRecord /\ q.task = "walking" /\ q.results = k.results /\ q.truncated = k.truncated
        /\ q.file = k.file + 1 /\ q.status = k.status
    <3>1. k.file + 1 \in Nat
      BY <1>1
    <3> DEFINE g == k.file + 1
    <3> HIDE DEF g
    <3>2. /\ [k EXCEPT !.task = "walking", !.file = g] \in JobRecord
          /\ [k EXCEPT !.task = "walking", !.file = g].file = g
      BY <3>1, Zenon DEF JobRecord, g
    <3> QED
      BY <3>2 DEF g, JobRecord
  <2> HIDE DEF q
  <2>3. q.file \in 1..(Len(Tree) + 1) /\ q.file - 1 = k.file
    BY <1>0, <2>2
  <2>4. options.early => q.results = <<>>
    BY <1>3, <2>2
  <2>5. options.content => \A i \in 1..Len(q.results) : q.results[i].file < q.file
    <3> SUFFICES ASSUME options.content, NEW i \in 1..Len(k.results) PROVE k.results[i].file < q.file
      BY <2>2
    <3>1. k.results[i] \in Match
      BY <1>1, ElementOfSeq DEF Results
    <3>2. k.results[i].file \in Nat /\ k.results[i].file <= k.file
      BY <3>1 DEF Match
    <3> QED
      BY <1>1, <2>2, <3>2
  <2>6. Whole(q) => \A f \in 1..(q.file - 1) : f \in u \/ FindsAll(q.results, f)
    BY <1>3, <2>2, <2>3 DEF Whole
  <2>7. AtRest(q, u)
    BY <1>3, <2>2, <2>3, <2>4, <2>5, <2>6 DEF AtRest
  <2> QED
    BY <2>1, <2>2, <2>7
<1> QED
  BY <1>2, <1>3

\* The reader is closed.
LEMMA CloseIs ==
  ASSUME OptionsTyped, NEW c, NEW j, InFile(j, c), options.early => Len(j.results) <= 1,
         NEW u,
         \A r \in Seq(Results) :
            /\ Whole(j) /\ j.status = "running" /\ Adds(j.results, j.pending, Len(j.pending), r)
            => \A f \in 1..j.file : f \in u \/ FindsAll(r, f)
  PROVE  \E q : q = Search!Close(j) /\ AtRest(q, u) /\ Extended(j.results, q.results)
<1>1. PICK t \in 0..Len(j.pending), k \in JobRecord :
        /\ k = Search!EmitAll(j)
        /\ k.status = j.status /\ k.task = j.task /\ k.file = j.file /\ k.line = j.line
        /\ Adds(j.results, j.pending, t, k.results) /\ Len(k.results) <= options.max
        /\ options.early => Len(k.results) <= Len(j.results) + 1
        /\ ~k.truncated => ~j.truncated
        /\ ~k.truncated /\ ~options.early => t = Len(j.pending)
  BY EmitAllIs
<1>2. /\ InOrder(k.results) /\ Around(k.results) /\ Extended(j.results, k.results)
      /\ \A i \in 1..Len(k.results) : k.results[i].file < j.file \/ (k.results[i].file = j.file /\ k.results[i].line <= c)
  BY <1>1, FrontAdded, Zenon
<1>3. /\ j \in JobRecord /\ Len(j.results) \in Nat /\ k.results \in Seq(Results) /\ Len(k.results) \in Nat
      /\ j.file \in 1..Len(Tree) /\ j.status # "completed" /\ j.file \in Nat /\ options.content
  BY JobFields DEF InFile
<1>4. \A i \in 1..Len(k.results) : k.results[i].file <= k.file
  <2> SUFFICES ASSUME NEW i \in 1..Len(k.results) PROVE k.results[i].file <= k.file
    OBVIOUS
  <2>1. k.results[i] \in Match
    BY <1>3, ElementOfSeq DEF Results
  <2>2. k.results[i].file \in Nat /\ (k.results[i].file < j.file \/ k.results[i].file = j.file)
    BY <1>2, <2>1 DEF Match
  <2> QED
    BY <1>1, <1>3, <2>2
<1>5. Whole(k) /\ k.status = "running" => \A f \in 1..k.file : f \in u \/ FindsAll(k.results, f)
  BY <1>1, <1>3 DEF Whole
<1>6. options.early => Len(k.results) <= 2
  BY <1>1, <1>3
<1>7. \E q : q = Search!Onward(k) /\ AtRest(q, u) /\ q.results = k.results
  BY <1>1, <1>2, <1>3, <1>4, <1>5, <1>6, OnwardFrom, Zenon
<1>8. Search!Close(j) = Search!Onward(k)
  BY <1>1 DEF Search!Close
<1> QED
  BY <1>2, <1>7, <1>8

LEMMA TreeTyped ==
  /\ Len(Tree) \in Nat
  /\ \A f \in 1..Len(Tree) : Tree[f] \in Seq(Nat) /\ Len(Tree[f]) \in Nat
  /\ \A f \in 1..Len(Tree) : \A l \in 1..Len(Tree[f]) : Tree[f][l] \in Nat
<1>1. Tree \in Seq(Seq(Nat))
  BY SearchIsInATree DEF Search!SearchAssumption
<1>2. Len(Tree) \in Nat /\ \A f \in 1..Len(Tree) : Tree[f] \in Seq(Nat)
  BY <1>1, LenProperties, ElementOfSeq
<1>3. \A f \in 1..Len(Tree) : Len(Tree[f]) \in Nat /\ \A l \in 1..Len(Tree[f]) : Tree[f][l] \in Nat
  BY <1>2, LenProperties, ElementOfSeq, Zenon
<1> QED
  BY <1>2, <1>3

\* The reader is closed for a reason of its own.
LEMMA ClosedEarly ==
  ASSUME OptionsTyped, NEW c, NEW j, InFile(j, c), options.early => Len(j.results) <= 1,
         j.status # "running" \/ j.truncated \/ options.early, NEW u
  PROVE  \E q : q = Search!Close(j) /\ AtRest(q, u) /\ Extended(j.results, q.results)
<1>1. \A r \in Seq(Results) :
        /\ Whole(j) /\ j.status = "running" /\ Adds(j.results, j.pending, Len(j.pending), r)
        => \A f \in 1..j.file : f \in u \/ FindsAll(r, f)
  BY DEF Whole
<1> QED
  BY <1>1, CloseIs

\* The reader is closed behind the last line.
LEMMA ClosedAtTheEnd ==
  ASSUME OptionsTyped, NEW j, Reading(j, j.line), j.line = Len(Tree[j.file])
  PROVE  \E q : q = Search!Close(j) /\ AtRest(q, unread) /\ Extended(j.results, q.results)
<1>1. InFile(j, j.line) /\ j \in JobRecord /\ j.file \in 1..Len(Tree) /\ j.file \in Nat /\ j.line \in Nat
  BY JobFields, Zenon DEF Reading, InFile
<1>2. Len(j.results) \in Nat /\ Len(j.pending) \in Nat
  BY <1>1, JobFields
<1>3. options.early => Len(j.results) <= 1
  <2>1. Len(<<>>) = 0
    BY EmptySeq
  <2> QED
    BY <2>1 DEF Reading
<1>4. ASSUME NEW r \in Seq(Results), Whole(j), Adds(j.results, j.pending, Len(j.pending), r), NEW f \in 1..j.file
      PROVE  f \in unread \/ FindsAll(r, f)
  <2>1. CASE f < j.file
    <3>1. f \in 1..(j.file - 1)
      BY <1>1, <2>1
    <3>2. f \in unread \/ FindsAll(j.results, f)
      BY <1>4, <3>1 DEF Reading
    <3> QED
      BY <1>2, <1>4, <3>2, StillFindsAll
  <2>2. CASE f = j.file
    <3>1. ASSUME NEW l \in 1..Len(Tree[f]), NEW k \in 1..Tree[f][l] PROVE Finds(r, f, l, k)
      <4>1. \/ Finds(j.results, j.file, l, k)
            \/ \E i \in 1..Len(j.pending) : j.pending[i].line = l /\ j.pending[i].nth = k
        <5>1. l \in 1..j.line /\ k \in 1..Tree[j.file][l]
          BY <2>2
        <5> QED
          BY <1>4, <5>1 DEF Reading
      <4>2. CASE Finds(j.results, j.file, l, k)
        BY <1>2, <1>4, <2>2, <4>2, StillFinds
      <4>3. CASE \E i \in 1..Len(j.pending) : j.pending[i].line = l /\ j.pending[i].nth = k
        <5>1. PICK i \in 1..Len(j.pending) : j.pending[i].line = l /\ j.pending[i].nth = k
          BY <4>3, Zenon
        <5>2. j.pending[i].file = j.file /\ j.pending[i].after = Search!Min2(options.context, j.line - j.pending[i].line)
          BY <1>1, Zenon DEF InFile
        <5>3. r[Len(j.results) + i] = j.pending[i] /\ Len(r) = Len(j.results) + Len(j.pending)
          BY <1>4, Zenon DEF Adds
        <5>4. Len(j.results) + i \in 1..Len(r)
          <6> DEFINE a == Len(j.results)
                     b == Len(j.pending)
          <6>1. a \in Nat /\ b \in Nat /\ i \in 1..b /\ Len(r) = a + b
            BY <1>2, <5>3
          <6> HIDE DEF a, b
          <6>2. a + i \in 1..Len(r)
            BY <6>1
          <6> QED
            BY <6>2 DEF a
        <5>5. j.pending[i].after = Search!Min2(options.context, Len(Tree[f]) - l)
          BY <2>2, <5>1, <5>2
        <5> DEFINE x == Len(j.results) + i
        <5>6. /\ x \in 1..Len(r) /\ r[x].file = f /\ r[x].line = l /\ r[x].nth = k
              /\ r[x].after = Search!Min2(options.context, Len(Tree[f]) - l)
          BY <2>2, <5>1, <5>2, <5>3, <5>4, <5>5, Zenon
        <5> HIDE DEF x
        <5> QED
          BY <5>6 DEF Finds
      <4> QED
        BY <4>1, <4>2, <4>3
    <3> QED
      BY <3>1 DEF FindsAll
  <2>3. f < j.file \/ f = j.file
    BY <1>1
  <2> QED
    BY <2>1, <2>2, <2>3
<1>5. \A r \in Seq(Results) :
        /\ Whole(j) /\ j.status = "running" /\ Adds(j.results, j.pending, Len(j.pending), r)
        => \A f \in 1..j.file : f \in unread \/ FindsAll(r, f)
  BY <1>4
<1> QED
  BY <1>1, <1>3, <1>5, CloseIs

\* Of what is pending, all that is due and no more is up to the first that is not.
LEMMA HowManyDueIs ==
  ASSUME NEW j, Len(j.pending) \in Nat
  PROVE  \E n \in 0..Len(j.pending) :
           /\ n = Search!HowManyDue(j)
           /\ \A i \in 1..n : j.line >= j.pending[i].line + options.context
<1> DEFINE due(i) == j.line >= j.pending[i].line + options.context
           L == Len(j.pending)
           Longest(n) == (\A i \in 1..n : due(i)) /\ (n < L => ~due(n + 1))
<1>1. L \in Nat
  OBVIOUS
<1>2. \E n \in 0..L : Longest(n)
  <2>1. CASE \A i \in 1..L : due(i)
    <3>1. L \in 0..L /\ ~(L < L)
      BY <1>1
    <3> QED
      BY <2>1, <3>1
  <2>2. CASE ~ \A i \in 1..L : due(i)
    <3> DEFINE T == {i \in 1..L : ~due(i)}
    <3>1. T \subseteq Nat /\ T # {}
      BY <1>1, <2>2
    <3> HIDE DEF T
    <3>2. PICK m \in T : \A i \in T : m <= i
      BY <3>1, LeastNumber, Zenon
    <3>3. m \in 1..L /\ ~due(m)
      BY <3>2 DEF T
    <3>4. ASSUME NEW i \in 1..(m - 1) PROVE due(i)
      <4>1. i \in 1..L /\ ~(m <= i)
        BY <1>1, <3>3
      <4> QED
        BY <3>2, <4>1 DEF T
    <3>5. m - 1 \in 0..L /\ (m - 1) + 1 = m
      BY <1>1, <3>3
    <3> HIDE DEF due, L
    <3> QED
      BY <3>3, <3>4, <3>5
  <2> QED
    BY <2>1, <2>2, Zenon
<1>3. Search!HowManyDue(j) = CHOOSE n \in 0..L : Longest(n)
  BY DEF Search!HowManyDue
<1> DEFINE h == CHOOSE n \in 0..L : Longest(n)
<1> HIDE DEF Longest
<1>4. h \in 0..L /\ Longest(h)
  BY <1>2
<1> HIDE DEF h
<1> QED
  BY <1>3, <1>4 DEF Longest, h

\* The first are results, the first and maybe one more are no longer pending.
LEMMA StillInFile ==
  ASSUME OptionsTyped, NEW c, NEW j, InFile(j, c), NEW m \in 0..Len(j.pending), NEW t \in 0..m,
         NEW k \in JobRecord, k.task = j.task, k.status = j.status, k.file = j.file, k.line = j.line,
         Adds(j.results, j.pending, t, k.results), Len(k.results) <= options.max,
         k.pending = SubSeq(j.pending, m + 1, Len(j.pending))
  PROVE  InFile(k, c)
<1>1. /\ j.results \in Seq(Match) /\ j.pending \in Seq(Match)
      /\ Len(j.results) \in Nat /\ Len(j.pending) \in Nat
  BY JobFields DEF InFile, Results
<1> DEFINE N == Len(j.pending)
<1>2. /\ k.pending \in Seq(Match) /\ Len(k.pending) = N - m
      /\ \A i \in 1..(N - m) : k.pending[i] = j.pending[m + i]
  BY <1>1, BackOf
<1>3. N \in Nat /\ m \in Nat /\ m <= N /\ t \in Nat /\ t <= m
  BY <1>1
<1> HIDE DEF N
<1>4. \A i \in 1..Len(k.pending) : m + i \in 1..N /\ k.pending[i] = j.pending[m + i]
  BY <1>2, <1>3
<1>5. /\ InOrder(k.results) /\ Around(k.results)
      /\ \A i \in 1..Len(k.results) : k.results[i].file < j.file \/ (k.results[i].file = j.file /\ k.results[i].line <= c)
  BY FrontAdded, Zenon
<1>6. InOrder(k.pending)
  <2> SUFFICES ASSUME NEW a \in 1..Len(k.pending), NEW b \in 1..Len(k.pending), a < b
               PROVE  Search!Comes(k.pending[a], k.pending[b])
    BY Zenon DEF InOrder
  <2>1. a \in 1..(N - m) /\ b \in 1..(N - m)
    BY <1>2, Zenon
  <2>2. m + a < m + b
    BY <1>3, <2>1
  <2>3. m + a \in 1..N /\ m + b \in 1..N /\ InOrder(j.pending)
    BY <1>4, Zenon DEF InFile
  <2>4. Search!Comes(j.pending[m + a], j.pending[m + b])
    BY <2>2, <2>3 DEF InOrder, N
  <2> QED
    BY <1>4, <2>4, Zenon
<1>7. Ahead(k.results, k.pending)
  <2> SUFFICES ASSUME NEW a \in 1..Len(k.results), NEW b \in 1..Len(k.pending)
               PROVE  Search!Comes(k.results[a], k.pending[b])
    BY Zenon DEF Ahead
  <2>1. m + b \in 1..N /\ k.pending[b] = j.pending[m + b] /\ b \in Nat /\ b >= 1
    BY <1>2, <1>3, <1>4
  <2> DEFINE d == a - Len(j.results)
  <2>2. \/ a \in 1..Len(j.results) /\ k.results[a] = j.results[a]
        \/ d \in 1..t /\ d \in 1..Len(j.pending) /\ k.results[a] = j.pending[d]
    <3> DEFINE s == j.results
               new == j.pending
               r == k.results
    <3>1. Len(s) \in Nat /\ Len(new) \in Nat /\ Adds(s, new, t, r) /\ a \in 1..Len(r)
      BY <1>1
    <3> HIDE DEF s, new, r
    <3>2. \/ a \in 1..Len(s) /\ r[a] = s[a]
          \/ a - Len(s) \in 1..Len(new) /\ r[a] = new[a - Len(s)]
      BY <3>1, AddedElements
    <3>3. Len(r) = Len(s) + t
      BY <3>1 DEF Adds
    <3>4. a - Len(s) \in 1..Len(new) => a - Len(s) \in 1..t
      BY <1>3, <3>1, <3>3
    <3> QED
      BY <3>2, <3>4 DEF s, new, r
  <2> HIDE DEF d
  <2>3. CASE a \in 1..Len(j.results) /\ k.results[a] = j.results[a]
    BY <2>1, <2>3, Zenon DEF InFile, Ahead, N
  <2>4. CASE d \in 1..t /\ d \in 1..Len(j.pending) /\ k.results[a] = j.pending[d]
    <3>1. d < m + b
      BY <1>3, <2>1, <2>4
    <3> QED
      BY <2>1, <2>4, <3>1 DEF InFile, InOrder, N
  <2> QED
    BY <2>2, <2>3, <2>4
<1>8. Around(k.pending)
  BY <1>4, Zenon DEF InFile, Around, N
<1>9. \A i \in 1..Len(k.pending) :
        /\ k.pending[i].file = k.file /\ k.pending[i].line \in 1..c
        /\ k.pending[i].after = Search!Min2(options.context, k.line - k.pending[i].line)
  BY <1>4, Zenon DEF InFile, N
<1> QED
  BY <1>5, <1>6, <1>7, <1>8, <1>9, Zenon DEF InFile

LEMMA MinIs ==
  \A a \in Nat : \A b \in Int : a <= b => Search!Min2(a, b) = a
BY DEF Search!Min2

LEMMA RoomIs ==
  \A n, room \in Nat : /\ Search!Min2(room, n) \in 0..n /\ Search!Min2(n, room + 1) \in 0..n
                       /\ Search!Min2(room, n) <= Search!Min2(n, room + 1)
                       /\ ~(n > room) => Search!Min2(room, n) = n /\ Search!Min2(n, room + 1) = n
BY DEF Search!Min2

\* The first become results with all the lines behind them, the others wait.
LEMMA StillReading ==
  ASSUME OptionsTyped, NEW c, NEW j, Reading(j, c), NEW n \in 0..Len(j.pending),
         \A i \in 1..n : j.line >= j.pending[i].line + options.context,
         NEW k, InFile(k, c), k.file = j.file, k.line = j.line,
         Adds(j.results, j.pending, n, k.results),
         k.pending = SubSeq(j.pending, n + 1, Len(j.pending)),
         ~k.truncated => ~j.truncated, options.early => n = 0
  PROVE  Reading(k, c)
<1>1. /\ j.results \in Seq(Match) /\ j.pending \in Seq(Match)
      /\ Len(j.results) \in Nat /\ Len(j.pending) \in Nat
      /\ k.results \in Seq(Match) /\ Len(k.results) \in Nat
      /\ InFile(j, c) /\ j.file \in 1..Len(Tree) /\ j.line \in 0..Len(Tree[j.file])
      /\ c \in 0..j.line /\ options.context \in Nat
  BY JobFields DEF Reading, InFile, Results, OptionsTyped
<1> DEFINE N == Len(j.pending)
           R == Len(j.results)
<1>2. /\ Len(k.pending) = N - n /\ \A i \in 1..(N - n) : k.pending[i] = j.pending[n + i]
  BY <1>1, BackOf
<1>3. N \in Nat /\ R \in Nat /\ n \in Nat /\ n <= N
  BY <1>1
<1>4. /\ Len(k.results) = R + n /\ \A i \in 1..n : k.results[R + i] = j.pending[i]
  BY DEF Adds
<1> HIDE DEF N, R
<1>5. options.early => k.results = <<>>
  <2> SUFFICES ASSUME options.early PROVE k.results = <<>>
    OBVIOUS
  <2>1. j.results = <<>> /\ Len(<<>>) = 0
    BY EmptySeq DEF Reading
  <2>2. Len(k.results) = 0
    BY <1>3, <1>4, <2>1 DEF R
  <2> QED
    BY <1>1, <2>2, EmptySeq
<1>6. Whole(k) => Whole(j)
  BY DEF Whole
<1>7. Whole(k) => \A f \in 1..(k.file - 1) : f \in unread \/ FindsAll(k.results, f)
  BY <1>1, <1>6, StillFindsAll, Zenon DEF Reading
<1>8. ASSUME Whole(k), NEW l \in 1..c, NEW w \in 1..Tree[k.file][l]
      PROVE  \/ Finds(k.results, k.file, l, w)
             \/ \E i \in 1..Len(k.pending) : k.pending[i].line = l /\ k.pending[i].nth = w
  <2>1. \/ Finds(j.results, j.file, l, w)
        \/ \E i \in 1..Len(j.pending) : j.pending[i].line = l /\ j.pending[i].nth = w
    BY <1>6, <1>8 DEF Reading
  <2>2. CASE Finds(j.results, j.file, l, w)
    BY <1>1, <2>2, StillFinds, Zenon
  <2>3. CASE \E i \in 1..Len(j.pending) : j.pending[i].line = l /\ j.pending[i].nth = w
    <3>1. PICK i \in 1..N : j.pending[i].line = l /\ j.pending[i].nth = w
      BY <2>3 DEF N
    <3>2. CASE i <= n
      <4>1. i \in 1..n
        BY <3>2
      <4>2. /\ j.pending[i].file = j.file /\ j.pending[i].line = l
            /\ j.pending[i].after = Search!Min2(options.context, j.line - l)
        BY <1>1, <3>1, Zenon DEF InFile, N
      <4>3. j.line >= l + options.context
        BY <3>1, <4>1, Zenon
      <4> DEFINE T == Len(Tree[j.file])
      <4>4. T \in Nat /\ j.line \in Nat /\ j.line <= T /\ l \in Nat
        BY <1>1, TreeTyped
      <4> HIDE DEF T
      <4>5. Search!Min2(options.context, j.line - l) = Search!Min2(options.context, T - l)
        <5>1. options.context <= j.line - l /\ options.context <= T - l /\ j.line - l \in Int /\ T - l \in Int
          <6> DEFINE J == j.line
                     C == options.context
          <6>1. J \in Nat /\ C \in Nat /\ J >= l + C /\ T \in Nat /\ J <= T /\ l \in Nat
            BY <1>1, <4>3, <4>4
          <6> HIDE DEF J, C
          <6>2. C <= J - l /\ C <= T - l /\ J - l \in Int /\ T - l \in Int
            BY <6>1
          <6> QED
            BY <6>2 DEF J, C
        <5> QED
          BY <1>1, <5>1, MinIs
      <4> DEFINE x == R + i
      <4>6. x \in 1..Len(k.results) /\ k.results[x] = j.pending[i]
        BY <1>3, <1>4, <4>1
      <4> HIDE DEF x
      <4>7. /\ k.results[x].file = k.file /\ k.results[x].line = l /\ k.results[x].nth = w
            /\ k.results[x].after = Search!Min2(options.context, Len(Tree[k.file]) - l)
        BY <3>1, <4>2, <4>5, <4>6 DEF T
      <4>8. Finds(k.results, k.file, l, w)
        BY <4>6, <4>7, Zenon DEF Finds
      <4> QED
        BY <4>8
    <3>3. CASE ~(i <= n)
      <4>1. i - n \in 1..(N - n) /\ n + (i - n) = i
        BY <1>3, <3>1, <3>3
      <4>2. k.pending[i - n] = j.pending[i] /\ i - n \in 1..Len(k.pending)
        BY <1>2, <4>1
      <4> QED
        BY <3>1, <4>2, Zenon
    <3> QED
      BY <3>2, <3>3, Zenon
  <2> QED
    BY <2>1, <2>2, <2>3, Zenon
<1> QED
  BY <1>5, <1>7, <1>8 DEF Reading

\* emitReady between two lines.
LEMMA EmitReadyIs ==
  ASSUME OptionsTyped, NEW c, NEW j, Reading(j, c)
  PROVE  \E q : /\ q = Search!EmitReady(j) /\ Extended(j.results, q.results)
                /\ \/ /\ Reading(q, c)
                      /\ q.line = j.line /\ q.file = j.file /\ q.before = j.before /\ q.status = j.status
                   \/ AtRest(q, unread)
<1> DEFINE due == Search!HowManyDue(j)
           n == IF options.early THEN Search!Min2(1, due) ELSE due
           room == options.max - Len(j.results)
           emitted == Search!AddAll(j, SubSeq(j.pending, 1, n))
           left == SubSeq(j.pending, Search!Min2(n, room + 1) + 1, Len(j.pending))
           k == [emitted EXCEPT !.pending = left]
<1>1. /\ j \in JobRecord /\ InFile(j, c) /\ Len(j.pending) \in Nat /\ Len(j.results) \in Nat
      /\ j.pending \in Seq(Match) /\ Len(j.results) <= options.max /\ options.max \in Nat
      /\ j.results \in Seq(Results)
  BY JobFields DEF Reading, InFile, OptionsTyped
<1>2. due \in 0..Len(j.pending) /\ \A i \in 1..due : j.line >= j.pending[i].line + options.context
  <2>1. \E x \in 0..Len(j.pending) :
           /\ x = Search!HowManyDue(j)
           /\ \A i \in 1..x : j.line >= j.pending[i].line + options.context
    BY <1>1, HowManyDueIs, Zenon
  <2> QED
    BY <2>1
<1>3. Search!EmitReady(j) = IF n > room \/ (options.early /\ n > 0) THEN Search!Close(k) ELSE k
  BY Zenon DEF Search!EmitReady
<1> HIDE DEF due
<1>4. n \in 0..due /\ (options.early => n <= 1)
  <2>1. due \in Nat
    BY <1>1, <1>2
  <2>2. Search!Min2(1, due) \in 0..due /\ Search!Min2(1, due) <= 1
    BY <2>1, OneOrNone
  <2>3. due \in 0..due
    BY <2>1
  <2> QED
    BY <2>2, <2>3
<1> HIDE DEF n
<1>5. n \in 0..Len(j.pending) /\ n \in Nat /\ \A i \in 1..n : i \in 1..due
  BY <1>1, <1>2, <1>4
<1>6. \A i \in 1..n : j.line >= j.pending[i].line + options.context
  BY <1>2, <1>5
<1>7. room \in Nat
  BY <1>1
<1> DEFINE m == Search!Min2(n, room + 1)
           t == Search!Min2(room, n)
<1>8. t \in 0..n /\ m \in 0..n /\ t <= m /\ (~(n > room) => t = n /\ m = n)
  <2> HIDE DEF room
  <2> QED
    BY <1>5, <1>7, RoomIs, Zenon
<1>9. /\ emitted \in JobRecord
      /\ emitted.status = j.status /\ emitted.task = j.task /\ emitted.file = j.file /\ emitted.line = j.line
      /\ emitted.before = j.before
      /\ Adds(j.results, j.pending, t, emitted.results) /\ Len(emitted.results) <= options.max
      /\ ~emitted.truncated => ~j.truncated
      /\ n > room => emitted.truncated
  <2>1. \E a \in 0..n, q \in JobRecord :
           /\ q = Search!AddAll(j, SubSeq(j.pending, 1, n))
           /\ q.status = j.status /\ q.task = j.task /\ q.file = j.file /\ q.line = j.line
           /\ q.pending = j.pending /\ q.before = j.before
           /\ Adds(j.results, j.pending, a, q.results) /\ Len(q.results) <= options.max
           /\ ~q.truncated => ~j.truncated /\ a = n
           /\ n > options.max - Len(j.results) => q.truncated
           /\ a = Search!Min2(options.max - Len(j.results), n)
    BY <1>1, <1>5, AddFront
  <2> QED
    BY <2>1
<1> HIDE DEF emitted, room, m, t
<1>10. m \in 0..Len(j.pending) /\ t \in 0..m
  BY <1>1, <1>5, <1>8
<1>11. left = SubSeq(j.pending, m + 1, Len(j.pending)) /\ left \in Seq(Match)
  <2>1. SubSeq(j.pending, m + 1, Len(j.pending)) \in Seq(Match)
    BY <1>1, <1>10, BackOf
  <2> QED
    BY <2>1 DEF m
<1> HIDE DEF left
<1>12. /\ k \in JobRecord
       /\ k.status = j.status /\ k.task = j.task /\ k.file = j.file /\ k.line = j.line
       /\ k.before = j.before /\ k.pending = left
       /\ k.results = emitted.results /\ k.truncated = emitted.truncated
  BY <1>9, <1>11, Zenon DEF JobRecord
<1> HIDE DEF k
<1>13. InFile(k, c)
  BY <1>1, <1>9, <1>10, <1>11, <1>12, StillInFile, Zenon
<1>14. Extended(j.results, k.results)
  BY <1>1, <1>9, <1>12, AddsExtends
<1>15. CASE n > room \/ (options.early /\ n > 0)
  <2>1. options.early => Len(k.results) <= 1
    <3> SUFFICES ASSUME options.early PROVE Len(k.results) <= 1
      OBVIOUS
    <3>1. j.results = <<>> /\ Len(<<>>) = 0
      BY EmptySeq DEF Reading
    <3>2. Len(k.results) = 0 + t /\ t \in Nat /\ t <= n
      BY <1>5, <1>8, <1>9, <1>12, <3>1 DEF Adds
    <3> QED
      BY <1>4, <1>5, <3>2
  <2>2. k.status # "running" \/ k.truncated \/ options.early
    BY <1>9, <1>12, <1>15
  <2>3. \E q : q = Search!Close(k) /\ AtRest(q, unread) /\ Extended(k.results, q.results)
    BY <1>13, <2>1, <2>2, ClosedEarly
  <2>4. PICK q : q = Search!Close(k) /\ AtRest(q, unread) /\ Extended(k.results, q.results)
    BY <2>3
  <2>5. Extended(j.results, q.results)
    <3>1. \A i \in 1..Len(j.results) : i \in 1..Len(k.results)
      BY <1>14 DEF Extended
    <3>2. Len(k.results) \in Nat /\ Len(q.results) \in Nat
      BY <1>12, <2>4, JobFields DEF AtRest
    <3> QED
      BY <1>1, <1>14, <2>4, <3>1, <3>2 DEF Extended
  <2> QED
    BY <1>3, <1>15, <2>4, <2>5
<1>16. CASE ~(n > room \/ (options.early /\ n > 0))
  <2>1. t = n /\ m = n
    BY <1>8, <1>16
  <2>2. options.early => n = 0
    BY <1>5, <1>16
  <2>3. Reading(k, c)
    BY <1>5, <1>6, <1>9, <1>11, <1>12, <1>13, <2>1, <2>2, StillReading
  <2> QED
    BY <1>3, <1>12, <1>14, <1>16, <2>3
<1> QED
  BY <1>15, <1>16

\* What concerns the lines of a file alone: one line more is behind what is pending.
LEMMA OneLineMore ==
  \A ctx, l, m \in Nat :
    m <= l => /\ l + 1 <= m + ctx => Search!Min2(ctx, l - m) + 1 = Search!Min2(ctx, (l + 1) - m)
              /\ ~(l + 1 <= m + ctx) => Search!Min2(ctx, l - m) = Search!Min2(ctx, (l + 1) - m)
              /\ Search!Min2(ctx, (l + 1) - m) <= ctx /\ Search!Min2(ctx, (l + 1) - m) \in Nat
BY DEF Search!Min2

LEMMA LineBehindIs ==
  ASSUME OptionsTyped, NEW j, j = Search!Job, Reading(j, j.line), j.line < Len(Tree[j.file])
  PROVE  \E k : /\ k = Search!LineBehind(line + 1) /\ Reading(k, line)
                /\ k.line = line + 1 /\ k.file = file /\ k.before = before /\ k.results = j.results
<1>1. /\ j \in JobRecord /\ InFile(j, j.line) /\ j.pending \in Seq(Match) /\ Len(j.pending) \in Nat
      /\ j.line \in Nat /\ j.file \in 1..Len(Tree) /\ j.results \in Seq(Match)
      /\ Len(j.results) \in Nat /\ options.context \in Nat
  BY JobFields DEF Reading, InFile, OptionsTyped, Results
<1>2. j.line = line /\ j.file = file /\ j.before = before
  BY DEF Search!Job
<1> DEFINE n == line + 1
           N == Len(j.pending)
           new == [i \in 1..N |-> IF n <= j.pending[i].line + options.context
                                  THEN [j.pending[i] EXCEPT !.after = @ + 1] ELSE j.pending[i]]
           k == [j EXCEPT !.line = n, !.pending = new]
<1>3. Len(Tree[j.file]) \in Nat /\ n \in Nat /\ n <= Len(Tree[j.file]) /\ line \in Nat
  BY <1>1, <1>2, TreeTyped
<1>4. k = Search!LineBehind(n)
  <2>1. DOMAIN j.pending = 1..N
    BY <1>1, LenProperties
  <2> QED
    <3>1. pending = j.pending
      BY DEF Search!Job
    <3>2. [i \in DOMAIN pending |->
             IF n <= pending[i].line + options.context
             THEN [pending[i] EXCEPT !.after = @ + 1] ELSE pending[i]] = new
      BY <2>1, <3>1, Zenon
    <3> HIDE DEF new
    <3> QED
      BY <3>2, Zenon DEF Search!LineBehind
<1> HIDE DEF n
<1>5. ASSUME NEW i \in 1..N
      PROVE  /\ new[i] \in Match /\ new[i].file = j.pending[i].file /\ new[i].line = j.pending[i].line
             /\ new[i].nth = j.pending[i].nth /\ new[i].before = j.pending[i].before
             /\ new[i].after = Search!Min2(options.context, n - new[i].line) /\ new[i].after <= options.context
             /\ new[i].file = j.file /\ new[i].line \in 1..line
  <2> DEFINE p == j.pending[i]
  <2>1. p \in Match /\ p.file = j.file /\ p.line \in 1..line /\ p.after = Search!Min2(options.context, line - p.line)
    <3>1. p \in Match
      BY <1>1, ElementOfSeq
    <3> QED
      BY <1>1, <1>2, <3>1, Zenon DEF InFile
  <2>2. p.line \in Nat /\ p.line <= line /\ p.after \in Nat
    BY <1>3, <2>1 DEF Match
  <2>3. /\ n <= p.line + options.context => p.after + 1 = Search!Min2(options.context, n - p.line)
        /\ ~(n <= p.line + options.context) => p.after = Search!Min2(options.context, n - p.line)
        /\ Search!Min2(options.context, n - p.line) <= options.context
    <3> DEFINE C == options.context
               m == p.line
               x == Search!Min2(C, n - m)
    <3>1. C \in Nat /\ line \in Nat /\ m \in Nat /\ m <= line
      BY <1>1, <1>3, <2>2
    <3> HIDE DEF C, m
    <3>2. /\ n <= m + C => Search!Min2(C, line - m) + 1 = x
          /\ ~(n <= m + C) => Search!Min2(C, line - m) = x
          /\ x <= C
      BY <3>1, OneLineMore DEF n
    <3>3. p.after = Search!Min2(C, line - m)
      BY <2>1 DEF C, m
    <3> HIDE DEF x
    <3>4. (n <= m + C => p.after + 1 = x) /\ (~(n <= m + C) => p.after = x) /\ x <= C
      BY <3>2, <3>3
    <3> QED
      BY <3>4 DEF x, m, C
  <2> HIDE DEF p
  <2>4. CASE n <= p.line + options.context
    <3>1. new[i] = [p EXCEPT !.after = @ + 1]
      BY <2>4 DEF p
    <3> HIDE DEF new
    <3>2. /\ new[i] \in Match /\ new[i].file = p.file /\ new[i].line = p.line /\ new[i].nth = p.nth
          /\ new[i].before = p.before /\ new[i].after = p.after + 1
      BY <2>1, <2>2, <3>1 DEF Match
    <3> QED
      BY <2>1, <2>3, <2>4, <3>2 DEF p
  <2>5. CASE ~(n <= p.line + options.context)
    <3>1. new[i] = p
      BY <2>5 DEF p
    <3> HIDE DEF new
    <3> QED
      BY <2>1, <2>3, <2>5, <3>1 DEF p
  <2> QED
    BY <2>4, <2>5
<1> HIDE DEF new
<1>6. new \in Seq(Match) /\ Len(new) = N
  <2>1. new = [i \in 1..N |-> new[i]] /\ N \in Nat
    BY <1>1 DEF new
  <2>2. new \in [1..N -> Match]
    BY <1>5, <2>1, Zenon
  <2>3. new \in Seq(Match)
    BY <2>1, <2>2, SeqDef
  <2>4. DOMAIN new = 1..N
    BY <2>1
  <2> QED
    BY <2>1, <2>3, <2>4, LenProperties
<1>7. /\ k \in JobRecord /\ k.line = n /\ k.pending = new /\ k.results = j.results /\ k.task = j.task
      /\ k.status = j.status /\ k.truncated = j.truncated /\ k.file = j.file /\ k.before = j.before
  BY <1>1, <1>3, <1>6, Zenon DEF JobRecord
<1> HIDE DEF k, N
<1>8. InOrder(k.pending)
  <2> SUFFICES ASSUME NEW a \in 1..N, NEW b \in 1..N, a < b PROVE Search!Comes(new[a], new[b])
    BY <1>6, <1>7 DEF InOrder
  <2>1. Search!Comes(j.pending[a], j.pending[b])
    BY <1>1 DEF InFile, InOrder, N
  <2> QED
    BY <1>5, <2>1 DEF Search!Comes
<1>9. Ahead(k.results, k.pending)
  <2> SUFFICES ASSUME NEW a \in 1..Len(j.results), NEW b \in 1..N PROVE Search!Comes(j.results[a], new[b])
    BY <1>6, <1>7 DEF Ahead
  <2>1. Search!Comes(j.results[a], j.pending[b])
    BY <1>1, Zenon DEF InFile, Ahead, N
  <2> QED
    BY <1>5, <2>1 DEF Search!Comes
<1>10. Around(k.pending)
  <2> SUFFICES ASSUME NEW a \in 1..N
               PROVE  /\ new[a].after <= options.context
                      /\ options.context > 0 => new[a].before = Search!Min2(options.context, new[a].line - 1)
    BY <1>6, <1>7 DEF Around
  <2>1. options.context > 0 => j.pending[a].before = Search!Min2(options.context, j.pending[a].line - 1)
    BY <1>1 DEF InFile, Around, N
  <2> QED
    BY <1>5, <2>1
<1>11. k.line \in 0..Len(Tree[k.file]) /\ line \in 0..k.line
  BY <1>2, <1>3, <1>7 DEF n
<1>12. \A i \in 1..Len(k.pending) :
         /\ k.pending[i].file = k.file /\ k.pending[i].line \in 1..line
         /\ k.pending[i].after = Search!Min2(options.context, k.line - k.pending[i].line)
  BY <1>5, <1>6, <1>7
<1>13. InFile(k, line)
  BY <1>1, <1>2, <1>7, <1>8, <1>9, <1>10, <1>11, <1>12 DEF InFile
<1>14. Whole(k) => Whole(j)
  BY <1>7 DEF Whole
<1>15. ASSUME Whole(k), NEW l \in 1..line, NEW w \in 1..Tree[k.file][l]
       PROVE  \/ Finds(k.results, k.file, l, w)
              \/ \E i \in 1..Len(k.pending) : k.pending[i].line = l /\ k.pending[i].nth = w
  <2>1. \/ Finds(j.results, j.file, l, w)
        \/ \E i \in 1..N : j.pending[i].line = l /\ j.pending[i].nth = w
    BY <1>2, <1>7, <1>14, <1>15 DEF Reading, N
  <2> QED
    BY <1>5, <1>6, <1>7, <2>1
<1>16. Whole(k) => \A f \in 1..(k.file - 1) : f \in unread \/ FindsAll(k.results, f)
  BY <1>7, <1>14 DEF Reading
<1>17. options.early => k.results = <<>>
  BY <1>7 DEF Reading
<1>18. Reading(k, line)
  BY <1>13, <1>15, <1>16, <1>17 DEF Reading
<1> QED
  BY <1>2, <1>4, <1>7, <1>18 DEF n

LEMMA MinsHere ==
  \A ctx, l \in Nat : /\ Search!Min2(ctx, 0) = 0 /\ Search!Min2(ctx, l) \in Nat
                      /\ Search!Min2(Search!Min2(ctx, l) + 1, ctx) = Search!Min2(ctx, l + 1)
BY DEF Search!Min2

\* The matches of a line wait behind those of the lines before it.
LEMMA MatchesAdded ==
  ASSUME OptionsTyped, NEW j, Reading(j, line), j.line = line + 1, j.file = file, line \in Nat, before \in Nat,
         options.context > 0 => before = Search!Min2(options.context, line)
  PROVE  \E k : /\ k = [j EXCEPT !.pending = @ \o Search!MatchesIn(line + 1)] /\ Reading(k, line + 1)
                /\ k.line = j.line /\ k.file = j.file /\ k.before = j.before /\ k.results = j.results
<1>1. /\ j \in JobRecord /\ InFile(j, line) /\ j.pending \in Seq(Match) /\ Len(j.pending) \in Nat
      /\ j.file \in 1..Len(Tree) /\ j.results \in Seq(Match) /\ j.line \in 0..Len(Tree[j.file])
      /\ Len(j.results) \in Nat /\ options.context \in Nat /\ line \in Nat /\ j.file \in Nat
  BY JobFields DEF Reading, InFile, OptionsTyped, Results
<1> DEFINE n == line + 1
           found == Tree[file][n]
           count == IF options.early THEN Search!Min2(1, found) ELSE found
           new == Search!MatchesIn(n)
           all == j.pending \o new
           N == Len(j.pending)
           k == [j EXCEPT !.pending = all]
<1>2. n \in Nat /\ found \in Nat /\ n >= 1 /\ n - 1 = line /\ file \in Nat
  <2>1. file \in 1..Len(Tree) /\ file \in Nat /\ j.line = n
    BY <1>1
  <2>2. n \in 1..Len(Tree[file])
    BY <1>1, <2>1, TreeTyped
  <2>3. Tree[file][n] \in Nat
    BY <2>1, <2>2, TreeTyped, Zenon
  <2> QED
    BY <1>1, <2>1, <2>3
<1>3. count \in Nat /\ (~options.early => count = found)
  <2>1. Search!Min2(1, found) \in Nat
    <3> HIDE DEF found
    <3> QED
      BY <1>2, OneOrNone
  <2> HIDE DEF found
  <2> QED
    BY <1>2, <2>1
<1>4. new = [i \in 1..count |-> [file |-> file, line |-> n, nth |-> i, before |-> before, after |-> 0]]
  BY Zenon DEF Search!MatchesIn
<1> HIDE DEF new, found, count
<1>5. /\ new \in Seq(Match) /\ Len(new) = count
      /\ \A i \in 1..count : /\ new[i].file = file /\ new[i].line = n /\ new[i].nth = i
                             /\ new[i].before = before /\ new[i].after = 0
  <2> HIDE DEF n
  <2>1. ASSUME NEW i \in 1..count
        PROVE  [file |-> file, line |-> n, nth |-> i, before |-> before, after |-> 0] \in Match
    <3>1. i \in Nat /\ 0 \in Nat
      BY <1>3
    <3> QED
      BY <1>2, <3>1 DEF Match
  <2>2. new \in [1..count -> Match]
    BY <1>4, <2>1
  <2>3. new \in Seq(Match)
    BY <1>3, <2>2, SeqDef
  <2>4. DOMAIN new = 1..count
    BY <1>4
  <2> QED
    BY <1>3, <1>4, <2>3, <2>4, LenProperties
<1>6. /\ all \in Seq(Match) /\ Len(all) = N + count
      /\ \A i \in 1..N : all[i] = j.pending[i]
      /\ \A i \in 1..count : all[N + i] = new[i]
  <2> DEFINE p == j.pending
  <2>0. Len(new) = count
    BY <1>5
  <2>1. p \in Seq(Match) /\ new \in Seq(Match)
    BY <1>1, <1>5
  <2> HIDE DEF p
  <2>2. /\ p \o new \in Seq(Match) /\ Len(p \o new) = Len(p) + Len(new)
        /\ \A i \in 1..Len(p) : (p \o new)[i] = p[i]
        /\ \A i \in 1..Len(new) : (p \o new)[Len(p) + i] = new[i]
    BY <2>1, JoinIs
  <2>3. all = p \o new /\ N = Len(p)
    BY DEF p
  <2> HIDE DEF all, N
  <2>4. /\ all \in Seq(Match) /\ Len(all) = N + count
        /\ \A i \in 1..N : all[i] = p[i]
        /\ \A i \in 1..count : all[N + i] = new[i]
    BY <2>0, <2>1, <2>2, <2>3, Zenon
  <2> QED
    BY <2>4 DEF p
<1> HIDE DEF n, all, N
<1>7. N \in Nat
  BY <1>1 DEF N
<1>8. \A i \in 1..Len(all) : \/ i \in 1..N /\ all[i] = j.pending[i]
                             \/ /\ i - N \in 1..count /\ all[i] = new[i - N] /\ i > N
  <2> SUFFICES ASSUME NEW i \in 1..Len(all), i \notin 1..N PROVE i - N \in 1..count /\ all[i] = new[i - N] /\ i > N
    BY <1>6
  <2>1. i - N \in 1..count /\ N + (i - N) = i /\ i > N
    BY <1>3, <1>6, <1>7
  <2> QED
    BY <1>6, <2>1
<1>9. \A i \in 1..N : /\ j.pending[i].file = j.file /\ j.pending[i].line \in 1..line
                      /\ j.pending[i].after = Search!Min2(options.context, j.line - j.pending[i].line)
  BY <1>1 DEF InFile, N
<1>10. InOrder(all)
  <2> SUFFICES ASSUME NEW a \in 1..Len(all), NEW b \in 1..Len(all), a < b PROVE Search!Comes(all[a], all[b])
    BY DEF InOrder
  <2>1. CASE b \in 1..N
    <3>1. a \in 1..N
      BY <1>7, <2>1
    <3> QED
      BY <1>1, <1>6, <2>1, <3>1 DEF InFile, InOrder, N
  <2>2. CASE b \notin 1..N
    <3> DEFINE e == b - N
    <3>1. e \in 1..count /\ all[b] = new[e]
      BY <1>8, <2>2
    <3>2. all[b].file = file /\ all[b].line = n /\ all[b].nth = e
      BY <1>5, <3>1
    <3>3. CASE a \in 1..N
      <4>1. all[a].file = j.file /\ all[a].line \in 1..line
        BY <1>6, <1>9, <3>3
      <4>2. all[a].line < n
        BY <1>1, <4>1 DEF n
      <4> QED
        BY <3>2, <4>1, <4>2 DEF Search!Comes
    <3>4. CASE a \notin 1..N
      <4> DEFINE d == a - N
      <4>1. d \in 1..count /\ all[a] = new[d]
        BY <1>8, <3>4
      <4>2. d < e
        BY <1>3, <1>7, <3>1, <4>1
      <4>3. all[a].file = file /\ all[a].line = n /\ all[a].nth = d
        BY <1>5, <4>1
      <4> HIDE DEF d, e
      <4> QED
        BY <3>2, <4>2, <4>3 DEF Search!Comes
    <3> QED
      BY <3>3, <3>4
  <2> QED
    BY <2>1, <2>2
<1>11. Ahead(j.results, all)
  <2> SUFFICES ASSUME NEW a \in 1..Len(j.results), NEW b \in 1..Len(all) PROVE Search!Comes(j.results[a], all[b])
    BY DEF Ahead
  <2>1. CASE b \in 1..N
    BY <1>1, <1>6, <2>1, Zenon DEF InFile, Ahead, N
  <2>2. CASE b \notin 1..N
    <3>1. b - N \in 1..count /\ all[b] = new[b - N]
      BY <1>8, <2>2
    <3>2. all[b].file = file /\ all[b].line = n
      BY <1>5, <3>1
    <3>3. j.results[a].file < j.file \/ (j.results[a].file = j.file /\ j.results[a].line <= line)
      BY <1>1 DEF InFile
    <3>4. j.results[a].line \in Nat
      <4>1. j.results[a] \in Match
        BY <1>1, ElementOfSeq, Zenon
      <4> QED
        BY <4>1 DEF Match
    <3>5. j.results[a].line <= line => j.results[a].line < n
      BY <1>1, <3>4 DEF n
    <3> QED
      BY <3>2, <3>3, <3>5, Zenon DEF Search!Comes
  <2> QED
    BY <2>1, <2>2
<1>12. ASSUME NEW i \in 1..Len(all)
       PROVE  /\ all[i].after <= options.context
              /\ options.context > 0 => all[i].before = Search!Min2(options.context, all[i].line - 1)
              /\ all[i].file = j.file /\ all[i].line \in 1..n
              /\ all[i].after = Search!Min2(options.context, j.line - all[i].line)
  <2>1. CASE i \in 1..N
    <3>1. all[i] = j.pending[i]
      BY <1>6, <2>1
    <3>2. all[i].line \in 1..n
      BY <1>1, <1>9, <2>1, <3>1 DEF n
    <3> QED
      BY <1>1, <1>9, <2>1, <3>1, <3>2 DEF InFile, Around, N
  <2>2. CASE i \notin 1..N
    <3>1. i - N \in 1..count /\ all[i] = new[i - N]
      BY <1>8, <2>2
    <3>2. all[i].file = file /\ all[i].line = n /\ all[i].before = before /\ all[i].after = 0
      BY <1>5, <3>1
    <3>3. j.line - all[i].line = 0
      BY <1>2, <3>2 DEF n
    <3>4. Search!Min2(options.context, 0) = 0
      BY <1>1, MinsHere, Zenon
    <3>5. n \in 1..n
      BY <1>2
    <3> QED
      BY <1>1, <1>2, <3>2, <3>3, <3>4, <3>5
  <2> QED
    BY <2>1, <2>2
<1>13. /\ k \in JobRecord /\ k.line = j.line /\ k.pending = all /\ k.results = j.results /\ k.task = j.task
       /\ k.status = j.status /\ k.truncated = j.truncated /\ k.file = j.file /\ k.before = j.before
  BY <1>1, <1>6, Zenon DEF JobRecord
<1>14. k = [j EXCEPT !.pending = @ \o Search!MatchesIn(line + 1)]
  BY DEF k, all, new, n
<1> HIDE DEF k
<1>15. InFile(k, n)
  <2>1. n \in 0..k.line
    BY <1>2, <1>13 DEF n
  <2>2. Around(k.pending)
    BY <1>12, <1>13 DEF Around
  <2>3. \A i \in 1..Len(k.pending) :
           /\ k.pending[i].file = k.file /\ k.pending[i].line \in 1..n
           /\ k.pending[i].after = Search!Min2(options.context, k.line - k.pending[i].line)
    BY <1>12, <1>13
  <2>4. ASSUME NEW i \in 1..Len(k.results)
        PROVE  k.results[i].file < k.file \/ (k.results[i].file = k.file /\ k.results[i].line <= n)
    <3>1. j.results[i].file < j.file \/ (j.results[i].file = j.file /\ j.results[i].line <= line)
      BY <1>1, <1>13 DEF InFile
    <3>2. j.results[i] \in Match
      BY <1>1, <1>13, ElementOfSeq
    <3>3. j.results[i].line \in Nat
      BY <3>2 DEF Match
    <3>4. j.results[i].line <= line => j.results[i].line <= n
      BY <1>1, <3>3 DEF n
    <3> QED
      BY <1>13, <3>1, <3>4
  <2>5. /\ options.content /\ k.task = "reading" /\ k.status # "completed" /\ Len(k.results) <= options.max
        /\ k.file \in 1..Len(Tree) /\ k.line \in 0..Len(Tree[k.file])
        /\ InOrder(k.results) /\ Around(k.results)
    BY <1>1, <1>13 DEF InFile
  <2> QED
    BY <1>10, <1>11, <1>13, <2>1, <2>2, <2>3, <2>4, <2>5 DEF InFile
<1>16. Whole(k) => Whole(j) /\ ~options.early
  BY <1>13 DEF Whole
<1>17. ASSUME Whole(k), NEW l \in 1..n, NEW w \in 1..Tree[k.file][l]
       PROVE  \/ Finds(k.results, k.file, l, w)
              \/ \E i \in 1..Len(k.pending) : k.pending[i].line = l /\ k.pending[i].nth = w
  <2>1. CASE l \in 1..line
    <3>1. \/ Finds(j.results, j.file, l, w)
          \/ \E i \in 1..N : j.pending[i].line = l /\ j.pending[i].nth = w
      BY <1>13, <1>16, <1>17, <2>1 DEF Reading, N
    <3>2. \A i \in 1..N : i \in 1..Len(all)
      BY <1>3, <1>6, <1>7
    <3> QED
      BY <1>6, <1>13, <3>1, <3>2
  <2>2. CASE l \notin 1..line
    <3>1. l = n
      BY <1>1, <2>2 DEF n
    <3>2. w \in 1..count
      BY <1>3, <1>13, <1>16, <1>17, <3>1 DEF found
    <3>3. N + w \in 1..Len(all) /\ all[N + w] = new[w]
      BY <1>3, <1>6, <1>7, <3>2
    <3>4. all[N + w].line = l /\ all[N + w].nth = w
      BY <1>5, <3>1, <3>2, <3>3
    <3> QED
      BY <1>13, <3>3, <3>4
  <2> QED
    BY <2>1, <2>2
<1>18. Whole(k) => \A f \in 1..(k.file - 1) : f \in unread \/ FindsAll(k.results, f)
  BY <1>13, <1>16 DEF Reading
<1>19. options.early => k.results = <<>>
  BY <1>13 DEF Reading
<1>20. Reading(k, n)
  BY <1>15, <1>17, <1>18, <1>19 DEF Reading
<1> QED
  BY <1>13, <1>14, <1>20, Zenon DEF n

LEMMA ExtendedTwice ==
  ASSUME NEW a, NEW b, NEW d, Extended(a, b), Extended(b, d), Len(a) \in Nat, Len(b) \in Nat, Len(d) \in Nat
  PROVE  Extended(a, d)
<1>1. Len(a) <= Len(d)
  BY DEF Extended
<1>2. \A i \in 1..Len(a) : i \in 1..Len(b)
  BY DEF Extended
<1>3. \A i \in 1..Len(a) : d[i] = a[i]
  BY <1>2 DEF Extended
<1> QED
  BY <1>1, <1>3 DEF Extended

\* The lines kept in front: one more, up to those asked for.
LEMMA OneMoreKept ==
  ASSUME OptionsTyped, line \in Nat, NEW b \in Nat, options.context > 0 => b = Search!Min2(options.context, line)
  PROVE  /\ Search!KeptBefore(b + 1) \in Nat
         /\ options.context > 0 => Search!KeptBefore(b + 1) = Search!Min2(options.context, line + 1)
<1> DEFINE C == options.context
<1>1. C \in Nat
  BY DEF OptionsTyped
<1>2. CASE C = 0
  BY <1>2 DEF Search!KeptBefore
<1>3. CASE C # 0
  <2>1. Search!KeptBefore(b + 1) = Search!Min2(b + 1, C)
    BY <1>3 DEF Search!KeptBefore
  <2>2. b = Search!Min2(C, line)
    BY <1>1, <1>3
  <2> HIDE DEF C
  <2>3. Search!Min2(Search!Min2(C, line) + 1, C) = Search!Min2(C, line + 1) /\ Search!Min2(C, line + 1) \in Nat
    <3>1. C \in Nat /\ line \in Nat
      BY <1>1
    <3> QED
      BY ONLY <3>1, MinsHere
  <2> DEFINE x == Search!Min2(C, line + 1)
  <2>4. Search!Min2(b + 1, C) = x /\ x \in Nat
    BY <2>2, <2>3
  <2> HIDE DEF x
  <2>5. Search!KeptBefore(b + 1) = x
    BY <2>1, <2>4
  <2> QED
    BY <2>4, <2>5 DEF C, x
<1> QED
  BY <1>2, <1>3

\* A line is read: it is behind what is pending, what is due is emitted, its
\* own matches are pending, what is due is emitted, and it is kept.
LEMMA ReadLineIs ==
  ASSUME OptionsTyped, Reading(Search!Job, line), line < Len(Tree[file]),
         options.context > 0 => before = Search!Min2(options.context, line),
         Search!ReadLine(line + 1)
  PROVE  \E q \in JobRecord : Search!Becomes(q) /\ JobIsRight(q) /\ Extended(results, q.results)
<1> DEFINE n == line + 1
           j == Search!Job
<1>1. /\ j.line = line /\ j.file = file /\ j.before = before /\ j.results = results
  BY DEF Search!Job
<1>2. /\ line \in Nat /\ before \in Nat /\ Len(results) \in Nat /\ j \in JobRecord
  <2>1. j \in JobRecord
    BY DEF Reading, InFile
  <2> HIDE DEF j
  <2> QED
    BY <1>1, <2>1, JobFields
<1>3. \E k : /\ k = Search!LineBehind(line + 1) /\ Reading(k, line)
             /\ k.line = line + 1 /\ k.file = file /\ k.before = before /\ k.results = j.results
  <2>1. j = Search!Job /\ Reading(j, j.line) /\ j.line < Len(Tree[j.file])
    BY <1>1
  <2> HIDE DEF j
  <2> QED
    BY <2>1, LineBehindIs
<1> HIDE DEF j
<1>4. PICK k : /\ k = Search!LineBehind(n) /\ Reading(k, line)
               /\ k.line = n /\ k.file = file /\ k.before = before /\ k.results = results
  BY <1>1, <1>3
<1>5. PICK first : /\ first = Search!EmitReady(k) /\ Extended(k.results, first.results)
                   /\ \/ /\ Reading(first, line)
                         /\ first.line = k.line /\ first.file = k.file /\ first.before = k.before
                         /\ first.status = k.status
                      \/ AtRest(first, unread)
  BY <1>4, EmitReadyIs, Zenon
<1>6. first \in JobRecord /\ Extended(results, first.results) /\ Len(first.results) \in Nat
  <2>1. first \in JobRecord
    BY <1>5 DEF Reading, InFile, AtRest
  <2> QED
    BY <1>4, <1>5, <2>1, JobFields
<1>7. IF first.task # "reading" THEN Search!Becomes(first)
      ELSE \E second \in {Search!EmitReady([first EXCEPT !.pending = @ \o Search!MatchesIn(n)])} :
             IF second.task # "reading" THEN Search!Becomes(second)
             ELSE IF options.early /\ second.results # <<>> THEN Search!Becomes(Search!Close(second))
             ELSE Search!Becomes([second EXCEPT !.before = Search!KeptBefore(@ + 1)])
  BY <1>4, <1>5 DEF Search!ReadLine
<1>8. CASE AtRest(first, unread)
  <2>1. first.task # "reading"
    BY <1>8 DEF AtRest
  <2> QED
    BY <1>6, <1>7, <1>8, <2>1 DEF JobIsRight
<1>9. CASE /\ Reading(first, line)
           /\ first.line = k.line /\ first.file = k.file /\ first.before = k.before /\ first.status = k.status
  <2>1. first.line = line + 1 /\ first.file = file /\ first.before = before /\ first.task = "reading"
    BY <1>4, <1>9 DEF Reading, InFile
  <2>2. PICK p : /\ p = [first EXCEPT !.pending = @ \o Search!MatchesIn(line + 1)] /\ Reading(p, line + 1)
                 /\ p.line = first.line /\ p.file = first.file /\ p.before = first.before /\ p.results = first.results
    <3>1. /\ OptionsTyped /\ Reading(first, line) /\ first.line = line + 1 /\ first.file = file
          /\ line \in Nat /\ before \in Nat
          /\ options.context > 0 => before = Search!Min2(options.context, line)
      BY <1>2, <1>9, <2>1
    <3>2. \E p : /\ p = [first EXCEPT !.pending = @ \o Search!MatchesIn(line + 1)] /\ Reading(p, line + 1)
                 /\ p.line = first.line /\ p.file = first.file /\ p.before = first.before /\ p.results = first.results
      BY <3>1, MatchesAdded, Zenon
    <3> QED
      BY <3>2, Zenon
  <2>3. PICK second : /\ second = Search!EmitReady(p) /\ Extended(p.results, second.results)
                      /\ \/ /\ Reading(second, n)
                            /\ second.line = p.line /\ second.file = p.file /\ second.before = p.before
                            /\ second.status = p.status
                         \/ AtRest(second, unread)
    <3>1. OptionsTyped /\ Reading(p, n)
      BY <2>2
    <3> HIDE DEF n
    <3>2. \E q : /\ q = Search!EmitReady(p) /\ Extended(p.results, q.results)
                 /\ \/ /\ Reading(q, n)
                       /\ q.line = p.line /\ q.file = p.file /\ q.before = p.before /\ q.status = p.status
                    \/ AtRest(q, unread)
      BY ONLY <3>1, EmitReadyIs
    <3> QED
      BY <3>2
  <2>4. second \in JobRecord /\ Extended(first.results, second.results) /\ Len(second.results) \in Nat
    <3>1. second \in JobRecord
      BY <2>3 DEF Reading, InFile, AtRest
    <3> QED
      BY <2>2, <2>3, <3>1, JobFields
  <2>5. Extended(results, second.results)
    BY <1>2, <1>6, <2>4, ExtendedTwice
  <2>6. IF second.task # "reading" THEN Search!Becomes(second)
        ELSE IF options.early /\ second.results # <<>> THEN Search!Becomes(Search!Close(second))
        ELSE Search!Becomes([second EXCEPT !.before = Search!KeptBefore(@ + 1)])
    BY <1>7, <2>1, <2>2, <2>3
  <2>7. CASE AtRest(second, unread)
    <3>1. second.task # "reading"
      BY <2>7 DEF AtRest
    <3> QED
      BY <2>4, <2>5, <2>6, <2>7, <3>1 DEF JobIsRight
  <2>8. CASE /\ Reading(second, n)
             /\ second.line = p.line /\ second.file = p.file /\ second.before = p.before
             /\ second.status = p.status
    <3> DEFINE q == [second EXCEPT !.before = Search!KeptBefore(@ + 1)]
               b == Search!KeptBefore(before + 1)
    <3>1. second.task = "reading" /\ (options.early => second.results = <<>>)
      BY <2>8 DEF Reading, InFile
    <3>2. Search!Becomes(q)
      BY <2>6, <3>1
    <3>3. b \in Nat /\ (options.context > 0 => b = Search!Min2(options.context, n))
      BY <1>2, OneMoreKept, Zenon
    <3>4. second.before = before /\ second.line = n
      BY <1>4, <2>1, <2>2, <2>8
    <3> HIDE DEF b, n
    <3>5. /\ q \in JobRecord /\ q.before = b /\ q.results = second.results /\ q.truncated = second.truncated
          /\ q.status = second.status /\ q.task = second.task /\ q.file = second.file
          /\ q.line = second.line /\ q.pending = second.pending
      BY <2>4, <3>3, <3>4, Zenon DEF JobRecord, b
    <3> HIDE DEF q
    <3>6. Whole(q) => Whole(second)
      BY <3>5 DEF Whole
    <3>7. InFile(q, n)
      BY <2>8, <3>5 DEF Reading, InFile
    <3>8. Reading(q, n)
      BY <2>8, <3>5, <3>6, <3>7 DEF Reading
    <3>9. JobIsRight(q)
      BY <3>3, <3>4, <3>5, <3>8 DEF JobIsRight
    <3> QED
      BY <2>5, <3>2, <3>5, <3>9
  <2> QED
    BY <2>3, <2>7, <2>8
<1> QED
  BY <1>5, <1>8, <1>9

LEMMA JobParts ==
  LET j == Search!Job IN
  /\ j.status = status /\ j.results = results /\ j.truncated = cut /\ j.task = task /\ j.file = file
  /\ j.line = line /\ j.pending = pending /\ j.before = before
BY DEF Search!Job

LEMMA ReadingJob ==
  ASSUME OptionsTyped, JobIsRight(Search!Job), task = "reading"
  PROVE  /\ Reading(Search!Job, line) /\ (options.context > 0 => before = Search!Min2(options.context, line))
         /\ line \in Nat /\ Len(results) \in Nat /\ (options.early => Len(results) <= 1)
<1>1. Reading(Search!Job, line) /\ (options.context > 0 => before = Search!Min2(options.context, line))
  BY JobParts DEF JobIsRight, AtRest
<1>2. Search!Job \in JobRecord /\ (options.early => results = <<>>)
  BY <1>1, JobParts DEF Reading, InFile
<1>3. line \in Nat /\ Len(results) \in Nat
  BY <1>2, JobFields, JobParts
<1>4. Len(<<>>) = 0
  BY EmptySeq
<1> QED
  BY <1>1, <1>2, <1>3, <1>4

LEMMA LineIs ==
  ASSUME OptionsTyped, JobIsRight(Search!Job), Search!Line
  PROVE  \E q \in JobRecord : Search!Becomes(q) /\ JobIsRight(q) /\ Extended(results, q.results)
<1>1. task = "reading" /\ line < Len(Tree[file])
  BY DEF Search!Line
<1>2. /\ Reading(Search!Job, line) /\ (options.context > 0 => before = Search!Min2(options.context, line))
      /\ line \in Nat /\ Len(results) \in Nat /\ (options.early => Len(results) <= 1)
  BY <1>1, ReadingJob
<1>3. CASE status # "running"
  <2>1. Search!Becomes(Search!Close(Search!Job))
    BY <1>3 DEF Search!Line
  <2> DEFINE j == Search!Job
  <2>2. InFile(j, line) /\ (options.early => Len(j.results) <= 1) /\ j.status # "running" /\ j.results = results
    BY <1>2, <1>3, JobParts DEF Reading
  <2> HIDE DEF j
  <2>3. PICK q : q = Search!Close(j) /\ AtRest(q, unread) /\ Extended(j.results, q.results)
    BY <2>2, ClosedEarly
  <2> QED
    BY <2>1, <2>2, <2>3 DEF j, AtRest, JobIsRight
<1>4. CASE status = "running" /\ overtime
  <2> DEFINE i == Search!Job
             j == [i EXCEPT !.truncated = TRUE]
  <2>1. Search!Becomes(Search!Close(j))
    BY <1>4 DEF Search!Line
  <2>2. i \in JobRecord /\ InFile(i, line) /\ i.results = results
    BY <1>2, JobParts DEF Reading, InFile
  <2> HIDE DEF i
  <2>3. /\ j \in JobRecord /\ j.truncated /\ j.results = i.results /\ j.status = i.status /\ j.task = i.task
        /\ j.file = i.file /\ j.line = i.line /\ j.pending = i.pending
    BY <2>2, Zenon DEF JobRecord
  <2> HIDE DEF j
  <2>4. InFile(j, line)
    BY <2>2, <2>3 DEF InFile
  <2>5. options.early => Len(j.results) <= 1
    BY <1>2, <2>2, <2>3
  <2>6. PICK q : q = Search!Close(j) /\ AtRest(q, unread) /\ Extended(j.results, q.results)
    BY <2>3, <2>4, <2>5, ClosedEarly
  <2> QED
    BY <2>1, <2>2, <2>3, <2>6 DEF AtRest, JobIsRight
<1>5. CASE status = "running" /\ ~overtime
  <2>1. Search!ReadLine(line + 1)
    BY <1>5 DEF Search!Line
  <2> QED
    BY <1>1, <1>2, <2>1, ReadLineIs
<1> QED
  BY <1>3, <1>4, <1>5

LEMMA EndOfFileIs ==
  ASSUME OptionsTyped, JobIsRight(Search!Job), Search!EndOfFile
  PROVE  \E q \in JobRecord : Search!Becomes(q) /\ JobIsRight(q) /\ Extended(results, q.results)
<1> DEFINE j == Search!Job
<1>1. task = "reading" /\ line = Len(Tree[file]) /\ Search!Becomes(Search!Close(j))
  BY DEF Search!EndOfFile
<1>2. Reading(j, j.line) /\ j.line = Len(Tree[j.file]) /\ j.results = results
  BY <1>1, ReadingJob, JobParts
<1> HIDE DEF j
<1>3. PICK q : q = Search!Close(j) /\ AtRest(q, unread) /\ Extended(j.results, q.results)
  BY <1>2, ClosedAtTheEnd
<1> QED
  BY <1>1, <1>2, <1>3 DEF AtRest, JobIsRight

LEMMA ReadErrorIs ==
  ASSUME OptionsTyped, JobIsRight(Search!Job), Search!ReadError
  PROVE  \E q \in JobRecord : Search!Becomes(q) /\ AtRest(q, unread') /\ Extended(results, q.results)
<1> DEFINE j == Search!Job
           u == unread \cup {file}
<1>1. task = "reading" /\ Search!Becomes(Search!Onward(j)) /\ unread' = u
  BY DEF Search!ReadError
<1>2. Reading(j, j.line) /\ j.results = results /\ j.file = file /\ Len(results) \in Nat
  BY <1>1, ReadingJob, JobParts
<1> HIDE DEF j
<1>3. /\ j \in JobRecord /\ InFile(j, j.line) /\ j.status # "completed" /\ Len(j.results) <= options.max
      /\ j.file \in 1..Len(Tree) /\ j.results \in Seq(Match) /\ j.file \in Nat
  BY <1>2, JobFields DEF Reading, InFile, Results
<1>4. options.content => /\ InOrder(j.results) /\ Around(j.results)
                         /\ \A i \in 1..Len(j.results) : j.results[i].file <= j.file
  <2> SUFFICES ASSUME NEW i \in 1..Len(j.results) PROVE j.results[i].file <= j.file
    BY <1>3 DEF InFile
  <2>1. j.results[i] \in Match
    BY <1>3, ElementOfSeq
  <2>2. j.results[i].file \in Nat /\ (j.results[i].file < j.file \/ j.results[i].file = j.file)
    BY <1>3, <2>1, Zenon DEF InFile, Match
  <2> QED
    BY <1>3, <2>2
<1>5. options.early => Len(j.results) <= 2
  <2>1. Len(<<>>) = 0
    BY EmptySeq
  <2> QED
    BY <1>2, <2>1 DEF Reading
<1>6. Whole(j) /\ j.status = "running" => \A f \in 1..j.file : f \in u \/ FindsAll(j.results, f)
  <2> SUFFICES ASSUME Whole(j), NEW f \in 1..j.file PROVE f \in u \/ FindsAll(j.results, f)
    OBVIOUS
  <2>1. CASE f = j.file
    BY <1>2, <2>1
  <2>2. CASE f # j.file
    <3>1. f \in 1..(j.file - 1)
      BY <1>3, <2>2
    <3> QED
      BY <1>2, <3>1 DEF Reading
  <2> QED
    BY <2>1, <2>2
<1> HIDE DEF u
<1>7. PICK q : q = Search!Onward(j) /\ AtRest(q, u) /\ q.results = j.results
  BY <1>3, <1>4, <1>5, <1>6, OnwardFrom
<1>8. q \in JobRecord /\ Extended(results, q.results)
  BY <1>2, <1>7 DEF AtRest, Extended
<1> QED
  BY <1>1, <1>7, <1>8

LEMMA EndedIs ==
  ASSUME NEW j \in JobRecord
  PROVE  LET q == Search!Ended(j) IN
         /\ q \in JobRecord /\ q.task = "ended" /\ q.results = j.results /\ q.truncated = j.truncated
         /\ q.file = j.file /\ q.status = IF j.status = "running" THEN "completed" ELSE j.status
<1> DEFINE s == IF j.status = "running" THEN "completed" ELSE j.status
           q == [j EXCEPT !.task = "ended", !.status = s]
<1>1. s \in Statuses
  BY DEF JobRecord, Statuses
<1>2. q = Search!Ended(j)
  BY DEF Search!Ended
<1> HIDE DEF s
<1>3. /\ q \in JobRecord /\ q.task = "ended" /\ q.results = j.results /\ q.truncated = j.truncated
      /\ q.file = j.file /\ q.status = s
  BY <1>1, Zenon DEF JobRecord
<1> QED
  BY <1>2, <1>3, Zenon DEF s

LEMMA WalkIs ==
  ASSUME OptionsTyped, JobIsRight(Search!Job), Search!Walk
  PROVE  \E q \in JobRecord : Search!Becomes(q) /\ JobIsRight(q) /\ Extended(results, q.results)
<1> DEFINE j == Search!Job
<1>1. /\ task = "walking"
      /\ Search!Becomes(
           IF file > Len(Tree) \/ status # "running" THEN Search!Ended(j)
           ELSE IF overtime THEN Search!Ended([j EXCEPT !.truncated = TRUE])
           ELSE IF options.content
                THEN [j EXCEPT !.task = "reading", !.line = 0, !.before = 0, !.pending = <<>>]
                ELSE Search!Onward(IF file \in Named THEN Search!AddAll(j, <<[file |-> file]>>) ELSE j))
  BY DEF Search!Walk
<1>2. /\ j.results = results /\ j.file = file /\ j.task = task /\ j.status = status /\ j.line = line
      /\ j.before = before
  BY JobParts
<1>3. AtRest(j, unread)
  <2>1. ~Reading(j, j.line)
    BY <1>1, <1>2 DEF Reading, InFile
  <2> HIDE DEF j
  <2>2. JobIsRight(j)
    BY DEF j
  <2> QED
    BY <2>1, <2>2 DEF JobIsRight
<1> HIDE DEF j
<1>4. /\ j \in JobRecord /\ Len(j.results) <= options.max /\ j.file \in 1..(Len(Tree) + 1) /\ j.status # "completed"
      /\ options.content => InOrder(j.results) /\ Around(j.results)
                            /\ \A i \in 1..Len(j.results) : j.results[i].file < j.file
      /\ options.early => j.results = <<>>
      /\ Whole(j) => \A f \in 1..(j.file - 1) : f \in unread \/ FindsAll(j.results, f)
  BY <1>1, <1>2, <1>3 DEF AtRest
<1>5. /\ Len(Tree) \in Nat /\ j.file \in Nat /\ Len(j.results) \in Nat /\ j.results \in Seq(Results)
      /\ j.status \in {"running", "stopped"}
  BY <1>4, JobFields, TreeTyped
<1>6. Len(<<>>) = 0 /\ <<>> \in Seq(Match)
  BY EmptySeq
<1>7. CASE file > Len(Tree) \/ status # "running"
  <2> DEFINE q == Search!Ended(j)
  <2>1. Search!Becomes(q)
    BY <1>1, <1>7
  <2>2. /\ q \in JobRecord /\ q.task = "ended" /\ q.results = j.results /\ q.truncated = j.truncated
        /\ q.file = j.file /\ q.status = IF j.status = "running" THEN "completed" ELSE j.status
    BY <1>4, EndedIs, Zenon DEF Search!Ended
  <2> HIDE DEF q
  <2>3. q.status = "completed" => \A f \in 1..Len(Tree) : f \in 1..(j.file - 1)
    BY <1>2, <1>4, <1>5, <1>7, <2>2
  <2>4. Whole(q) => Whole(j)
    BY <2>2 DEF Whole
  <2>5. q.status = "completed" /\ Whole(q) => \A f \in 1..Len(Tree) : f \in unread \/ FindsAll(q.results, f)
    BY <1>4, <2>2, <2>3, <2>4
  <2>6. options.early => Len(q.results) <= 2
    BY <1>4, <1>6, <2>2
  <2>7. AtRest(q, unread)
    BY <1>4, <2>2, <2>5, <2>6 DEF AtRest
  <2> QED
    BY <1>2, <2>1, <2>2, <2>7 DEF JobIsRight, Extended
<1>8. CASE ~(file > Len(Tree) \/ status # "running") /\ overtime
  <2> DEFINE i == [j EXCEPT !.truncated = TRUE]
             q == Search!Ended(i)
  <2>1. Search!Becomes(q)
    BY <1>1, <1>8
  <2>2. /\ q \in JobRecord /\ q.task = "ended" /\ q.results = j.results /\ q.truncated /\ q.file = j.file
    <3>1. i \in JobRecord /\ i.truncated /\ i.results = j.results /\ i.file = j.file
      BY <1>4, Zenon DEF JobRecord
    <3> HIDE DEF i
    <3> QED
      BY <3>1, EndedIs
  <2> HIDE DEF q
  <2>3. ~Whole(q)
    BY <2>2 DEF Whole
  <2>4. options.early => Len(q.results) <= 2
    BY <1>4, <1>6, <2>2
  <2>5. AtRest(q, unread)
    BY <1>4, <2>2, <2>3, <2>4 DEF AtRest
  <2> QED
    BY <1>2, <2>1, <2>2, <2>5 DEF JobIsRight, Extended
<1>9. CASE ~(file > Len(Tree) \/ status # "running") /\ ~overtime /\ options.content
  <2> DEFINE q == [j EXCEPT !.task = "reading", !.line = 0, !.before = 0, !.pending = <<>>]
  <2>1. Search!Becomes(q)
    BY <1>1, <1>9
  <2>2. /\ q \in JobRecord /\ q.task = "reading" /\ q.results = j.results /\ q.truncated = j.truncated
        /\ q.file = j.file /\ q.status = j.status /\ q.line = 0 /\ q.before = 0 /\ q.pending = <<>>
    BY <1>4, <1>6, Zenon DEF JobRecord
  <2> HIDE DEF q
  <2>3. /\ q.file \in 1..Len(Tree) /\ Len(q.pending) = 0
    BY <1>2, <1>4, <1>5, <1>6, <1>9, <2>2
  <2>4. q.line \in 0..Len(Tree[q.file]) /\ 0 \in 0..q.line
    BY <2>2, <2>3, TreeTyped
  <2>5. InOrder(q.pending) /\ Around(q.pending) /\ Ahead(q.results, q.pending)
    BY <2>3 DEF InOrder, Around, Ahead
  <2>6. \A i \in 1..Len(q.pending) : FALSE
    BY <2>3
  <2>7. InFile(q, 0)
    BY <1>4, <1>9, <2>2, <2>3, <2>4, <2>5, <2>6 DEF InFile
  <2>8. Whole(q) => Whole(j)
    BY <2>2 DEF Whole
  <2>9. Reading(q, 0)
    BY <1>4, <2>2, <2>7, <2>8 DEF Reading
  <2>10. options.context > 0 => q.before = Search!Min2(options.context, q.line)
    <3>1. options.context \in Nat
      BY DEF OptionsTyped
    <3>2. Search!Min2(options.context, 0) = 0
      BY <3>1, MinsHere, Zenon
    <3> QED
      BY <2>2, <3>2
  <2>11. JobIsRight(q)
    BY <2>2, <2>9, <2>10 DEF JobIsRight
  <2> QED
    BY <1>2, <2>1, <2>2, <2>11 DEF Extended
<1>10. CASE ~(file > Len(Tree) \/ status # "running") /\ ~overtime /\ ~options.content
  <2> DEFINE k == IF file \in Named THEN Search!AddAll(j, <<[file |-> file]>>) ELSE j
  <2>1. Search!Becomes(Search!Onward(k))
    BY <1>1, <1>10
  <2>2. /\ k \in JobRecord /\ k.status = j.status /\ k.file = j.file /\ Len(k.results) <= options.max
        /\ Extended(j.results, k.results) /\ (options.early => Len(k.results) <= 2)
    <3>1. CASE file \notin Named
      BY <1>4, <1>6, <3>1 DEF Extended
    <3>2. CASE file \in Named
      <4> DEFINE new == <<[file |-> file]>>
      <4>1. [file |-> file] \in Results /\ Results = [file : Nat]
        BY <1>2, <1>5, <1>10, Zenon DEF Results
      <4>2. new \in Seq(Results) /\ Len(new) = 1
        BY <4>1
      <4> HIDE DEF new
      <4>3. PICK t \in 0..Len(new), x \in JobRecord :
              /\ x = Search!AddAll(j, new)
              /\ x.status = j.status /\ x.task = j.task /\ x.file = j.file /\ x.line = j.line
              /\ x.pending = j.pending /\ x.before = j.before
              /\ Adds(j.results, new, t, x.results) /\ Len(x.results) <= options.max
        <5>1. \E t \in 0..Len(new), x \in JobRecord :
                /\ x = Search!AddAll(j, new)
                /\ x.status = j.status /\ x.task = j.task /\ x.file = j.file /\ x.line = j.line
                /\ x.pending = j.pending /\ x.before = j.before
                /\ Adds(j.results, new, t, x.results) /\ Len(x.results) <= options.max
                /\ ~x.truncated => ~j.truncated /\ t = Len(new)
                /\ Len(new) > options.max - Len(j.results) => x.truncated
                /\ t = Search!Min2(options.max - Len(j.results), Len(new))
          <6>1. new \in Seq(Results) /\ j \in JobRecord /\ Len(j.results) <= options.max
            BY <1>4, <4>2
          <6> QED
            BY <6>1, AddAllIs
        <5> QED
          BY <5>1
      <4>4. x = k
        BY <3>2, <4>3 DEF new
      <4>5. Len(x.results) = Len(j.results) + t /\ t \in 0..1
        BY <4>2, <4>3 DEF Adds
      <4>6. options.early => Len(x.results) <= 2
        BY <1>4, <1>5, <1>6, <4>5
      <4>7. Extended(j.results, x.results)
        <5> DEFINE a == j.results
                   r == x.results
        <5>1. Len(a) \in Nat /\ Len(new) \in Nat /\ Adds(a, new, t, r)
          BY <1>5, <4>2, <4>3
        <5> HIDE DEF a, r
        <5> QED
          BY <5>1, AddsExtends DEF a, r
      <4> HIDE DEF k
      <4> QED
        BY <4>3, <4>4, <4>6, <4>7
    <3> QED
      BY <3>1, <3>2
  <2> HIDE DEF k
  <2>3. k.status # "completed" /\ k.file \in 1..Len(Tree) /\ ~Whole(k)
    BY <1>2, <1>4, <1>5, <1>10, <2>2 DEF Whole
  <2>4. PICK q : q = Search!Onward(k) /\ AtRest(q, unread) /\ q.results = k.results
    BY <1>10, <2>2, <2>3, OnwardFrom
  <2>5. q \in JobRecord /\ Extended(results, q.results)
    BY <1>2, <2>2, <2>4 DEF AtRest
  <2> QED
    BY <2>1, <2>4, <2>5 DEF JobIsRight
<1> QED
  BY <1>7, <1>8, <1>9, <1>10

LEMMA BecomesIs ==
  ASSUME NEW q \in JobRecord, Search!Becomes(q)
  PROVE  /\ (Search!Job)' = q
         /\ status' = q.status /\ results' = q.results /\ cut' = q.truncated /\ task' = q.task /\ file' = q.file
         /\ line' = q.line /\ pending' = q.pending /\ before' = q.before
<1>1. /\ status' = q.status /\ results' = q.results /\ cut' = q.truncated /\ task' = q.task /\ file' = q.file
      /\ line' = q.line /\ pending' = q.pending /\ before' = q.before
  BY DEF Search!Becomes
<1>2. q = [status |-> q.status, results |-> q.results, truncated |-> q.truncated,
           task |-> q.task, file |-> q.file, line |-> q.line, pending |-> q.pending, before |-> q.before]
  BY DEF JobRecord
<1> QED
  BY <1>1, <1>2 DEF Search!Job

LEMMA AtRestStays ==
  ASSUME options' = options, Statuses \subseteq Statuses', NEW q, NEW u, AtRest(q, u)
  PROVE  AtRest(q, u)'
<1>1. q \in JobRecord'
  <2>1. q \in JobRecord
    BY DEF AtRest
  <2> QED
    BY <2>1 DEF JobRecord, Results
<1>2. Around(q.results)' <=> Around(q.results)
  BY DEF Around
<1>3. Whole(q)' <=> Whole(q)
  BY DEF Whole
<1>4. \A f \in 1..Len(Tree) : FindsAll(q.results, f)' <=> FindsAll(q.results, f)
  BY DEF FindsAll, Finds
<1>5. \A f \in 1..(q.file - 1) : FindsAll(q.results, f)' <=> FindsAll(q.results, f)
  BY DEF FindsAll, Finds
<1> QED
  BY <1>1, <1>2, <1>3, <1>4, <1>5 DEF AtRest

LEMMA ReadingStays ==
  ASSUME options' = options, unread' = unread, Statuses \subseteq Statuses', NEW q, NEW c, Reading(q, c)
  PROVE  Reading(q, c)'
<1>1. q \in JobRecord'
  <2>1. q \in JobRecord
    BY DEF Reading, InFile
  <2> QED
    BY <2>1 DEF JobRecord, Results
<1>2. (Around(q.results)' <=> Around(q.results)) /\ (Around(q.pending)' <=> Around(q.pending))
  BY DEF Around
<1>3. Whole(q)' <=> Whole(q)
  BY DEF Whole
<1>4. \A f \in 1..(q.file - 1) : FindsAll(q.results, f)' <=> FindsAll(q.results, f)
  BY DEF FindsAll, Finds
<1>5. InFile(q, c)'
  BY <1>1, <1>2 DEF Reading, InFile
<1>6. \A l \in 1..c : \A k \in 1..Tree[q.file][l] :
         Finds(q.results, q.file, l, k)' <=> Finds(q.results, q.file, l, k)
  BY DEF Finds
<1> QED
  BY <1>3, <1>4, <1>5, <1>6 DEF Reading

LEMMA RightStays ==
  ASSUME options' = options, unread' = unread, Statuses \subseteq Statuses', NEW q, JobIsRight(q)
  PROVE  JobIsRight(q)'
<1>1. CASE AtRest(q, unread)
  <2>1. PICK w : w = unread
    OBVIOUS
  <2>2. AtRest(q, w)'
    BY <1>1, <2>1, AtRestStays
  <2> QED
    BY <2>1, <2>2 DEF JobIsRight
<1>2. CASE Reading(q, q.line) /\ (options.context > 0 => q.before = Search!Min2(options.context, q.line))
  <2>1. Reading(q, q.line)'
    <3>1. PICK c : c = q.line
      OBVIOUS
    <3>2. Reading(q, c)'
      BY <1>2, <3>1, ReadingStays
    <3> QED
      BY <3>1, <3>2
  <2> QED
    BY <1>2, <2>1 DEF JobIsRight
<1> QED
  BY <1>1, <1>2 DEF JobIsRight

\* What does not concern the job.
FoundApart == /\ status # "none" /\ SearchTyped /\ PagesAreRight

LEMMA PagesStay ==
  ASSUME PagesAreRight, SearchTyped, NEW s \in Seq(Results), Extended(results, s), Len(results) \in Nat,
         UNCHANGED <<options, pages, done, stopper>>, results' = s,
         done /\ stopper = "idle" => status' = "completed" /\ Len(s) = Len(results)
  PROVE  PagesAreRight'
<1>1. pages' \in Seq(Results)' /\ Len(pages) \in Nat /\ Len(s) \in Nat
  <2>1. pages \in Seq(Results)
    BY DEF PagesAreRight
  <2> QED
    BY <2>1, LenProperties DEF Results
<1>2. Len(pages) <= Len(s)
  BY <1>1 DEF PagesAreRight, Extended
<1>3. \A i \in 1..Len(pages) : i \in 1..Len(results)
  BY <1>1 DEF PagesAreRight
<1>4. \A i \in 1..Len(pages) : pages[i] = s[i]
  BY <1>3 DEF PagesAreRight, Extended
<1> QED
  BY <1>1, <1>2, <1>4 DEF PagesAreRight

LEMMA JobStep ==
  ASSUME FoundApart, JobIsRight(Search!Job), task \in {"walking", "reading"},
         UNCHANGED <<options, listed, overtime, pages, done, stopper>>,
         NEW q \in JobRecord, Search!Becomes(q), JobIsRight(q)', Extended(results, q.results)
  PROVE  FoundApart' /\ JobIsRight(Search!Job)'
<1>1. /\ (Search!Job)' = q
      /\ status' = q.status /\ results' = q.results /\ cut' = q.truncated /\ task' = q.task /\ file' = q.file
      /\ line' = q.line /\ pending' = q.pending /\ before' = q.before
  BY BecomesIs
<1>2. JobIsRight(Search!Job)'
  BY <1>1
<1>3. status # "completed" /\ Len(results) \in Nat
  <2> DEFINE j == Search!Job
  <2>1. j.status = status /\ j.results = results /\ j.task = task
    BY JobParts
  <2> HIDE DEF j
  <2>2. j.status # "completed" /\ j \in JobRecord
    <3>1. AtRest(j, unread) \/ Reading(j, j.line)
      BY DEF JobIsRight, j
    <3> QED
      BY <2>1, <3>1 DEF AtRest, Reading, InFile
  <2> QED
    BY <2>1, <2>2, JobFields
<1>4. ~(done /\ stopper = "idle")
  BY <1>3 DEF FoundApart, PagesAreRight
<1>5. /\ q.status \in {"running", "completed", "stopped"} /\ q.truncated \in BOOLEAN
      /\ q.results \in Seq(Results)
  BY JobFields
<1>6. SearchTyped'
  BY <1>1, <1>5 DEF FoundApart, SearchTyped
<1>7. PagesAreRight'
  BY <1>1, <1>3, <1>4, <1>5, PagesStay DEF FoundApart
<1> QED
  BY <1>1, <1>2, <1>5, <1>6, <1>7 DEF FoundApart

\* A search that is stopped keeps what it has.
LEMMA StoppedIsRight ==
  ASSUME options' = options, unread' = unread, "stopped" \in Statuses', Statuses \subseteq Statuses',
         NEW j, JobIsRight(j), NEW q, q = [j EXCEPT !.status = "stopped"]
  PROVE  JobIsRight(q)'
<1>1. JobIsRight(j)'
  BY RightStays
<1>2. j \in JobRecord'
  BY <1>1 DEF JobIsRight, AtRest, Reading, InFile
<1>3. /\ q \in JobRecord' /\ q.status = "stopped" /\ q.task = j.task /\ q.results = j.results
      /\ q.truncated = j.truncated /\ q.file = j.file /\ q.line = j.line /\ q.pending = j.pending
      /\ q.before = j.before
  BY <1>2, Zenon DEF JobRecord
<1>4. Whole(q)' <=> Whole(j)'
  BY <1>3 DEF Whole
<1>5. CASE AtRest(j, unread)'
  <2>1. AtRest(q, unread)'
    BY <1>3, <1>4, <1>5 DEF AtRest
  <2> QED
    BY <2>1 DEF JobIsRight
<1>6. CASE Reading(j, j.line)' /\ (options.context > 0 => j.before = Search!Min2(options.context, j.line))'
  <2>1. InFile(q, q.line)'
    BY <1>3, <1>6 DEF Reading, InFile
  <2>2. Reading(q, q.line)'
    BY <1>3, <1>4, <1>6, <2>1 DEF Reading
  <2> QED
    BY <1>3, <1>6, <2>2 DEF JobIsRight
<1> QED
  BY <1>1, <1>5, <1>6 DEF JobIsRight

LEMMA JobKept ==
  ASSUME UNCHANGED Search!jobVars, UNCHANGED <<options, unread>>, Statuses \subseteq Statuses',
         JobIsRight(Search!Job)
  PROVE  JobIsRight(Search!Job)'
<1>1. Search!Job' = Search!Job
  BY DEF Search!Job, Search!jobVars
<1>2. PICK q : q = Search!Job
  OBVIOUS
<1>3. JobIsRight(q)'
  BY <1>2, RightStays
<1> QED
  BY <1>1, <1>2, <1>3

LEMMA SearchStarts ==
  ASSUME FoundInv, NEW o \in Search!AllOptions, Search!Start(o)
  PROVE  FoundInv'
<1>1. /\ status = "none" /\ results = <<>> /\ pages = <<>> /\ done = FALSE /\ cut = FALSE /\ stopper = "idle"
      /\ file = 1 /\ line = 0 /\ before = 0 /\ pending = <<>> /\ unread = {} /\ SearchTyped
  BY DEF FoundInv, Search!Start
<1>2. /\ listed' = TRUE /\ options' = o /\ status' = (IF o.max = 0 THEN "completed" ELSE "running")
      /\ cut' = (o.max = 0) /\ task' = (IF o.max = 0 THEN "ended" ELSE "walking")
      /\ overtime' = overtime /\ results' = <<>> /\ pages' = <<>> /\ done' = FALSE /\ stopper' = "idle"
      /\ file' = 1 /\ line' = 0 /\ before' = 0 /\ pending' = <<>> /\ unread' = {}
  BY <1>1 DEF Search!Start, Search!clientVars
<1>3. o \in [content : BOOLEAN, context : Nat, max : Nat, early : BOOLEAN]
  BY SearchIsInATree, Zenon DEF Search!AllOptions, Search!SearchAssumption
<1>4. SearchTyped'
  BY <1>1, <1>2, <1>3, Zenon DEF SearchTyped
<1>5. Len(<<>>) = 0 /\ <<>> \in Seq(Match) /\ <<>> \in Seq(Results')
  BY EmptySeq
<1>6. PagesAreRight'
  BY <1>2, <1>5 DEF PagesAreRight
<1>0. PICK q : q = Search!Job'
  OBVIOUS
<1>7. /\ q = [status |-> status', results |-> <<>>, truncated |-> (o.max = 0), task |-> task', file |-> 1,
              line |-> 0, pending |-> <<>>, before |-> 0]
      /\ status' \in Statuses' /\ status' \in {"running", "completed"}
  BY <1>0, <1>2 DEF Search!Job, Statuses
<1>8. /\ q \in JobRecord' /\ q.status = status' /\ q.results = <<>> /\ q.truncated = (o.max = 0)
      /\ q.task = task' /\ q.file = 1
  <2>1. task' \in {"walking", "reading", "ended"} /\ (o.max = 0) \in BOOLEAN /\ 0 \in Nat /\ 1 \in Nat
    BY <1>2
  <2> QED
    BY <1>5, <1>7, <2>1 DEF JobRecord
<1>9. InOrder(q.results) /\ Around(q.results)'
  BY <1>5, <1>8 DEF InOrder, Around
<1>10. Len(Tree) \in Nat
  BY TreeTyped
<1>11. status' = "completed" => q.truncated
  BY <1>2, <1>8, Zenon
<1>12. Len(q.results) = 0 /\ q.file \in 1..(Len(Tree) + 1) /\ options'.max \in Nat
  BY <1>2, <1>3, <1>5, <1>8, <1>10
<1>13. AtRest(q, {})'
  <2>1. q.status = "completed" => ~Whole(q)'
    BY <1>8, <1>11 DEF Whole
  <2>2. q.task = "walking" => q.status # "completed"
    BY <1>2, <1>8
  <2>3. q.task \in {"walking", "ended"}
    BY <1>2, <1>8
  <2>4. \A f \in 1..(q.file - 1) : FALSE
    BY <1>8
  <2> QED
    BY <1>8, <1>9, <1>12, <2>1, <2>2, <2>3, <2>4 DEF AtRest
<1>14. JobIsRight(Search!Job)'
  BY <1>0, <1>2, <1>13 DEF JobIsRight
<1>15. status' # "none"
  BY <1>7
<1> QED
  BY <1>4, <1>6, <1>14, <1>15 DEF FoundInv

LEMMA GetMoreStep ==
  ASSUME FoundApart, JobIsRight(Search!Job), NEW n \in PageSizes, Search!GetMore(n)
  PROVE  FoundApart' /\ JobIsRight(Search!Job)'
<1>1. JobIsRight(Search!Job)'
  <2>1. UNCHANGED Search!jobVars /\ UNCHANGED <<options, unread>> /\ Statuses \subseteq Statuses'
    BY DEF Search!GetMore, Search!jobVars, Statuses
  <2> QED
    BY <2>1, JobKept
<1> DEFINE P == Len(pages)
           R == Len(results)
           end == Search!Min2(P + n, R)
           new == SubSeq(results, P + 1, end)
<1>2. /\ listed /\ pages' = pages \o new /\ done' = (status # "running" /\ end >= R)
      /\ UNCHANGED <<status, results, listed, options, overtime, stopper, cut>>
  BY DEF Search!GetMore, Search!jobVars
<1>3. /\ Search!Job \in JobRecord /\ results \in Seq(Results) /\ status \in Statuses
  <2>1. Search!Job \in JobRecord
    BY DEF JobIsRight, AtRest, Reading, InFile
  <2> DEFINE j == Search!Job
  <2>2. j.results = results /\ j.status = status
    BY JobParts
  <2> HIDE DEF j
  <2>3. j.results \in Seq(Results) /\ j.status \in Statuses
    BY <2>1 DEF JobRecord, j
  <2> QED
    BY <2>1, <2>2, <2>3
<1>4. pages \in Seq(Results) /\ P \in Nat /\ R \in Nat /\ P <= R /\ n \in Nat
      /\ \A i \in 1..P : pages[i] = results[i]
  BY <1>3, LenProperties, SearchIsInATree DEF FoundApart, PagesAreRight, Search!SearchAssumption
<1>5. end \in Nat /\ P <= end /\ end <= R
  <2> HIDE DEF P, R
  <2> QED
    BY <1>4 DEF Search!Min2
<1> HIDE DEF end
<1>6. /\ new \in Seq(Results) /\ Len(new) = end - P
      /\ \A i \in 1..(end - P) : new[i] = results[P + i]
  <2> DEFINE p == P
  <2>1. p \in Nat /\ end \in Nat /\ p <= end /\ end <= Len(results) /\ results \in Seq(Results)
    BY <1>3, <1>4, <1>5
  <2> HIDE DEF p
  <2>2. /\ SubSeq(results, p + 1, end) \in Seq(Results) /\ Len(SubSeq(results, p + 1, end)) = end - p
        /\ \A i \in 1..(end - p) : SubSeq(results, p + 1, end)[i] = results[p + i]
    BY <2>1, MiddleOf
  <2> QED
    BY <2>2 DEF p
<1> HIDE DEF new
<1>7. /\ pages \o new \in Seq(Results) /\ Len(pages \o new) = Len(pages) + Len(new)
      /\ \A i \in 1..Len(pages) : (pages \o new)[i] = pages[i]
      /\ \A i \in 1..Len(new) : (pages \o new)[Len(pages) + i] = new[i]
  <2>1. pages \in Seq(Results) /\ new \in Seq(Results)
    BY <1>4, <1>6
  <2> QED
    BY <2>1, JoinIs
<1> DEFINE g == pages \o new
<1> HIDE DEF g
<1>8. /\ g \in Seq(Results) /\ Len(g) = end
      /\ \A i \in 1..P : g[i] = results[i]
      /\ \A i \in 1..(end - P) : g[P + i] = results[P + i]
  <2>1. Len(g) = P + (end - P)
    BY <1>6, <1>7 DEF g
  <2>2. P + (end - P) = end
    <3> HIDE DEF P
    <3> QED
      BY <1>4, <1>5
  <2> QED
    BY <1>4, <1>6, <1>7, <2>1, <2>2 DEF g
<1> HIDE DEF P, R
<1>9. \A i \in 1..end : g[i] = results[i]
  <2> SUFFICES ASSUME NEW i \in 1..end, i \notin 1..P PROVE g[i] = results[i]
    BY <1>8
  <2>1. i - P \in 1..(end - P) /\ P + (i - P) = i
    BY <1>4, <1>5
  <2> QED
    BY <1>8, <2>1
<1>10. done' /\ stopper' = "idle" => status' = "completed" /\ Len(g) = R
  <2> SUFFICES ASSUME done', stopper = "idle" PROVE status = "completed" /\ end = R
    BY <1>2, <1>8
  <2>1. status # "running" /\ end >= R
    BY <1>2, Zenon
  <2>2. status = "completed"
    BY <1>2, <1>3, <2>1 DEF Statuses
  <2> QED
    BY <1>4, <1>5, <2>1, <2>2
<1>11. SearchTyped'
  <2>1. done' \in BOOLEAN
    BY <1>2
  <2> QED
    BY <1>2, <2>1 DEF FoundApart, SearchTyped
<1>12. PagesAreRight'
  <2>1. g \in Seq(Results)' /\ pages' = g
    BY <1>2, <1>8 DEF Results, g
  <2>2. results' = results /\ R = Len(results)
    BY <1>2 DEF R
  <2> QED
    BY <1>5, <1>8, <1>9, <1>10, <2>1, <2>2 DEF PagesAreRight
<1> QED
  BY <1>1, <1>2, <1>11, <1>12 DEF FoundApart

LEMMA OptionsAre ==
  ASSUME SearchTyped
  PROVE  OptionsTyped
BY DEF SearchTyped, OptionsTyped

\* The steps of the job itself.
LEMMA JobSteps ==
  ASSUME FoundApart, JobIsRight(Search!Job), Search!Walk \/ Search!Line \/ Search!EndOfFile \/ Search!ReadError
  PROVE  FoundApart' /\ JobIsRight(Search!Job)'
<1>1. OptionsTyped
  BY OptionsAre DEF FoundApart
<1>2. CASE Search!Walk \/ Search!Line \/ Search!EndOfFile
  <2>1. /\ task \in {"walking", "reading"}
        /\ UNCHANGED <<options, listed, overtime, pages, done, stopper, unread>>
    BY <1>2 DEF Search!Walk, Search!Line, Search!EndOfFile, Search!clientVars
  <2>2. PICK q \in JobRecord : Search!Becomes(q) /\ JobIsRight(q) /\ Extended(results, q.results)
    BY <1>1, <1>2, WalkIs, LineIs, EndOfFileIs
  <2>3. Statuses \subseteq Statuses'
    BY <2>1 DEF Statuses
  <2>4. JobIsRight(q)'
    BY <2>1, <2>2, <2>3, RightStays
  <2> QED
    BY <2>1, <2>2, <2>4, JobStep
<1>3. CASE Search!ReadError
  <2>1. /\ task \in {"walking", "reading"}
        /\ UNCHANGED <<options, listed, overtime, pages, done, stopper>>
    BY <1>3 DEF Search!ReadError, Search!clientVars
  <2>2. PICK q \in JobRecord : Search!Becomes(q) /\ AtRest(q, unread') /\ Extended(results, q.results)
    BY <1>1, <1>3, ReadErrorIs
  <2>3. Statuses \subseteq Statuses'
    BY <2>1 DEF Statuses
  <2>4. PICK u : u = unread'
    OBVIOUS
  <2>5. AtRest(q, u)'
    BY <2>1, <2>2, <2>3, <2>4, AtRestStays
  <2>6. JobIsRight(q)'
    BY <2>4, <2>5 DEF JobIsRight
  <2> QED
    BY <2>1, <2>2, <2>6, JobStep
<1> QED
  BY <1>2, <1>3

\* The clients' steps.
LEMMA TimeOrStopReturns ==
  ASSUME FoundApart, JobIsRight(Search!Job), Search!TimePasses \/ Search!StopReturns \/ UNCHANGED Search!vars
  PROVE  FoundApart' /\ JobIsRight(Search!Job)'
<1>1. /\ UNCHANGED Search!jobVars /\ UNCHANGED <<options, unread, pages, done, listed>>
      /\ overtime' \in {TRUE, overtime} /\ (stopper' = stopper \/ stopper' = "returned")
  BY Zenon DEF Search!TimePasses, Search!StopReturns, Search!clientVars, Search!jobVars, Search!vars
<1>2. Statuses \subseteq Statuses'
  BY <1>1 DEF Statuses
<1>3. JobIsRight(Search!Job)'
  BY <1>1, <1>2, JobKept
<1>4. SearchTyped'
  BY <1>1, Zenon DEF FoundApart, SearchTyped, Search!jobVars
<1>5. PagesAreRight'
  BY <1>1 DEF FoundApart, PagesAreRight, Results, Search!jobVars
<1> QED
  BY <1>1, <1>3, <1>4, <1>5 DEF FoundApart, Search!jobVars

LEMMA StopStep ==
  ASSUME FoundApart, JobIsRight(Search!Job), Search!Stop \/ Search!Expire
  PROVE  FoundApart' /\ JobIsRight(Search!Job)'
<1>1. /\ UNCHANGED <<task, options, overtime, results, cut, file, line, pending, before, unread, pages, done>>
      /\ listed' \in {listed, FALSE} /\ stopper' \in {stopper, "waiting"} /\ (stopper' = "idle" => listed' = FALSE)
      /\ (stopper' # stopper => stopper = "idle")
      /\ status' = "stopped" \/ status' = status
      /\ stopper' = "idle" => stopper = "idle" /\ (status = "completed" => status' = "completed")
  BY Zenon DEF Search!Stop, Search!Expire, Search!clientVars
<1>2. Statuses \subseteq Statuses' /\ "stopped" \in Statuses'
  BY <1>1 DEF Statuses
<1>3. JobIsRight(Search!Job)'
  <2>1. CASE status' = "stopped"
    <3>1. PICK j, q : j = Search!Job /\ q = Search!Job'
      OBVIOUS
    <3>2. q = [j EXCEPT !.status = "stopped"]
      BY <1>1, <2>1, <3>1 DEF Search!Job
    <3>3. JobIsRight(q)'
      BY <1>1, <1>2, <3>1, <3>2, StoppedIsRight
    <3> QED
      BY <3>1, <3>3
  <2>2. CASE status' = status
    BY <1>1, <1>2, <2>2, JobKept DEF Search!jobVars
  <2> QED
    BY <1>1, <2>1, <2>2
<1>4. SearchTyped'
  BY <1>1, Zenon DEF FoundApart, SearchTyped
<1>5. PagesAreRight'
  BY <1>1 DEF FoundApart, PagesAreRight, Results
<1> QED
  BY <1>1, <1>3, <1>4, <1>5 DEF FoundApart

LEMMA FoundStep == FoundInv /\ [Search!Next]_(Search!vars) => FoundInv'
<1> SUFFICES ASSUME FoundInv, [Search!Next]_(Search!vars) PROVE FoundInv'
  OBVIOUS
<1>1. CASE status # "none"
  <2>1. FoundApart /\ JobIsRight(Search!Job)
    BY <1>1 DEF FoundInv, FoundApart
  <2>2. ~ \E o \in Search!AllOptions : Search!Start(o)
    BY <1>1 DEF Search!Start
  <2>3. \/ Search!Walk \/ Search!Line \/ Search!EndOfFile \/ Search!ReadError
        \/ Search!TimePasses \/ Search!StopReturns \/ UNCHANGED Search!vars
        \/ Search!Stop \/ Search!Expire
        \/ \E n \in PageSizes : Search!GetMore(n)
    BY <2>2 DEF Search!Next
  <2>4. FoundApart' /\ JobIsRight(Search!Job)'
    BY <2>1, <2>3, JobSteps, TimeOrStopReturns, StopStep, GetMoreStep
  <2> QED
    BY <2>4 DEF FoundInv, FoundApart
<1>2. CASE status = "none"
  <2>1. ~listed /\ task = "none" /\ stopper = "idle"
    BY <1>2 DEF FoundInv
  <2>2. CASE \E o \in Search!AllOptions : Search!Start(o)
    BY <2>2, SearchStarts
  <2>3. CASE UNCHANGED Search!vars
    BY <1>2, <2>3 DEF FoundInv, SearchTyped, Search!vars
  <2>4. (\E o \in Search!AllOptions : Search!Start(o)) \/ UNCHANGED Search!vars
    BY <2>1 DEF Search!Next, Search!Walk, Search!Line, Search!EndOfFile, Search!ReadError,
                Search!TimePasses, Search!StopReturns, Search!Stop, Search!Expire, Search!GetMore
  <2> QED
    BY <2>2, <2>3, <2>4
<1> QED
  BY <1>1, <1>2

LEMMA FoundInit == Search!Init => FoundInv
<1> SUFFICES ASSUME Search!Init PROVE FoundInv
  OBVIOUS
<1>1. /\ options = [content |-> TRUE, context |-> 0, max |-> 0, early |-> FALSE]
      /\ status = "none" /\ listed = FALSE /\ task = "none" /\ overtime = FALSE
      /\ results = <<>> /\ cut = FALSE /\ file = 1 /\ line = 0 /\ pending = <<>> /\ before = 0
      /\ unread = {} /\ pages = <<>> /\ done = FALSE /\ stopper = "idle"
  BY DEF Search!Init
<1>2. options \in [content : BOOLEAN, context : Nat, max : Nat, early : BOOLEAN] /\ options.content
  BY <1>1
<1>3. SearchTyped
  BY <1>1, <1>2, Zenon DEF SearchTyped
<1> QED
  BY <1>1, <1>2, <1>3 DEF FoundInv

\* What is found is sound.
LEMMA FoundNothingYet ==
  ASSUME FoundInv, status = "none"
  PROVE  Search!ResultsAreSound
<1>1. /\ ~listed /\ task = "none" /\ results = <<>> /\ pages = <<>> /\ ~done /\ cut = FALSE
      /\ stopper = "idle" /\ file = 1 /\ line = 0 /\ before = 0 /\ SearchTyped
  BY DEF FoundInv
<1>2. Len(<<>>) = 0 /\ DOMAIN <<>> = {} /\ Len(Tree) \in Nat
  BY EmptySeq, TreeTyped
<1>3. options.max \in Nat /\ done = FALSE /\ overtime \in BOOLEAN /\ listed = FALSE
  BY <1>1 DEF SearchTyped
<1>4. Search!TypeOK
  <2>1. file \in 1..(Len(Tree) + 1) /\ line \in Nat /\ before \in Nat
    BY <1>1, <1>2
  <2>2. listed \in BOOLEAN /\ cut \in BOOLEAN /\ done \in BOOLEAN
    BY <1>1, <1>3, Zenon
  <2> QED
    BY <1>1, <1>3, <2>1, <2>2 DEF Search!TypeOK
<1>5. Search!ResultsAreInOrder
  BY <1>1, <1>2, <1>3 DEF Search!ResultsAreInOrder
<1>6. Search!PagesMakeTheResults
  <2>1. SubSeq(<<>>, 1, 0) = <<>>
    <3>1. <<>> \in Seq(Match) /\ 0 \in 0..Len(<<>>)
      BY <1>2, EmptySeq
    <3>2. SubSeq(<<>>, 1, 0) \in Seq(Match) /\ Len(SubSeq(<<>>, 1, 0)) = 0
      BY <3>1, FrontOf
    <3> QED
      BY <3>2, EmptySeq
  <2> QED
    BY <1>1, <1>2, <2>1 DEF Search!PagesMakeTheResults
<1> QED
  BY <1>4, <1>5, <1>6 DEF Search!ResultsAreSound, Search!CompleteUnlessCut

LEMMA FoundIsSound ==
  ASSUME FoundInv, status # "none"
  PROVE  Search!ResultsAreSound
<1> DEFINE j == Search!Job
<1>1. /\ j.status = status /\ j.results = results /\ j.truncated = cut /\ j.task = task /\ j.file = file
      /\ j.line = line /\ j.before = before
  BY JobParts
<1>2. JobIsRight(j) /\ PagesAreRight /\ SearchTyped
  BY DEF FoundInv
<1> HIDE DEF j
<1>3. /\ j \in JobRecord /\ Len(j.results) <= options.max /\ j.file \in 1..(Len(Tree) + 1)
      /\ j.task \in {"walking", "reading", "ended"}
      /\ options.content => InOrder(j.results) /\ Around(j.results)
      /\ options.early => Len(j.results) <= 2
      /\ j.status = "completed" => AtRest(j, unread)
  <2>1. CASE AtRest(j, unread)
    BY <2>1 DEF AtRest
  <2>2. CASE Reading(j, j.line)
    <3>1. Len(<<>>) = 0 /\ Len(Tree) \in Nat
      BY EmptySeq, TreeTyped
    <3> QED
      BY <2>2, <3>1 DEF Reading, InFile
  <2> QED
    BY <1>2, <2>1, <2>2 DEF JobIsRight
<1>4. /\ results \in Seq(Results) /\ Len(results) \in Nat /\ DOMAIN results = 1..Len(results)
      /\ line \in Nat /\ before \in Nat /\ cut \in BOOLEAN
  BY <1>1, <1>3, JobFields, LenProperties
<1>5. Search!TypeOK
  BY <1>1, <1>2, <1>3, <1>4 DEF Search!TypeOK, SearchTyped
<1>6. Search!ResultsAreInOrder
  <2>1. Len(results) <= options.max /\ (options.early => Len(results) <= 2)
    BY <1>1, <1>3
  <2>2. options.content => /\ \A i, k \in 1..Len(results) : i < k => Search!Comes(results[i], results[k])
                           /\ \A i \in 1..Len(results) :
                                /\ results[i].after <= options.context
                                /\ options.context > 0 =>
                                     results[i].before = Search!Min2(options.context, results[i].line - 1)
    BY <1>1, <1>3 DEF InOrder, Around
  <2> QED
    BY <1>4, <2>1, <2>2 DEF Search!ResultsAreInOrder
<1>7. Search!CompleteUnlessCut
  <2> SUFFICES ASSUME status = "completed", ~cut, ~options.early, options.content,
                      NEW f \in DOMAIN Tree \ unread, NEW l \in DOMAIN Tree[f], NEW k \in 1..Tree[f][l]
               PROVE  \E i \in DOMAIN results :
                        /\ results[i].file = f /\ results[i].line = l /\ results[i].nth = k
                        /\ results[i].after = Search!Min2(options.context, Len(Tree[f]) - l)
    BY DEF Search!CompleteUnlessCut
  <2>1. f \in 1..Len(Tree) /\ f \notin unread
    <3>1. Tree \in Seq(Seq(Nat))
      BY SearchIsInATree DEF Search!SearchAssumption
    <3> QED
      BY <3>1, LenProperties
  <2>2. l \in 1..Len(Tree[f])
    BY <2>1, TreeTyped, LenProperties
  <2>3. FindsAll(results, f)
    BY <1>1, <1>3, <2>1 DEF AtRest, Whole
  <2>4. Finds(results, f, l, k)
    BY <2>2, <2>3 DEF FindsAll
  <2> QED
    BY <1>4, <2>4, Zenon DEF Finds
<1>8. Search!PagesMakeTheResults
  <2>1. pages \in Seq(Results) /\ Len(pages) \in Nat /\ Len(pages) <= Len(results)
        /\ \A i \in 1..Len(pages) : pages[i] = results[i]
    BY <1>2, LenProperties DEF PagesAreRight
  <2>2. Len(pages) \in 0..Len(results)
    BY <1>4, <2>1
  <2> DEFINE s == SubSeq(results, 1, Len(pages))
  <2>3. /\ s \in Seq(Results) /\ Len(s) = Len(pages)
        /\ \A i \in 1..Len(pages) : s[i] = results[i]
    BY <1>4, <2>2, FrontOf
  <2> HIDE DEF s
  <2>4. pages = s
    <3>1. \A i \in 1..Len(pages) : pages[i] = s[i]
      BY <2>1, <2>3
    <3> QED
      BY <2>1, <2>3, <3>1, SeqEqual
  <2>5. ASSUME done, stopper = "idle" PROVE pages = results
    <3>1. Len(pages) = Len(results)
      BY <1>2, <2>5 DEF PagesAreRight
    <3> QED
      BY <1>4, <2>1, <3>1, SeqEqual
  <2> QED
    BY <2>1, <2>4, <2>5 DEF Search!PagesMakeTheResults, s
<1> QED
  BY <1>5, <1>6, <1>7, <1>8 DEF Search!ResultsAreSound

LEMMA SearchFindsWhatThereIs == Search!Spec => []Search!ResultsAreSound
<1>1. Search!Init => FoundInv
  BY FoundInit
<1>2. FoundInv /\ [Search!Next]_(Search!vars) => FoundInv'
  BY FoundStep
<1>3. FoundInv => Search!ResultsAreSound
  BY FoundNothingYet, FoundIsSound
<1> QED
  BY <1>1, <1>2, <1>3, PTL DEF Search!Spec

\* What a search finds, and the pages that are read of it, are what the tree holds:
\* addResult, emitReady, matchFileContent and getMore of manager.ts.
THEOREM SearchesAreSound == ToolsSpec => []ResultsAreSound
<1>1. Search!ResultsAreSound => ResultsAreSound
  BY DEF ResultsAreSound
<1> QED
  BY <1>1, ToolsImplementTheirParts, SearchFindsWhatThereIs, PTL

-----------------------------------------------------------------------------
(***************************************************************************)
(* The pages of a reader.  A page is a part of the source: the items p     *)
(* behind the first m.  Whoever removes or inserts an item moves the part  *)
(* that comes next, and two numbers say what that costs.  Every item that  *)
(* was handed out and is ahead of the reader again (AheadOf) may be handed *)
(* out twice, and an insertion pushes one there; every item that is behind *)
(* it, or went, and was not handed out (MissedBy) is missed, and a removal *)
(* pulls one there.  A page repeats only what was ahead and misses nothing *)
(* (PageAdds), so that the repeated and the ahead together are no more     *)
(* than the insertions, and the missed no more than the removals           *)
(* (AreCounted).                                                           *)
(***************************************************************************)
Items == [name : Nat, size : Nat \ {0}]
Distinct(s) == \A i, j \in 1..Len(s) : s[i].name = s[j].name => i = j

\* What the pages g hold that is still to come, and what they miss of the first m items
\* of s and of those that went.
AheadOf(s, g, m) == {x \in Paging!Names(g) : \E i \in 1..Len(s) : i > m /\ s[i].name = x}
MissedBy(s, g, m, gone) ==
  {x \in 1..Len(ItemSizes) :
     x \notin Paging!Names(g) /\ (x \in gone \/ \E i \in 1..Len(s) : i <= m /\ s[i].name = x)}

\* One Cardinality for the reader and for the lemmas about finite sets.
LEMMA PagesCount == \A S : Paging!Cardinality(S) = Cardinality(S)
BY DEF Paging!Cardinality, Cardinality

\* The names of some items.
LEMMA NamesAre ==
  ASSUME NEW g \in Seq(Items)
  PROVE  /\ \A x : x \in Paging!Names(g) <=> \E i \in 1..Len(g) : g[i].name = x
         /\ Paging!Names(g) \subseteq Nat
<1>1. DOMAIN g = 1..Len(g) /\ \A i \in 1..Len(g) : g[i] \in Items
  BY LenProperties, ElementOfSeq
<1> QED
  BY <1>1, Zenon DEF Paging!Names, Items

\* As many names as items, or fewer when an item is repeated.
LEMMA NamesAreFinite ==
  ASSUME NEW g \in Seq(Items)
  PROVE  /\ IsFiniteSet(Paging!Names(g)) /\ Cardinality(Paging!Names(g)) \in Nat
         /\ Cardinality(Paging!Names(g)) <= Len(g)
         /\ Distinct(g) => Cardinality(Paging!Names(g)) = Len(g)
<1> DEFINE N == Paging!Names(g)
           f == [i \in 1..Len(g) |-> g[i].name]
<1>1. Len(g) \in Nat /\ \A x : x \in N <=> \E i \in 1..Len(g) : g[i].name = x
  BY NamesAre, LenProperties
<1> HIDE DEF N
<1>2. IsFiniteSet(1..Len(g)) /\ Cardinality(1..Len(g)) = Len(g)
  <2>1. 1 \in Int /\ Len(g) \in Int
    BY <1>1
  <2>2. IsFiniteSet(1..Len(g)) /\ Cardinality(1..Len(g)) = IF 1 > Len(g) THEN 0 ELSE Len(g) - 1 + 1
    BY <2>1, FS_Interval
  <2> QED
    BY <1>1, <2>2
<1>3. f \in Surjection(1..Len(g), N)
  BY <1>1 DEF Surjection
<1>4. Distinct(g) => f \in Injection(1..Len(g), N)
  <2> SUFFICES ASSUME Distinct(g) PROVE f \in Injection(1..Len(g), N)
    OBVIOUS
  <2>1. f \in [1..Len(g) -> N]
    BY <1>1
  <2>2. \A i, j \in 1..Len(g) : f[i] = f[j] => i = j
    BY DEF Distinct
  <2> QED
    BY <2>1, <2>2 DEF Injection, IsInjective
<1> HIDE DEF f
<1>5. /\ IsFiniteSet(N) /\ Cardinality(N) <= Cardinality(1..Len(g))
      /\ Cardinality(N) = Cardinality(1..Len(g)) <=> f \in Injection(1..Len(g), N)
  BY <1>2, <1>3, FS_Surjection
<1>6. Cardinality(N) \in Nat
  BY <1>5, FS_CardinalityType
<1> QED
  BY <1>2, <1>4, <1>5, <1>6 DEF N

\* The names of one page behind the others.
LEMMA NamesOfBoth ==
  ASSUME NEW g \in Seq(Items), NEW p \in Seq(Items)
  PROVE  Paging!Names(g \o p) = Paging!Names(g) \cup Paging!Names(p)
<1>1. /\ g \o p \in Seq(Items) /\ Len(g \o p) = Len(g) + Len(p)
      /\ \A i \in 1..Len(g) : (g \o p)[i] = g[i]
      /\ \A i \in 1..Len(p) : (g \o p)[Len(g) + i] = p[i]
  BY JoinIs
<1>2. Len(g) \in Nat /\ Len(p) \in Nat
  BY LenProperties
<1> DEFINE q == g \o p
<1> HIDE DEF q
<1>3. q \in Seq(Items) /\ Len(q) = Len(g) + Len(p)
  BY <1>1 DEF q
<1>4. \A i \in 1..Len(g) : q[i] = g[i]
  BY <1>1 DEF q
<1>5. \A i \in 1..Len(p) : q[Len(g) + i] = p[i]
  BY <1>1 DEF q
<1>6. \A x : x \in Paging!Names(q) <=> \E i \in 1..Len(q) : q[i].name = x
  BY <1>3, NamesAre
<1>7. \A x : x \in Paging!Names(g) <=> \E i \in 1..Len(g) : g[i].name = x
  BY NamesAre
<1>8. \A x : x \in Paging!Names(p) <=> \E i \in 1..Len(p) : p[i].name = x
  BY NamesAre
<1>9. ASSUME NEW x, x \in Paging!Names(g) \/ x \in Paging!Names(p)
      PROVE  \E i \in 1..Len(q) : q[i].name = x
  <2>1. CASE x \in Paging!Names(g)
    <3>1. PICK i \in 1..Len(g) : g[i].name = x
      BY <1>7, <2>1
    <3>2. i \in 1..Len(q)
      BY <1>2, <1>3
    <3> QED
      BY <1>4, <3>1, <3>2
  <2>2. CASE x \in Paging!Names(p)
    <3>1. PICK i \in 1..Len(p) : p[i].name = x
      BY <1>8, <2>2
    <3>2. Len(g) + i \in 1..Len(q)
      BY <1>2, <1>3
    <3> QED
      BY <1>5, <3>1, <3>2
  <2> QED
    BY <1>9, <2>1, <2>2
<1>10. ASSUME NEW x, NEW i \in 1..Len(q), q[i].name = x
       PROVE  x \in Paging!Names(g) \cup Paging!Names(p)
  <2>1. CASE i <= Len(g)
    <3>1. i \in 1..Len(g)
      BY <1>2, <1>3, <2>1
    <3> QED
      BY <1>4, <1>7, <1>10, <3>1
  <2>2. CASE ~(i <= Len(g))
    <3>1. i - Len(g) \in 1..Len(p) /\ Len(g) + (i - Len(g)) = i
      BY <1>2, <1>3, <2>2
    <3>2. q[i] = p[i - Len(g)]
      BY <1>5, <3>1
    <3> QED
      BY <1>8, <1>10, <3>1, <3>2
  <2> QED
    BY <2>1, <2>2
<1>11. Paging!Names(q) = Paging!Names(g) \cup Paging!Names(p)
  BY <1>6, <1>9, <1>10
<1> QED
  BY <1>11 DEF q

\* The items p behind the first m of s are handed out.
IsPart(s, m, p) ==
  /\ p \in Seq(Items) /\ (p = <<>> \/ m + Len(p) <= Len(s))
  /\ \A i \in 1..Len(p) : p[i] = s[m + i]

\* A page repeats nothing but what was ahead, and misses nothing.
LEMMA PageAdds ==
  ASSUME NEW s \in Seq(Items), Distinct(s), NEW g \in Seq(Items), NEW m \in Nat,
         NEW p, IsPart(s, m, p), NEW gone
  PROVE  /\ Paging!Repeated(g \o p) + Cardinality(AheadOf(s, g \o p, m + Len(p)))
              = Paging!Repeated(g) + Cardinality(AheadOf(s, g, m))
         /\ MissedBy(s, g \o p, m + Len(p), gone) \subseteq MissedBy(s, g, m, gone)
         /\ g \o p \in Seq(Items)
<1> DEFINE N == Paging!Names(g)
           A == Paging!Names(p)
           k == Len(p)
<1>1. /\ p \in Seq(Items) /\ k \in Nat /\ Len(s) \in Nat /\ Len(g) \in Nat
      /\ \A i \in 1..k : m + i \in 1..Len(s) /\ p[i] = s[m + i]
  <2>1. p \in Seq(Items) /\ \A i \in 1..Len(p) : p[i] = s[m + i]
    BY DEF IsPart
  <2>2. k \in Nat /\ Len(s) \in Nat /\ Len(g) \in Nat
    BY <2>1, LenProperties
  <2>3. k = 0 \/ m + k <= Len(s)
    BY EmptySeq DEF IsPart
  <2> HIDE DEF k
  <2>4. \A i \in 1..k : m + i \in 1..Len(s)
    BY <2>2, <2>3
  <2> QED
    BY <2>1, <2>2, <2>4 DEF k
<1>2. g \o p \in Seq(Items) /\ Len(g \o p) = Len(g) + k /\ Paging!Names(g \o p) = N \cup A
  BY <1>1, JoinIs, NamesOfBoth
<1>3. Distinct(p)
  <2> SUFFICES ASSUME NEW i \in 1..k, NEW j \in 1..k, p[i].name = p[j].name PROVE i = j
    BY DEF Distinct
  <2>1. m + i \in 1..Len(s) /\ m + j \in 1..Len(s) /\ s[m + i].name = s[m + j].name
    BY <1>1, Zenon
  <2>2. m + i = m + j
    BY <2>1 DEF Distinct
  <2> QED
    BY <1>1, <2>2
<1>4. /\ IsFiniteSet(N) /\ IsFiniteSet(A) /\ Cardinality(N) \in Nat /\ Cardinality(A) = k
      /\ N \subseteq Nat /\ A \subseteq Nat
  BY <1>1, <1>3, NamesAreFinite, NamesAre
<1>5. \A x : x \in A <=> \E i \in 1..k : s[m + i].name = x
  <2>1. \A x : x \in A <=> \E i \in 1..k : p[i].name = x
    BY <1>1, NamesAre
  <2> HIDE DEF A, k
  <2>2. \A i \in 1..k : p[i] = s[m + i]
    BY <1>1
  <2> QED
    BY <2>1, <2>2
<1> DEFINE B == AheadOf(s, g \o p, m + k)
           C == AheadOf(s, g, m)
<1>6. B \subseteq N /\ B \cap A = {} /\ C = B \cup (N \cap A)
  <2>1. \A x : x \in C <=> x \in N /\ \E i \in 1..Len(s) : i > m /\ s[i].name = x
    BY DEF AheadOf
  <2>2. \A x : x \in B <=> x \in N \cup A /\ \E i \in 1..Len(s) : i > m + k /\ s[i].name = x
    BY <1>2 DEF AheadOf
  <2> HIDE DEF B, C, A, N, k
  <2>0. m \in Nat /\ k \in Nat /\ Len(s) \in Nat
    BY <1>1
  <2>3. ASSUME NEW x \in B PROVE x \notin A
    <3>1. PICK i \in 1..Len(s) : i > m + k /\ s[i].name = x
      BY <2>2
    <3> SUFFICES ASSUME x \in A PROVE FALSE
      OBVIOUS
    <3>2. PICK j \in 1..k : s[m + j].name = x
      BY <1>5
    <3>3. i = m + j
      BY <1>1, <3>1, <3>2, Zenon DEF Distinct
    <3> QED
      BY <1>1, <3>1, <3>3
  <2>4. ASSUME NEW x \in C PROVE x \in B \cup (N \cap A)
    <3>1. PICK i \in 1..Len(s) : i > m /\ s[i].name = x
      BY <2>1
    <3>2. CASE i > m + k
      BY <2>1, <2>2, <3>1, <3>2
    <3>3. CASE ~(i > m + k)
      <4>1. i - m \in 1..k /\ m + (i - m) = i
        BY <2>0, <3>1, <3>3
      <4> QED
        BY <1>5, <2>1, <3>1, <4>1
    <3> QED
      BY <3>2, <3>3
  <2>5. ASSUME NEW x \in B PROVE x \in C
    <3>1. PICK i \in 1..Len(s) : i > m + k /\ s[i].name = x
      BY <2>2
    <3>2. i > m
      BY <2>0, <3>1
    <3> QED
      BY <2>1, <2>2, <2>3, <3>1, <3>2
  <2>6. ASSUME NEW x \in N \cap A PROVE x \in C
    <3>1. PICK j \in 1..k : s[m + j].name = x
      BY <1>5
    <3>2. m + j \in 1..Len(s)
      BY <1>1, Zenon
    <3>3. m + j > m
      BY <2>0
    <3> QED
      BY <2>1, <3>1, <3>2, <3>3
  <2> QED
    BY <2>2, <2>3, <2>4, <2>5, <2>6
<1> HIDE DEF B, C, N, A
<1>7. IsFiniteSet(B) /\ IsFiniteSet(N \cap A) /\ Cardinality(B) \in Nat /\ Cardinality(N \cap A) \in Nat
  <2>1. B \in SUBSET N /\ N \cap A \in SUBSET N
    BY <1>6
  <2>2. IsFiniteSet(B) /\ IsFiniteSet(N \cap A)
    BY <1>4, <2>1, FS_Subset, Zenon
  <2> QED
    BY <2>2, FS_CardinalityType
<1>8. Cardinality(C) = Cardinality(B) + Cardinality(N \cap A)
  <2>1. B \cap (N \cap A) = {}
    BY <1>6
  <2>2. Cardinality(B \cup (N \cap A)) = Cardinality(B) + Cardinality(N \cap A) - Cardinality({})
    BY <1>7, <2>1, FS_Union
  <2>3. Cardinality({}) = 0
    BY FS_EmptySet
  <2> QED
    BY <1>6, <1>7, <2>2, <2>3
<1>9. Cardinality(N \cup A) = Cardinality(N) + Cardinality(A) - Cardinality(N \cap A)
  BY <1>4, FS_Union
<1>10. /\ Paging!Repeated(g) = Len(g) - Cardinality(N)
       /\ Paging!Repeated(g \o p) = Len(g) + k - Cardinality(N \cup A)
  <2>1. Paging!Repeated(g) = Len(g) - Cardinality(N)
    BY PagesCount DEF Paging!Repeated, N
  <2>2. Paging!Repeated(g \o p) = Len(g \o p) - Cardinality(Paging!Names(g \o p))
    BY PagesCount DEF Paging!Repeated
  <2>3. Len(g \o p) = Len(g) + k
    BY <1>2
  <2>4. Cardinality(Paging!Names(g \o p)) = Cardinality(N \cup A)
    BY <1>2, Zenon
  <2>5. Cardinality(N \cup A) \in Nat
    BY <1>4, FS_Union, FS_CardinalityType, Zenon
  <2>6. k \in Nat /\ Len(g) \in Nat
    BY <1>1
  <2> HIDE DEF k
  <2> QED
    BY <2>1, <2>2, <2>3, <2>4, <2>5, <2>6
<1>11. Paging!Repeated(g \o p) + Cardinality(B) = Paging!Repeated(g) + Cardinality(C)
  <2> HIDE DEF k
  <2> QED
    BY <1>1, <1>4, <1>7, <1>8, <1>9, <1>10
<1>12. MissedBy(s, g \o p, m + k, gone) \subseteq MissedBy(s, g, m, gone)
  <2> SUFFICES ASSUME NEW x \in MissedBy(s, g \o p, m + k, gone) PROVE x \in MissedBy(s, g, m, gone)
    OBVIOUS
  <2>1. x \in 1..Len(ItemSizes) /\ x \notin N /\ x \notin A
    BY <1>2 DEF MissedBy
  <2>2. CASE x \in gone
    BY <2>1, <2>2 DEF MissedBy, N
  <2>3. CASE x \notin gone
    <3>1. PICK i \in 1..Len(s) : i <= m + k /\ s[i].name = x
      BY <2>3 DEF MissedBy
    <3>2. ~(i > m)
      <4> SUFFICES ASSUME i > m PROVE FALSE
        OBVIOUS
      <4>1. i - m \in 1..k /\ m + (i - m) = i
        BY <1>1, <3>1
      <4> QED
        BY <1>5, <2>1, <3>1, <4>1, Zenon
    <3>3. i <= m
      BY <1>1, <3>2
    <3> QED
      BY <2>1, <3>1, <3>3 DEF MissedBy, N
  <2> QED
    BY <2>2, <2>3
<1> QED
  BY <1>2, <1>11, <1>12 DEF B, C, k

\* The source without its i-th item, and with x in front of it.
WithoutItem(s, i) == SubSeq(s, 1, i - 1) \o SubSeq(s, i + 1, Len(s))
WithItem(s, i, x) == SubSeq(s, 1, i - 1) \o <<x>> \o SubSeq(s, i, Len(s))

\* Every item is where it was, or one nearer.
LEMMA WithoutIs ==
  ASSUME NEW s \in Seq(Items), NEW i \in 1..Len(s)
  PROVE  /\ WithoutItem(s, i) \in Seq(Items) /\ Len(WithoutItem(s, i)) = Len(s) - 1
         /\ \A j \in 1..(i - 1) : WithoutItem(s, i)[j] = s[j]
         /\ \A j \in i..(Len(s) - 1) : WithoutItem(s, i)[j] = s[j + 1]
<1>1. Len(s) \in Nat
  BY LenProperties
<1> DEFINE t == WithoutItem(s, i)
<1>2. t = RemoveAt(s, i)
  BY DEF WithoutItem, RemoveAt
<1> HIDE DEF t
<1>3. /\ t \in Seq(Items) /\ Len(t) = Len(s) - 1
      /\ \A j \in 1..(Len(s) - 1) : t[j] = IF j < i THEN s[j] ELSE s[j + 1]
  BY <1>2, RemoveAtElements, Zenon
<1>4. \A j \in 1..(i - 1) : j \in 1..(Len(s) - 1) /\ j < i
  BY <1>1
<1>5. \A j \in i..(Len(s) - 1) : j \in 1..(Len(s) - 1) /\ ~(j < i)
  BY <1>1
<1> QED
  BY <1>3, <1>4, <1>5, Zenon DEF t

\* Every item is where it was, or one further.
LEMMA WithIs ==
  ASSUME NEW s \in Seq(Items), NEW i \in 1..(Len(s) + 1), NEW x \in Items
  PROVE  /\ WithItem(s, i, x) \in Seq(Items) /\ Len(WithItem(s, i, x)) = Len(s) + 1
         /\ \A j \in 1..(i - 1) : WithItem(s, i, x)[j] = s[j]
         /\ WithItem(s, i, x)[i] = x
         /\ \A j \in (i + 1)..(Len(s) + 1) : WithItem(s, i, x)[j] = s[j - 1]
<1> DEFINE a == SubSeq(s, 1, i - 1)
           b == SubSeq(s, i, Len(s))
           u == a \o <<x>>
           t == u \o b
<1>1. Len(s) \in Nat /\ i \in Nat /\ i >= 1 /\ i <= Len(s) + 1
  BY LenProperties
<1>2. a \in Seq(Items) /\ Len(a) = i - 1 /\ \A j \in 1..(i - 1) : a[j] = s[j]
  <2>1. i - 1 \in 0..Len(s)
    BY <1>1
  <2> QED
    BY <2>1, FrontOf
<1>3. b \in Seq(Items) /\ Len(b) = Len(s) - (i - 1) /\ \A j \in 1..(Len(s) - (i - 1)) : b[j] = s[(i - 1) + j]
  <2>1. i - 1 \in 0..Len(s) /\ (i - 1) + 1 = i
    BY <1>1
  <2>2. b = SubSeq(s, (i - 1) + 1, Len(s))
    BY <2>1
  <2> HIDE DEF b
  <2> QED
    BY <2>1, <2>2, BackOf
<1>4. <<x>> \in Seq(Items) /\ Len(<<x>>) = 1 /\ <<x>>[1] = x
  OBVIOUS
<1> HIDE DEF a, b
<1>5. /\ u \in Seq(Items) /\ Len(u) = Len(a) + Len(<<x>>)
      /\ \A j \in 1..Len(a) : u[j] = a[j]
      /\ \A j \in 1..Len(<<x>>) : u[Len(a) + j] = <<x>>[j]
  <2>1. a \in Seq(Items) /\ <<x>> \in Seq(Items)
    BY <1>2, <1>4
  <2> QED
    BY <2>1, JoinIs
<1>6. u \in Seq(Items) /\ Len(u) = i /\ u[i] = x /\ \A j \in 1..(i - 1) : u[j] = s[j]
  <2> HIDE DEF u
  <2>1. u \in Seq(Items) /\ Len(u) = i
    BY <1>1, <1>2, <1>4, <1>5
  <2>2. \A j \in 1..(i - 1) : u[j] = s[j]
    BY <1>2, <1>5
  <2>3. u[Len(a) + 1] = x
    BY <1>4, <1>5
  <2> QED
    BY <1>1, <1>2, <2>1, <2>2, <2>3
<1> HIDE DEF u
<1>7. /\ t \in Seq(Items) /\ Len(t) = Len(u) + Len(b)
      /\ \A j \in 1..Len(u) : t[j] = u[j]
      /\ \A j \in 1..Len(b) : t[Len(u) + j] = b[j]
  <2>1. u \in Seq(Items) /\ b \in Seq(Items)
    BY <1>3, <1>6
  <2> QED
    BY <2>1, JoinIs
<1> HIDE DEF t
<1>8. t \in Seq(Items) /\ Len(t) = Len(s) + 1
  BY <1>1, <1>3, <1>6, <1>7
<1>9. t[i] = x /\ \A j \in 1..(i - 1) : t[j] = s[j]
  BY <1>1, <1>6, <1>7
<1>10. ASSUME NEW j \in (i + 1)..(Len(s) + 1) PROVE t[j] = s[j - 1]
  <2>1. j - i \in 1..(Len(s) - (i - 1)) /\ i + (j - i) = j /\ (i - 1) + (j - i) = j - 1
    BY <1>1
  <2>2. t[i + (j - i)] = b[j - i]
    BY <1>3, <1>6, <1>7, <2>1
  <2>3. b[j - i] = s[(i - 1) + (j - i)]
    BY <1>3, <2>1, Zenon
  <2> QED
    BY <2>1, <2>2, <2>3
<1> QED
  BY <1>8, <1>9, <1>10, Zenon DEF t, u, a, b, WithItem

\* What is ahead is some of what was handed out.
LEMMA AheadIsFinite ==
  ASSUME NEW s, NEW g \in Seq(Items), NEW m
  PROVE  IsFiniteSet(AheadOf(s, g, m)) /\ Cardinality(AheadOf(s, g, m)) \in Nat
<1>1. AheadOf(s, g, m) \in SUBSET Paging!Names(g)
  BY DEF AheadOf
<1>2. IsFiniteSet(AheadOf(s, g, m))
  BY <1>1, NamesAreFinite, FS_Subset
<1> QED
  BY <1>2, FS_CardinalityType

\* What is missed is some of the first items.
LEMMA MissedIsFinite ==
  ASSUME NEW s, NEW g, NEW m, NEW gone
  PROVE  /\ IsFiniteSet(MissedBy(s, g, m, gone)) /\ Cardinality(MissedBy(s, g, m, gone)) \in Nat
<1>1. IsFiniteSet(1..Len(ItemSizes))
  <2>1. Len(ItemSizes) \in Nat
    BY ItemsHaveSizes, LenProperties DEF Paging!PagesAssumption
  <2>2. 1 \in Int /\ Len(ItemSizes) \in Int
    BY <2>1
  <2> QED
    BY <2>2, FS_Interval
<1>2. MissedBy(s, g, m, gone) \in SUBSET (1..Len(ItemSizes))
  BY DEF MissedBy
<1>3. IsFiniteSet(MissedBy(s, g, m, gone))
  BY <1>1, <1>2, FS_Subset
<1> QED
  BY <1>3, FS_CardinalityType

\* Whoever removes an item adds one that may be missed, and none that is ahead.
LEMMA RemovalMisses ==
  ASSUME NEW s \in Seq(Items), NEW i \in 1..Len(s), NEW g \in Seq(Items), NEW m \in Nat, NEW gone
  PROVE  /\ Cardinality(AheadOf(WithoutItem(s, i), g, m)) <= Cardinality(AheadOf(s, g, m))
         /\ Cardinality(MissedBy(WithoutItem(s, i), g, m, gone \cup {s[i].name}))
              <= Cardinality(MissedBy(s, g, m, gone)) + 1
<1> DEFINE t == WithoutItem(s, i)
           C == MissedBy(s, g, m, gone)
           D == MissedBy(t, g, m, gone \cup {s[i].name})
<1>1. Len(s) \in Nat
  BY LenProperties
<1>2. /\ Len(t) = Len(s) - 1
      /\ \A j \in 1..(i - 1) : t[j] = s[j]
      /\ \A j \in i..(Len(s) - 1) : t[j] = s[j + 1]
  BY WithoutIs
<1> HIDE DEF t
<1>3. AheadOf(t, g, m) \subseteq AheadOf(s, g, m)
  <2> SUFFICES ASSUME NEW x \in Paging!Names(g), NEW j \in 1..Len(t), j > m, t[j].name = x
               PROVE  \E k \in 1..Len(s) : k > m /\ s[k].name = x
    BY DEF AheadOf
  <2>1. CASE j < i
    <3>1. j \in 1..(i - 1) /\ j \in 1..Len(s)
      BY <1>1, <1>2, <2>1
    <3> QED
      BY <1>2, <3>1
  <2>2. CASE ~(j < i)
    <3>1. j \in i..(Len(s) - 1) /\ j + 1 \in 1..Len(s) /\ j + 1 > m
      BY <1>1, <1>2, <2>2
    <3> QED
      BY <1>2, <3>1, Zenon
  <2> QED
    BY <2>1, <2>2
<1>4. Cardinality(AheadOf(t, g, m)) <= Cardinality(AheadOf(s, g, m))
  <2>1. AheadOf(t, g, m) \in SUBSET AheadOf(s, g, m)
    BY <1>3
  <2> QED
    BY <2>1, AheadIsFinite, FS_Subset
<1>5. \E x : D \subseteq C \cup {x}
  <2>1. CASE i <= m
    <3> SUFFICES D \subseteq C \cup {s[m + 1].name}
      BY Zenon
    <3> SUFFICES ASSUME NEW x \in D PROVE x \in C \/ x = s[m + 1].name
      BY Zenon
    <3>1. /\ x \in 1..Len(ItemSizes) /\ x \notin Paging!Names(g)
          /\ x \in gone \/ x = s[i].name \/ \E j \in 1..Len(t) : j <= m /\ t[j].name = x
      BY DEF MissedBy
    <3>2. CASE x \in gone
      BY <3>1, <3>2 DEF MissedBy
    <3>3. CASE x = s[i].name
      BY <2>1, <3>1, <3>3 DEF MissedBy
    <3>4. ASSUME NEW j \in 1..Len(t), j <= m, t[j].name = x
          PROVE  x \in C \/ x = s[m + 1].name
      <4>1. CASE j < i
        <5>1. j \in 1..(i - 1) /\ j \in 1..Len(s)
          BY <1>1, <1>2, <4>1
        <5>2. s[j].name = x
          BY <1>2, <3>4, <5>1
        <5> QED
          BY <3>1, <3>4, <5>1, <5>2 DEF MissedBy
      <4>2. CASE ~(j < i)
        <5>1. j \in i..(Len(s) - 1) /\ j + 1 \in 1..Len(s)
          BY <1>1, <1>2, <4>2
        <5>2. s[j + 1].name = x
          BY <1>2, <3>4, <5>1
        <5>3. j = m \/ j + 1 <= m
          BY <3>4
        <5> QED
          BY <3>1, <5>1, <5>2, <5>3 DEF MissedBy
      <4> QED
        BY <4>1, <4>2
    <3> QED
      BY <3>1, <3>2, <3>3, <3>4
  <2>2. CASE ~(i <= m)
    <3> SUFFICES D \subseteq C \cup {s[i].name}
      BY Zenon
    <3> SUFFICES ASSUME NEW x \in D, x # s[i].name PROVE x \in C
      BY Zenon
    <3>1. /\ x \in 1..Len(ItemSizes) /\ x \notin Paging!Names(g)
          /\ x \in gone \/ \E j \in 1..Len(t) : j <= m /\ t[j].name = x
      BY DEF MissedBy
    <3>2. CASE x \in gone
      BY <3>1, <3>2 DEF MissedBy
    <3>3. ASSUME NEW j \in 1..Len(t), j <= m, t[j].name = x PROVE x \in C
      <4>1. j \in 1..(i - 1) /\ j \in 1..Len(s)
        BY <1>1, <1>2, <2>2, <3>3
      <4>2. s[j].name = x
        BY <1>2, <3>3, <4>1
      <4> QED
        BY <3>1, <3>3, <4>1, <4>2 DEF MissedBy
    <3> QED
      BY <3>1, <3>2, <3>3
  <2> QED
    BY <2>1, <2>2, Zenon
<1>6. Cardinality(D) <= Cardinality(C) + 1
  <2>1. IsFiniteSet(C)
    BY MissedIsFinite
  <2> HIDE DEF C, D
  <2> QED
    BY <1>5, <2>1, OneElementMore, Zenon
<1> QED
  BY <1>4, <1>6 DEF t

\* Whoever inserts one pushes one at most ahead, and nothing behind.
LEMMA InsertionRepeats ==
  ASSUME NEW s \in Seq(Items), NEW i \in 1..(Len(s) + 1), NEW g \in Seq(Items), NEW m \in Nat,
         NEW gone, NEW x \in Items, x.name \notin Paging!Names(g), x.name \notin 1..Len(ItemSizes)
  PROVE  /\ Cardinality(AheadOf(WithItem(s, i, x), g, m)) <= Cardinality(AheadOf(s, g, m)) + 1
         /\ Cardinality(MissedBy(WithItem(s, i, x), g, m, gone)) <= Cardinality(MissedBy(s, g, m, gone))
<1> DEFINE t == WithItem(s, i, x)
           C == AheadOf(s, g, m)
           D == AheadOf(t, g, m)
<1>1. Len(s) \in Nat
  BY LenProperties
<1>2. /\ Len(t) = Len(s) + 1
      /\ \A j \in 1..(i - 1) : t[j] = s[j]
      /\ t[i] = x
      /\ \A j \in (i + 1)..(Len(s) + 1) : t[j] = s[j - 1]
  BY WithIs
<1> HIDE DEF t
<1>3. D \subseteq C \cup {s[m].name}
  <2> SUFFICES ASSUME NEW y \in Paging!Names(g), NEW j \in 1..Len(t), j > m, t[j].name = y, y # s[m].name
               PROVE  \E k \in 1..Len(s) : k > m /\ s[k].name = y
    BY Zenon DEF AheadOf
  <2>1. CASE j < i
    <3>1. j \in 1..(i - 1) /\ j \in 1..Len(s)
      BY <1>1, <1>2, <2>1
    <3> QED
      BY <1>2, <3>1
  <2>2. CASE j = i
    BY <1>2, <2>2
  <2>3. CASE j > i
    <3>1. j \in (i + 1)..(Len(s) + 1) /\ j - 1 \in 1..Len(s)
      BY <1>1, <1>2, <2>3
    <3>2. s[j - 1].name = y
      BY <1>2, <3>1
    <3>3. j - 1 > m \/ j - 1 = m
      OBVIOUS
    <3> QED
      BY <3>1, <3>2, <3>3, Zenon
  <2> QED
    BY <2>1, <2>2, <2>3
<1>4. Cardinality(D) <= Cardinality(C) + 1
  <2>1. IsFiniteSet(C)
    BY AheadIsFinite
  <2> HIDE DEF C, D
  <2> QED
    BY <1>3, <2>1, OneElementMore, Zenon
<1>5. MissedBy(t, g, m, gone) \subseteq MissedBy(s, g, m, gone)
  <2> SUFFICES ASSUME NEW y \in 1..Len(ItemSizes), y \notin Paging!Names(g), y \notin gone,
                      NEW j \in 1..Len(t), j <= m, t[j].name = y
               PROVE  \E k \in 1..Len(s) : k <= m /\ s[k].name = y
    BY Zenon DEF MissedBy
  <2>1. CASE j < i
    <3>1. j \in 1..(i - 1) /\ j \in 1..Len(s)
      BY <1>1, <1>2, <2>1
    <3> QED
      BY <1>2, <3>1
  <2>2. CASE j = i
    BY <1>2, <2>2
  <2>3. CASE j > i
    <3>1. j \in (i + 1)..(Len(s) + 1) /\ j - 1 \in 1..Len(s) /\ j - 1 <= m
      BY <1>1, <1>2, <2>3
    <3> QED
      BY <1>2, <3>1
  <2> QED
    BY <2>1, <2>2, <2>3
<1>6. Cardinality(MissedBy(t, g, m, gone)) <= Cardinality(MissedBy(s, g, m, gone))
  <2>1. MissedBy(t, g, m, gone) \in SUBSET MissedBy(s, g, m, gone)
    BY <1>5
  <2> QED
    BY <2>1, MissedIsFinite, FS_Subset
<1> QED
  BY <1>4, <1>6 DEF t

\* The names that items had, when come is what came.
EverNamed(come) == 1..(Len(ItemSizes) + Cardinality(come))

\* The names of the items s: each once, all that did not go, those that came behind them.
SourceIsRight(s, gone, come) ==
  /\ s \in Seq(Items) /\ Distinct(s)
  /\ IsFiniteSet(gone) /\ IsFiniteSet(come)
  /\ gone \subseteq EverNamed(come)
  /\ \A i \in 1..Len(s) : s[i].name \in EverNamed(come) \ gone
  /\ \A x \in 1..Len(ItemSizes) : x \in gone \/ \E i \in 1..Len(s) : s[i].name = x
  /\ \A x \in come : x \in EverNamed(come) /\ x > Len(ItemSizes)

\* The pages g, of which the last ends with the item m.
AreCounted(s, gone, come, g, m) ==
  /\ g \in Seq(Items) /\ Len(g) = m
  /\ Paging!Names(g) \subseteq EverNamed(come)
  /\ Paging!Repeated(g) + Cardinality(AheadOf(s, g, m)) <= Cardinality(come)
  /\ Cardinality(MissedBy(s, g, m, gone)) <= Cardinality(gone)

\* g are the first items of s.
IsBeginning(s, g) == Len(g) <= Len(s) /\ \A i \in 1..Len(g) : g[i] = s[i]

\* How many items end within so many bytes.
Lines(bytes) == Paging!Max({k \in 0..Len(source) : Paging!EndOf[k] <= bytes})

\* A walk has passed position items, a body ended as many lines.
WalkIsRight ==
  /\ ~guard /\ total = Paging!None
  /\ position \in 0..Len(source)
  /\ Len(page) = IF position <= offset THEN 0
                 ELSE IF position - offset <= take THEN position - offset ELSE take
  /\ kind # "url" => (more <=> position > offset + take)
  /\ kind = "url" =>
       /\ ~more /\ position <= offset + take
       /\ bytesRead <= MaxUrlBytes /\ position = Lines(bytesRead)

\* In the middle of a page.
ReadingIsRight ==
  /\ AreCounted(source, removed, inserted, got, offset)
  /\ Paging!Unchanged => IsBeginning(source, got) /\ (offset < Len(source) \/ offset = 0)
  /\ IsPart(source, offset, page)
  /\ WalkIsRight

\* At its end.
FinishedIsRight ==
  LET all == got \o page IN
  /\ AreCounted(source, removed, inserted, all, offset + Len(page))
  /\ Paging!Unchanged =>
       /\ IsBeginning(source, all)
       /\ Paging!Truncated => Len(all) < Len(source) /\ (Len(page) = take \/ guard)
       /\ ~Paging!Truncated => Len(all) = Len(source)
       /\ total # Paging!None => total = Len(source)
  /\ ~Paging!Truncated =>
       Cardinality((1..Len(ItemSizes)) \ Paging!Names(all)) <= Cardinality(removed)

\* After an abort.
AbortedIsRight ==
  LET all == got \o page IN
  /\ all \in Seq(Items) /\ Paging!Repeated(all) <= Cardinality(inserted)
  /\ Paging!Unchanged => IsBeginning(source, all)

PagingInv ==
  /\ kind \in Paging!Kinds /\ phase \in {"reading", "finished", "aborted"}
  /\ more \in BOOLEAN /\ guard \in BOOLEAN
  /\ take \in Nat /\ offset \in Nat /\ position \in Nat /\ bytesRead \in Nat
  /\ got \in Seq(Items) /\ page \in Seq(Items) /\ Len(got) = offset
  /\ Len(page) <= take
  /\ SourceIsRight(source, removed, inserted)
  /\ phase = "reading" => ReadingIsRight
  /\ phase = "finished" => FinishedIsRight
  /\ phase = "aborted" => AbortedIsRight

-----------------------------------------------------------------------------

\* Every item has a byte at least.
LEMMA EndOfIs ==
  ASSUME source \in Seq(Items)
  PROVE  /\ Paging!EndOf[0] = 0
         /\ \A k \in 0..Len(source) : Paging!EndOf[k] \in Nat /\ k <= Paging!EndOf[k]
<1> DEFINE L == Len(source)
           step == [k \in 1..L |-> [sum \in Nat |-> sum + source[k].size]]
           Is(f) == f = [k \in 0..L |-> IF k = 0 THEN 0 ELSE f[k - 1] + source[k].size]
<1>0. L \in Nat /\ \A k \in 1..L : source[k].size \in Nat \ {0}
  <2>1. \A k \in 1..L : source[k] \in Items
    BY LenProperties, ElementOfSeq
  <2> QED
    BY <2>1, LenProperties DEF Items
<1>2. step \in FoldSteps(L, Nat)
  BY <1>0 DEF FoldSteps
<1>3. PICK f \in [0..L -> Nat] : f[0] = 0 /\ \A k \in 1..L : f[k] = step[k][f[k - 1]]
  <2>1. Folds(L, Nat, 0, step) # {}
    <3> HIDE DEF L, step
    <3> QED
      BY <1>0, <1>2, FoldIsDefined, Zenon
  <2> HIDE DEF L, step
  <2> QED
    BY <2>1 DEF Folds
<1>4. \A k \in 1..L : f[k] = f[k - 1] + source[k].size
  <2> SUFFICES ASSUME NEW k \in 1..L PROVE f[k] = f[k - 1] + source[k].size
    BY Zenon
  <2>1. f[k] = step[k][f[k - 1]]
    BY <1>3
  <2>2. k - 1 \in 0..L
    BY <1>0
  <2>3. f[k - 1] \in Nat
    BY <2>2
  <2>4. step[k][f[k - 1]] = f[k - 1] + source[k].size
    BY <2>3
  <2> QED
    BY <2>1, <2>4
<1>5. Is(f)
  <2> DEFINE g == [k \in 0..L |-> IF k = 0 THEN 0 ELSE f[k - 1] + source[k].size]
  <2>1. \A k \in 0..L : f[k] = g[k]
    BY <1>0, <1>3, <1>4
  <2>2. f = g
    BY <1>3, <2>1
  <2> QED
    BY <2>2, Zenon
<1>6. Paging!EndOf = CHOOSE g : Is(g)
  BY DEF Paging!EndOf
<1>7. Is(Paging!EndOf)
  <2> HIDE DEF Is
  <2> QED
    BY <1>5, <1>6
<1> DEFINE E == Paging!EndOf
<1>8. \A k \in 0..L : E[k] = IF k = 0 THEN 0 ELSE E[k - 1] + source[k].size
  BY <1>7, Zenon
<1> HIDE DEF E, L
<1> DEFINE G == {n \in Nat : n <= L => E[n] \in Nat /\ n <= E[n]}
<1>9. 0 \in G /\ E[0] = 0
  BY <1>0, <1>8
<1>10. ASSUME NEW n \in Nat, n \in G PROVE n + 1 \in G
  <2> SUFFICES ASSUME n + 1 <= L PROVE E[n + 1] \in Nat /\ n + 1 <= E[n + 1]
    OBVIOUS
  <2>1. n + 1 \in 0..L /\ n + 1 \in 1..L /\ E[n] \in Nat /\ n <= E[n]
    BY <1>0, <1>10
  <2>2. E[n + 1] = E[(n + 1) - 1] + source[n + 1].size /\ (n + 1) - 1 = n
    BY <1>8, <2>1
  <2>3. source[n + 1].size \in Nat \ {0}
    BY <1>0, <2>1
  <2>4. E[n + 1] = E[n] + source[n + 1].size
    BY <2>2
  <2> QED
    BY <2>1, <2>3, <2>4
<1>11. \A n \in Nat : n \in G
  <2> HIDE DEF G
  <2>1. \A n \in Nat : n \in G => n + 1 \in G
    BY <1>10
  <2> QED
    BY <1>9, <2>1, CountingUp, Zenon
<1>12. \A k \in 0..L : E[k] \in Nat /\ k <= E[k]
  BY <1>0, <1>11
<1> QED
  BY <1>9, <1>12 DEF E, L

\* The lines within so many bytes are those that end there.
LEMMA LinesAre ==
  ASSUME source \in Seq(Items), NEW bytes \in Nat
  PROVE  /\ Lines(bytes) \in 0..Len(source) /\ Paging!EndOf[Lines(bytes)] <= bytes
         /\ \A k \in 0..Len(source) : Paging!EndOf[k] <= bytes => k <= Lines(bytes)
         /\ bytes = 0 => Lines(bytes) = 0
<1> DEFINE E == Paging!EndOf
           S == {k \in 0..Len(source) : E[k] <= bytes}
           T == {n \in Nat : n <= Len(source) /\ Len(source) - n \in S}
<1>1. Len(source) \in Nat
  BY LenProperties
<1>2. E[0] = 0 /\ \A k \in 0..Len(source) : E[k] \in Nat /\ k <= E[k]
  BY EndOfIs
<1> HIDE DEF E
<1>3. Len(source) \in T
  BY <1>1, <1>2
<1>4. PICK m \in T : \A n \in T : m <= n
  <2>1. T \subseteq Nat /\ T # {}
    BY <1>3
  <2> HIDE DEF T
  <2> QED
    BY <2>1, LeastNumber, Zenon
<1>5. \A k \in S : k <= Len(source) - m
  <2> SUFFICES ASSUME NEW k \in S PROVE k <= Len(source) - m
    OBVIOUS
  <2>1. Len(source) - k \in T
    BY <1>1
  <2>2. m \in Nat /\ k \in Nat
    OBVIOUS
  <2>3. m <= Len(source) - k
    <3> HIDE DEF T
    <3> QED
      BY <1>4, <2>1
  <2> QED
    BY <1>1, <2>2, <2>3
<1>6. Len(source) - m \in S /\ \A k \in S : Len(source) - m >= k
  <2>1. m \in Nat /\ Len(source) - m \in S
    <3>1. m \in T
      <4> HIDE DEF T
      <4> QED
        BY <1>4
    <3> HIDE DEF S
    <3> QED
      BY <3>1
  <2>2. \A k \in S : k \in Nat
    OBVIOUS
  <2> HIDE DEF S, T
  <2> QED
    BY <1>1, <1>5, <2>1, <2>2
<1> HIDE DEF S
<1>7. Lines(bytes) = CHOOSE x \in S : \A y \in S : x >= y
  <2>1. Lines(bytes) = Paging!Max(S)
    BY DEF Lines, S, E
  <2> QED
    BY <2>1 DEF Paging!Max
<1>8. Lines(bytes) \in S /\ \A k \in S : Lines(bytes) >= k
  BY <1>6, <1>7
<1>9. Lines(bytes) \in 0..Len(source) /\ E[Lines(bytes)] <= bytes
  BY <1>8 DEF S
<1>10. \A k \in 0..Len(source) : E[k] <= bytes => k <= Lines(bytes)
  BY <1>1, <1>8, <1>9 DEF S
<1>11. bytes = 0 => Lines(bytes) = 0
  BY <1>1, <1>2, <1>9
<1> QED
  BY <1>9, <1>10, <1>11 DEF E

\* What changes only by removals and insertions.
sourceVars == <<kind, source, removed, inserted>>

\* What was counted, with the page at hand.
LEMMA PageCounts ==
  ASSUME NEW s, NEW gone, NEW come, SourceIsRight(s, gone, come), NEW g, NEW m \in Nat,
         AreCounted(s, gone, come, g, m), NEW p, IsPart(s, m, p)
  PROVE  /\ AreCounted(s, gone, come, g \o p, m + Len(p))
         /\ Paging!Repeated(g \o p) <= Cardinality(come)
<1> DEFINE k == m + Len(p)
<1>1. /\ s \in Seq(Items) /\ Distinct(s) /\ g \in Seq(Items) /\ Len(g) = m /\ p \in Seq(Items)
      /\ Paging!Names(g) \subseteq EverNamed(come)
      /\ Paging!Repeated(g) + Cardinality(AheadOf(s, g, m)) <= Cardinality(come)
      /\ Cardinality(MissedBy(s, g, m, gone)) <= Cardinality(gone)
      /\ IsFiniteSet(gone) /\ IsFiniteSet(come)
  BY DEF SourceIsRight, AreCounted, IsPart
<1>2. /\ Paging!Repeated(g \o p) + Cardinality(AheadOf(s, g \o p, k))
           = Paging!Repeated(g) + Cardinality(AheadOf(s, g, m))
      /\ MissedBy(s, g \o p, k, gone) \subseteq MissedBy(s, g, m, gone)
      /\ g \o p \in Seq(Items)
  BY <1>1, PageAdds
<1>3. Len(g \o p) = k /\ Paging!Names(g \o p) = Paging!Names(g) \cup Paging!Names(p)
  BY <1>1, JoinIs, NamesOfBoth, Zenon
<1>4. Paging!Names(p) \subseteq EverNamed(come)
  <2>1. Len(s) \in Nat /\ Len(p) \in Nat
    BY <1>1, LenProperties
  <2>2. \A i \in 1..Len(p) : p[i] = s[m + i]
    BY DEF IsPart
  <2>3. Len(p) = 0 \/ m + Len(p) <= Len(s)
    BY EmptySeq DEF IsPart
  <2>4. \A i \in 1..Len(p) : m + i \in 1..Len(s)
    BY <2>1, <2>3
  <2>5. \A i \in 1..Len(s) : s[i].name \in EverNamed(come)
    BY DEF SourceIsRight
  <2>6. \A i \in 1..Len(p) : p[i].name \in EverNamed(come)
    BY <2>2, <2>4, <2>5, Zenon
  <2> QED
    BY <1>1, <2>6, NamesAre
<1>5. /\ Cardinality(AheadOf(s, g \o p, k)) \in Nat
      /\ Cardinality(gone) \in Nat /\ Cardinality(come) \in Nat
      /\ Cardinality(MissedBy(s, g, m, gone)) \in Nat /\ Cardinality(MissedBy(s, g \o p, k, gone)) \in Nat
  BY <1>1, <1>2, AheadIsFinite, MissedIsFinite, FS_CardinalityType, Zenon
<1>6. Cardinality(MissedBy(s, g \o p, k, gone)) <= Cardinality(MissedBy(s, g, m, gone))
  <2>1. MissedBy(s, g \o p, k, gone) \in SUBSET MissedBy(s, g, m, gone)
    BY <1>2
  <2> QED
    BY <2>1, MissedIsFinite, FS_Subset
<1>7. Cardinality(MissedBy(s, g \o p, k, gone)) <= Cardinality(gone)
  BY <1>1, <1>5, <1>6
<1>8. Paging!Repeated(g \o p) \in Int
  <2>1. Len(g \o p) \in Nat /\ Cardinality(Paging!Names(g \o p)) \in Nat
    BY <1>2, NamesAreFinite, LenProperties, Zenon
  <2> QED
    BY <2>1, PagesCount DEF Paging!Repeated
<1> HIDE DEF k
<1>9. Paging!Repeated(g \o p) + Cardinality(AheadOf(s, g \o p, k)) <= Cardinality(come)
  BY <1>1, <1>2
<1>10. Paging!Repeated(g \o p) <= Cardinality(come)
  BY <1>5, <1>8, <1>9
<1>11. Paging!Names(g \o p) \subseteq EverNamed(come)
  BY <1>1, <1>3, <1>4
<1>12. AreCounted(s, gone, come, g \o p, k)
  BY <1>2, <1>3, <1>7, <1>9, <1>11 DEF AreCounted
<1> QED
  BY <1>10, <1>12 DEF k

\* A page behind a beginning of the source makes a longer one.
LEMMA BeginningGrows ==
  ASSUME NEW s \in Seq(Items), NEW g \in Seq(Items), IsBeginning(s, g), NEW p, IsPart(s, Len(g), p)
  PROVE  IsBeginning(s, g \o p) /\ Len(g \o p) = Len(g) + Len(p)
<1>1. /\ p \in Seq(Items) /\ Len(p) \in Nat /\ Len(g) \in Nat /\ Len(s) \in Nat
      /\ \A i \in 1..Len(p) : p[i] = s[Len(g) + i]
      /\ Len(p) = 0 \/ Len(g) + Len(p) <= Len(s)
  BY LenProperties, EmptySeq DEF IsPart
<1> DEFINE q == g \o p
<1>2. /\ Len(q) = Len(g) + Len(p)
      /\ \A i \in 1..Len(g) : q[i] = g[i]
      /\ \A i \in 1..Len(p) : q[Len(g) + i] = p[i]
  BY <1>1, JoinIs
<1> HIDE DEF q
<1>3. Len(g) <= Len(s) /\ \A i \in 1..Len(g) : g[i] = s[i]
  BY DEF IsBeginning
<1>4. Len(q) <= Len(s)
  BY <1>1, <1>2, <1>3
<1>5. ASSUME NEW i \in 1..Len(q) PROVE q[i] = s[i]
  <2>1. CASE i <= Len(g)
    <3>1. i \in 1..Len(g)
      BY <1>1, <2>1
    <3> QED
      BY <1>2, <1>3, <3>1
  <2>2. CASE ~(i <= Len(g))
    <3>1. i - Len(g) \in 1..Len(p) /\ Len(g) + (i - Len(g)) = i
      BY <1>1, <1>2, <2>2
    <3>2. q[Len(g) + (i - Len(g))] = p[i - Len(g)]
      BY <1>2, <3>1
    <3> QED
      BY <1>1, <3>1, <3>2
  <2> QED
    BY <2>1, <2>2
<1> QED
  BY <1>2, <1>4, <1>5 DEF q, IsBeginning

\* At the end of the source what was missed are the items that went.
LEMMA MissedAtTheEnd ==
  ASSUME NEW s, NEW gone, NEW come, SourceIsRight(s, gone, come), NEW g, NEW m \in Nat,
         AreCounted(s, gone, come, g, m), m >= Len(s)
  PROVE  Cardinality((1..Len(ItemSizes)) \ Paging!Names(g)) <= Cardinality(gone)
<1>1. Len(s) \in Nat /\ \A i \in 1..Len(s) : i <= m
  <2>1. Len(s) \in Nat
    BY LenProperties DEF SourceIsRight
  <2> QED
    BY <2>1
<1>2. \A x \in 1..Len(ItemSizes) : x \in gone \/ \E i \in 1..Len(s) : s[i].name = x
  BY DEF SourceIsRight
<1>3. (1..Len(ItemSizes)) \ Paging!Names(g) = MissedBy(s, g, m, gone)
  BY <1>1, <1>2 DEF MissedBy
<1> QED
  BY <1>3, Zenon DEF AreCounted

\* A page that ends the reading.
LEMMA Finishing ==
  ASSUME SourceIsRight(source, removed, inserted), offset \in Nat, take \in Nat,
         AreCounted(source, removed, inserted, got, offset),
         Paging!Unchanged => IsBeginning(source, got),
         NEW p, IsPart(source, offset, p), page' = p,
         UNCHANGED <<sourceVars, got, offset, take>>,
         Paging!Truncated' /\ Paging!Unchanged => offset + Len(p) < Len(source) /\ (Len(p) = take \/ guard'),
         ~Paging!Truncated' => offset + Len(p) >= Len(source),
         total' \in {Paging!None, Len(source)}
  PROVE  FinishedIsRight'
<1> DEFINE all == got \o p
<1>1. /\ source' = source /\ removed' = removed /\ inserted' = inserted /\ got' = got
      /\ offset' = offset /\ take' = take /\ page' = p
      /\ Paging!Unchanged' <=> Paging!Unchanged
  BY DEF sourceVars, Paging!Unchanged
<1>2. AreCounted(source, removed, inserted, all, offset + Len(p))
  BY PageCounts
<1>3. /\ got \in Seq(Items) /\ Len(got) = offset /\ source \in Seq(Items) /\ p \in Seq(Items)
      /\ Len(source) \in Nat /\ Len(p) \in Nat
  BY LenProperties DEF AreCounted, SourceIsRight, IsPart
<1>4. Paging!Unchanged => IsBeginning(source, all) /\ Len(all) = offset + Len(p)
  BY <1>3, BeginningGrows, Zenon
<1> HIDE DEF all
<1>5. Paging!Unchanged => Len(all) <= Len(source)
  BY <1>4 DEF IsBeginning
<1>6. Paging!Unchanged /\ ~Paging!Truncated' => Len(all) = Len(source)
  BY <1>3, <1>4, <1>5
<1>7. ~Paging!Truncated' => Cardinality((1..Len(ItemSizes)) \ Paging!Names(all)) <= Cardinality(removed)
  <2> SUFFICES ASSUME ~Paging!Truncated'
               PROVE  Cardinality((1..Len(ItemSizes)) \ Paging!Names(all)) <= Cardinality(removed)
    OBVIOUS
  <2>1. offset + Len(p) \in Nat /\ offset + Len(p) >= Len(source)
    BY <1>3
  <2> QED
    BY <1>2, <2>1, MissedAtTheEnd, Zenon
<1>8. Paging!Unchanged => (total' # Paging!None => total' = Len(source))
  OBVIOUS
<1>9. Paging!Unchanged /\ Paging!Truncated' => Len(all) < Len(source) /\ (Len(p) = take \/ guard')
  BY <1>4
<1>10. got' \o page' = all
  BY <1>1 DEF all
<1> QED
  BY <1>1, <1>2, <1>4, <1>6, <1>7, <1>8, <1>9, <1>10, Zenon DEF FinishedIsRight

\* A reading that goes on.
LEMMA GoingOn ==
  ASSUME ReadingIsRight, NEW p, IsPart(source, offset, p), page' = p,
         UNCHANGED <<sourceVars, got, offset, take>>, WalkIsRight'
  PROVE  ReadingIsRight'
<1>1. /\ source' = source /\ removed' = removed /\ inserted' = inserted /\ got' = got
      /\ offset' = offset /\ page' = p
      /\ Paging!Unchanged' <=> Paging!Unchanged
  BY DEF sourceVars, Paging!Unchanged
<1> QED
  BY <1>1, Zenon DEF ReadingIsRight

\* The beginning.
LEMMA PagingInitially == Paging!Init => PagingInv
<1> SUFFICES ASSUME Paging!Init PROVE PagingInv
  OBVIOUS
<1> DEFINE L == Len(ItemSizes)
<1>1. /\ kind \in Paging!Kinds /\ removed = {} /\ inserted = {}
      /\ source = [i \in 1..L |-> [name |-> i, size |-> ItemSizes[i]]]
      /\ offset = 0 /\ take \in Takes /\ phase = "reading" /\ bytesRead = 0 /\ position = 0
      /\ page = <<>> /\ more = FALSE /\ guard = FALSE /\ total = Paging!None /\ got = <<>>
  BY DEF Paging!Init, Paging!Item
<1>2. L \in Nat /\ (\A i \in 1..L : ItemSizes[i] \in Nat \ {0}) /\ Takes \subseteq Nat /\ MaxUrlBytes \in Nat
  BY ItemsHaveSizes, LenProperties, ElementOfSeq DEF Paging!PagesAssumption
<1> HIDE DEF L
<1>3. source \in Seq(Items) /\ Len(source) = L /\ \A i \in 1..L : source[i].name = i
  <2>1. source \in [1..L -> Items]
    BY <1>1, <1>2 DEF Items
  <2>2. source \in Seq(Items) /\ Len(source) = L
    BY <1>1, <1>2, <2>1
  <2> QED
    BY <1>1, <2>2, Zenon
<1>4. Cardinality({}) = 0 /\ IsFiniteSet({})
  BY FS_EmptySet
<1>5. SourceIsRight(source, removed, inserted)
  <2>1. EverNamed({}) = 1..L
    BY <1>2, <1>4 DEF EverNamed, L
  <2>2. Distinct(source)
    BY <1>3 DEF Distinct
  <2> QED
    BY <1>1, <1>2, <1>3, <1>4, <2>1, <2>2 DEF SourceIsRight, L
<1>6. /\ <<>> \in Seq(Items) /\ Len(<<>>) = 0 /\ Paging!Names(<<>>) = {}
  <2>1. <<>> \in Seq(Items) /\ Len(<<>>) = 0
    BY EmptySeq
  <2>2. \A x : x \in Paging!Names(<<>>) <=> \E i \in 1..Len(<<>>) : <<>>[i].name = x
    BY <2>1, NamesAre, Zenon
  <2> QED
    BY <2>1, <2>2
<1>7. AreCounted(source, removed, inserted, got, offset)
  <2>1. AheadOf(source, <<>>, 0) = {}
    BY <1>6 DEF AheadOf
  <2>2. MissedBy(source, <<>>, 0, {}) = {}
    BY <1>2, <1>3 DEF MissedBy
  <2>3. Paging!Repeated(<<>>) = 0
    BY <1>4, <1>6, PagesCount DEF Paging!Repeated
  <2>4. AreCounted(source, {}, {}, <<>>, 0)
    BY <1>4, <1>6, <2>1, <2>2, <2>3 DEF AreCounted
  <2> QED
    BY <1>1, <2>4
<1>8. IsPart(source, offset, page)
  BY <1>1, <1>6 DEF IsPart
<1>9. Lines(0) = 0
  BY <1>3, LinesAre
<1>10. WalkIsRight
  BY <1>1, <1>2, <1>3, <1>6, <1>9 DEF WalkIsRight
<1>11. IsBeginning(source, got)
  BY <1>1, <1>2, <1>3, <1>6 DEF IsBeginning
<1>12. ReadingIsRight
  BY <1>1, <1>7, <1>8, <1>10, <1>11 DEF ReadingIsRight
<1>13. take \in Nat
  BY <1>1, <1>2
<1> QED
  <2>1. /\ more \in BOOLEAN /\ guard \in BOOLEAN
        /\ take \in Nat /\ offset \in Nat /\ position \in Nat /\ bytesRead \in Nat
    BY <1>1, <1>13, Zenon
  <2>2. got \in Seq(Items) /\ page \in Seq(Items) /\ Len(got) = offset /\ Len(page) <= take
    BY <1>1, <1>6, <1>13
  <2>3. phase = "reading" /\ phase # "finished" /\ phase # "aborted" /\ kind \in Paging!Kinds
    BY <1>1
  <2> QED
    BY <1>5, <1>12, <2>1, <2>2, <2>3 DEF PagingInv

\* What holds of a reading.
LEMMA ReadingFacts ==
  ASSUME PagingInv, phase = "reading"
  PROVE  /\ SourceIsRight(source, removed, inserted) /\ source \in Seq(Items) /\ Len(source) \in Nat
         /\ kind \in Paging!Kinds /\ more \in BOOLEAN /\ guard = FALSE /\ total = Paging!None
         /\ take \in Nat /\ offset \in Nat /\ position \in Nat /\ bytesRead \in Nat
         /\ page \in Seq(Items) /\ Len(page) \in Nat /\ got \in Seq(Items) /\ Len(got) = offset
         /\ ReadingIsRight /\ IsPart(source, offset, page)
         /\ AreCounted(source, removed, inserted, got, offset)
         /\ Paging!Unchanged => IsBeginning(source, got) /\ (offset < Len(source) \/ offset = 0)
<1>1. guard \in BOOLEAN /\ ReadingIsRight
  BY DEF PagingInv
<1>2. guard = FALSE /\ total = Paging!None
  BY <1>1 DEF ReadingIsRight, WalkIsRight
<1> QED
  BY <1>1, <1>2, LenProperties DEF PagingInv, SourceIsRight, ReadingIsRight

\* A page with one item more.
LEMMA OnePartMore ==
  ASSUME NEW s \in Seq(Items), NEW m \in Nat, NEW p, IsPart(s, m, p), m + Len(p) < Len(s)
  PROVE  IsPart(s, m, Append(p, s[m + Len(p) + 1])) /\ Len(Append(p, s[m + Len(p) + 1])) = Len(p) + 1
<1> DEFINE x == s[m + Len(p) + 1]
           q == Append(p, x)
<1>1. p \in Seq(Items) /\ Len(p) \in Nat /\ Len(s) \in Nat /\ \A i \in 1..Len(p) : p[i] = s[m + i]
  BY LenProperties DEF IsPart
<1>2. m + Len(p) + 1 \in 1..Len(s)
  BY <1>1
<1>3. x \in Items
  BY <1>2, ElementOfSeq
<1> HIDE DEF x
<1>4. /\ q \in Seq(Items) /\ Len(q) = Len(p) + 1 /\ q[Len(p) + 1] = x
      /\ \A i \in 1..Len(p) : q[i] = p[i]
  BY <1>1, <1>3, AppendProperties
<1> HIDE DEF q
<1>5. ASSUME NEW i \in 1..Len(q) PROVE q[i] = s[m + i]
  <2>1. CASE i <= Len(p)
    <3>1. i \in 1..Len(p)
      BY <1>1, <2>1
    <3> QED
      BY <1>1, <1>4, <3>1
  <2>2. CASE ~(i <= Len(p))
    <3>1. i = Len(p) + 1 /\ m + i = m + Len(p) + 1
      BY <1>1, <1>4, <2>2
    <3> QED
      BY <1>4, <3>1 DEF x
  <2> QED
    BY <2>1, <2>2
<1>6. m + Len(q) <= Len(s)
  BY <1>1, <1>4
<1> QED
  BY <1>4, <1>5, <1>6 DEF IsPart, q, x

\* Lines are those of the source.
LEMMA LinesStay == UNCHANGED source => \A n : Lines(n)' = Lines(n)
BY DEF Lines, Paging!EndOf, Paging!Max

\* One item of a walk.
LEMMA NextItemStep ==
  ASSUME PagingInv, Paging!NextItem
  PROVE  PagingInv'
<1> DEFINE L == Len(source)
           k == Len(page)
           x == source[position + 1]
<1>1. phase = "reading" /\ kind # "url" /\ position < L /\ position' = position + 1
  BY Zenon DEF Paging!NextItem
<1>page. page' = IF position >= offset /\ ~(k >= take) THEN Append(page, x) ELSE page
  BY Zenon DEF Paging!NextItem
<1>more. more' = (more \/ (position >= offset /\ k >= take))
  BY Zenon DEF Paging!NextItem
<1>phase. phase' = IF position >= offset /\ k >= take /\ kind # "small text" THEN "finished" ELSE phase
  BY Zenon DEF Paging!NextItem
<1>rest. UNCHANGED <<sourceVars, offset, take, bytesRead, guard, total, got>>
  BY Zenon DEF Paging!NextItem, Paging!sourceVars, sourceVars
<1>2. /\ SourceIsRight(source, removed, inserted) /\ source \in Seq(Items) /\ L \in Nat
      /\ kind \in Paging!Kinds /\ more \in BOOLEAN /\ guard = FALSE /\ total = Paging!None
      /\ take \in Nat /\ offset \in Nat /\ position \in Nat /\ bytesRead \in Nat
      /\ page \in Seq(Items) /\ k \in Nat /\ got \in Seq(Items) /\ Len(got) = offset
      /\ ReadingIsRight /\ IsPart(source, offset, page)
      /\ AreCounted(source, removed, inserted, got, offset)
      /\ Paging!Unchanged => IsBeginning(source, got) /\ (offset < L \/ offset = 0)
  BY <1>1, ReadingFacts
<1>3. /\ k = IF position <= offset THEN 0 ELSE IF position - offset <= take THEN position - offset ELSE take
      /\ more <=> position > offset + take
  BY <1>1, <1>2 DEF ReadingIsRight, WalkIsRight
<1> HIDE DEF k, L, x
<1>nats. /\ k \in Nat /\ L \in Nat /\ take \in Nat /\ offset \in Nat /\ position \in Nat /\ position < L
      /\ position' = position + 1
  BY <1>1, <1>2
<1>length. k = IF position <= offset THEN 0 ELSE IF position - offset <= take THEN position - offset ELSE take
  BY <1>3
<1>4. k <= take
  BY <1>nats, <1>length
<1>5. PICK p : /\ p = page' /\ IsPart(source, offset, p) /\ p \in Seq(Items)
               /\ Len(p) = IF position >= offset /\ ~(k >= take) THEN k + 1 ELSE k
  <2>1. CASE position >= offset /\ ~(k >= take)
    <3>1. position - offset = k /\ offset + k + 1 = position + 1 /\ offset + k < L
      BY <1>nats, <1>length, <2>1
    <3>2. /\ IsPart(source, offset, Append(page, source[offset + k + 1]))
          /\ Len(Append(page, source[offset + k + 1])) = k + 1
      <4>1. offset + Len(page) < Len(source)
        BY <3>1 DEF k, L
      <4> QED
        BY <1>2, <4>1, OnePartMore DEF k
    <3>3. page' = Append(page, source[offset + k + 1])
      BY <1>page, <2>1, <3>1 DEF x
    <3>4. Append(page, source[offset + k + 1]) \in Seq(Items)
      BY <3>2 DEF IsPart
    <3> QED
      BY <2>1, <3>2, <3>3, <3>4, Zenon
  <2>2. CASE ~(position >= offset /\ ~(k >= take))
    BY <1>page, <1>2, <2>2 DEF k
  <2> QED
    BY <2>1, <2>2
<1> DEFINE n == Len(p)
<1>6. n \in Nat
  BY <1>5, LenProperties
<1>7. n = IF position >= offset /\ ~(k >= take) THEN k + 1 ELSE k
  BY <1>5
<1> HIDE DEF n
<1>8. n <= take /\ (n = IF position + 1 <= offset THEN 0
                        ELSE IF position + 1 - offset <= take THEN position + 1 - offset ELSE take)
  BY <1>nats, <1>length, <1>4, <1>7
<1>9. more' \in BOOLEAN /\ (more' <=> position + 1 > offset + take)
  <2>1. position >= offset /\ k >= take => position + 1 > offset + take
    BY <1>nats, <1>length
  <2>2. position > offset + take => position + 1 > offset + take
    BY <1>nats
  <2>3. position + 1 > offset + take => position >= offset /\ k >= take
    BY <1>nats, <1>length
  <2> QED
    BY <1>more, <1>3, <1>2, <2>1, <2>2, <2>3, Zenon
<1>15. phase' = "finished" => more' /\ n = take /\ offset + n < L
  <2> SUFFICES ASSUME phase' = "finished" PROVE more' /\ n = take /\ offset + n < L
    OBVIOUS
  <2>1. position >= offset /\ k >= take
    BY <1>phase, <1>1, Zenon
  <2>2. n = take /\ offset + n < L
    BY <1>nats, <1>length, <1>7, <2>1
  <2> QED
    BY <1>more, <2>1, <2>2, Zenon
<1>16. phase' \in {"reading", "finished"}
  BY <1>phase, <1>1, Zenon
<1>10. phase' = "reading" => ReadingIsRight'
  <2>1. WalkIsRight'
    <3>1. Len(page') = IF position' <= offset' THEN 0
                       ELSE IF position' - offset' <= take' THEN position' - offset' ELSE take'
      <4>1. Len(page') = n /\ position' = position + 1 /\ offset' = offset /\ take' = take
        BY <1>nats, <1>rest, <1>5 DEF n
      <4> QED
        BY <1>6, <1>8, <1>nats, <4>1
    <3>2. position' \in 0..Len(source') /\ kind' # "url" /\ (more' <=> position' > offset' + take')
      <4>1. source' = source /\ kind' = kind /\ position' = position + 1 /\ offset' = offset /\ take' = take
        BY <1>nats, <1>rest DEF sourceVars
      <4>2. position + 1 \in 0..L
        BY <1>nats
      <4>3. position' \in 0..Len(source') /\ kind' # "url"
        BY <1>1, <4>1, <4>2 DEF L
      <4> QED
        BY <1>9, <4>1, <4>3
    <3>3. ~guard' /\ total' = Paging!None
      BY <1>rest, <1>2
    <3> QED
      BY <3>1, <3>2, <3>3 DEF WalkIsRight
  <2>2. UNCHANGED <<sourceVars, got, offset, take>> /\ page' = p
    BY <1>rest, <1>5
  <2> QED
    BY <1>2, <1>5, <2>1, <2>2, GoingOn
<1>11. phase' = "finished" => FinishedIsRight'
  <2> SUFFICES ASSUME phase' = "finished" PROVE FinishedIsRight'
    OBVIOUS
  <2>1. more' /\ Len(p) = take /\ offset + Len(p) < Len(source)
    BY <1>15 DEF n, L
  <2>2. Paging!Truncated'
    BY <2>1 DEF Paging!Truncated
  <2>3. UNCHANGED <<sourceVars, got, offset, take>> /\ page' = p /\ total' = Paging!None
    BY <1>rest, <1>2, <1>5
  <2> QED
    BY <1>2, <1>5, <2>1, <2>2, <2>3, Finishing
<1>12. /\ SourceIsRight(source, removed, inserted)' /\ kind' = kind /\ got' = got /\ offset' = offset
       /\ take' = take /\ guard' = guard /\ bytesRead' = bytesRead
  BY <1>rest, <1>2 DEF sourceVars
<1>13. page' \in Seq(Items) /\ Len(page') <= take'
  BY <1>5, <1>8, <1>12 DEF n
<1>14. position' \in Nat
  BY <1>nats
<1> QED
  BY <1>2, <1>9, <1>10, <1>11, <1>12, <1>13, <1>14, <1>16 DEF PagingInv

\* The end of a walk, or of a body: all items were passed.
LEMMA EndStep ==
  ASSUME PagingInv, phase = "reading", position = Len(source), phase' = "finished",
         total' \in {Paging!None, position},
         UNCHANGED <<sourceVars, offset, take, bytesRead, position, page, more, guard, got>>
  PROVE  PagingInv'
<1> DEFINE L == Len(source)
           k == Len(page)
<1>1. /\ SourceIsRight(source, removed, inserted) /\ source \in Seq(Items) /\ L \in Nat
      /\ kind \in Paging!Kinds /\ more \in BOOLEAN /\ guard = FALSE
      /\ take \in Nat /\ offset \in Nat /\ position \in Nat /\ bytesRead \in Nat
      /\ page \in Seq(Items) /\ k \in Nat /\ got \in Seq(Items) /\ Len(got) = offset
      /\ ReadingIsRight /\ IsPart(source, offset, page)
      /\ AreCounted(source, removed, inserted, got, offset)
      /\ Paging!Unchanged => IsBeginning(source, got) /\ (offset < L \/ offset = 0)
  BY ReadingFacts
<1>2. /\ k = IF position <= offset THEN 0 ELSE IF position - offset <= take THEN position - offset ELSE take
      /\ kind # "url" => (more <=> position > offset + take)
      /\ kind = "url" => ~more /\ position <= offset + take
  BY <1>1 DEF ReadingIsRight, WalkIsRight
<1>3. /\ source' = source /\ kind' = kind /\ offset' = offset /\ take' = take /\ bytesRead' = bytesRead
      /\ position' = position /\ page' = page /\ more' = more /\ guard' = guard /\ got' = got
      /\ removed' = removed /\ inserted' = inserted
  BY DEF sourceVars
<1>4. more <=> position > offset + take
  <2>1. kind = "url" => ~(position > offset + take)
    BY <1>1, <1>2
  <2> QED
    BY <1>2, <2>1
<1>5. Paging!Truncated' <=> more
  BY <1>1, <1>3 DEF Paging!Truncated
<1> HIDE DEF k
<1>6. more => offset + k < position /\ k = take
  <2>1. k \in Nat /\ take \in Nat /\ offset \in Nat /\ position \in Nat
    BY <1>1
  <2>2. k = IF position <= offset THEN 0 ELSE IF position - offset <= take THEN position - offset ELSE take
    BY <1>2
  <2> QED
    BY <1>4, <2>1, <2>2
<1>7. ~more => offset + k >= position
  <2>1. k \in Nat /\ take \in Nat /\ offset \in Nat /\ position \in Nat
    BY <1>1
  <2>2. k = IF position <= offset THEN 0 ELSE IF position - offset <= take THEN position - offset ELSE take
    BY <1>2
  <2> QED
    BY <1>4, <2>1, <2>2
<1>8. FinishedIsRight'
  <2>1. Paging!Truncated' /\ Paging!Unchanged => offset + Len(page) < Len(source) /\ (Len(page) = take \/ guard')
    BY <1>5, <1>6 DEF k
  <2>2. ~Paging!Truncated' => offset + Len(page) >= Len(source)
    BY <1>5, <1>7 DEF k
  <2>3. UNCHANGED <<sourceVars, got, offset, take>> /\ page' = page
    BY <1>3 DEF sourceVars
  <2>4. total' \in {Paging!None, Len(source)}
    OBVIOUS
  <2>5. Paging!Unchanged => IsBeginning(source, got)
    BY <1>1
  <2> QED
    BY <1>1, <2>1, <2>2, <2>3, <2>4, <2>5, Finishing
<1>9. Len(page) <= take
  BY DEF PagingInv
<1>10. phase' # "reading" /\ phase' # "aborted"
  OBVIOUS
<1>11. SourceIsRight(source', removed', inserted')
  BY <1>1, <1>3
<1>12. page' \in Seq(Items) /\ Len(page') <= take' /\ got' \in Seq(Items) /\ Len(got') = offset'
  BY <1>1, <1>3, <1>9
<1> QED
  BY <1>1, <1>3, <1>8, <1>10, <1>11, <1>12 DEF PagingInv

\* The end of a directory or a text: nothing is left, and a text has its count.
LEMMA EndOfWalkStep ==
  ASSUME PagingInv, Paging!EndOfWalk
  PROVE  PagingInv'
<1>1. /\ phase = "reading" /\ position >= Len(source) /\ phase' = "finished"
      /\ total' = IF kind = "directory" THEN Paging!None ELSE position
  BY DEF Paging!EndOfWalk
<1>2. UNCHANGED <<sourceVars, offset, take, bytesRead, position, page, more, guard, got>>
  BY DEF Paging!EndOfWalk, Paging!sourceVars, sourceVars
<1>3. position \in 0..Len(source) /\ Len(source) \in Nat
  BY <1>1, ReadingFacts DEF ReadingIsRight, WalkIsRight
<1>4. position = Len(source)
  BY <1>1, <1>3
<1>5. total' \in {Paging!None, position}
  BY <1>1
<1> QED
  BY <1>1, <1>2, <1>4, <1>5, EndStep

\* The end of a body, which has all its lines behind it.
LEMMA EndOfBodyStep ==
  ASSUME PagingInv, Paging!EndOfBody
  PROVE  PagingInv'
<1>1. /\ phase = "reading" /\ kind = "url" /\ bytesRead = Paging!EndOf[Len(source)]
      /\ phase' = "finished" /\ total' = position
  BY DEF Paging!EndOfBody
<1>2. UNCHANGED <<sourceVars, offset, take, bytesRead, position, page, more, guard, got>>
  BY DEF Paging!EndOfBody, Paging!sourceVars, sourceVars
<1>3. position = Lines(bytesRead) /\ bytesRead \in Nat /\ source \in Seq(Items) /\ Len(source) \in Nat
  BY <1>1, ReadingFacts DEF ReadingIsRight, WalkIsRight
<1>4. position \in 0..Len(source) /\ \A k \in 0..Len(source) : Paging!EndOf[k] <= bytesRead => k <= position
  BY <1>3, LinesAre
<1>5. position = Len(source)
  <2>1. Len(source) \in 0..Len(source)
    BY <1>3
  <2>2. Paging!EndOf[Len(source)] <= bytesRead
    BY <1>1, <1>3
  <2> QED
    BY <1>3, <1>4, <2>1, <2>2
<1> QED
  BY <1>1, <1>2, <1>5, EndStep

\* An abort leaves what was handed out.
LEMMA AbortStep ==
  ASSUME PagingInv, Paging!Abort
  PROVE  PagingInv'
<1>1. phase = "reading" /\ phase' = "aborted"
  BY DEF Paging!Abort
<1>2. /\ kind' = kind /\ source' = source /\ removed' = removed /\ inserted' = inserted
      /\ offset' = offset /\ take' = take /\ bytesRead' = bytesRead /\ position' = position
      /\ page' = page /\ more' = more /\ guard' = guard /\ got' = got
      /\ Paging!Unchanged' <=> Paging!Unchanged
  BY DEF Paging!Abort, Paging!sourceVars, Paging!Unchanged
<1>3. /\ SourceIsRight(source, removed, inserted) /\ source \in Seq(Items)
      /\ offset \in Nat /\ page \in Seq(Items) /\ got \in Seq(Items) /\ Len(got) = offset
      /\ IsPart(source, offset, page) /\ AreCounted(source, removed, inserted, got, offset)
      /\ Paging!Unchanged => IsBeginning(source, got)
  BY <1>1, ReadingFacts
<1>4. got \o page \in Seq(Items) /\ Paging!Repeated(got \o page) <= Cardinality(inserted)
  BY <1>3, PageCounts DEF AreCounted
<1>5. Paging!Unchanged => IsBeginning(source, got \o page)
  BY <1>3, BeginningGrows
<1>6. AbortedIsRight'
  BY <1>2, <1>4, <1>5, Zenon DEF AbortedIsRight
<1>7. phase' # "reading" /\ phase' # "finished"
  BY <1>1
<1> QED
  BY <1>1, <1>2, <1>6, <1>7 DEF PagingInv

\* The next page begins where the last one ended.
LEMMA NextPageStep ==
  ASSUME PagingInv, Paging!NextPage
  PROVE  PagingInv'
<1> DEFINE all == got \o page
<1>1. /\ phase = "finished" /\ Paging!Truncated
      /\ got' = all /\ offset' = offset + Len(page) /\ take' \in Takes /\ phase' = "reading"
      /\ bytesRead' = 0 /\ position' = 0
      /\ page' = <<>> /\ more' = FALSE /\ guard' = FALSE /\ total' = Paging!None
  BY DEF Paging!NextPage
<1>2. /\ kind' = kind /\ source' = source /\ removed' = removed /\ inserted' = inserted
      /\ Paging!Unchanged' <=> Paging!Unchanged
  BY DEF Paging!NextPage, Paging!sourceVars, Paging!Unchanged
<1>3. /\ SourceIsRight(source, removed, inserted) /\ source \in Seq(Items) /\ Len(source) \in Nat
      /\ got \in Seq(Items) /\ page \in Seq(Items) /\ offset \in Nat /\ Len(page) \in Nat
      /\ kind \in Paging!Kinds
  BY LenProperties, Zenon DEF PagingInv, SourceIsRight
<1>4. /\ AreCounted(source, removed, inserted, all, offset + Len(page))
      /\ Paging!Unchanged => IsBeginning(source, all) /\ Len(all) < Len(source)
  BY <1>1 DEF PagingInv, FinishedIsRight
<1> HIDE DEF all
<1>5. all \in Seq(Items) /\ Len(all) = offset + Len(page)
  BY <1>4 DEF AreCounted
<1>6. /\ <<>> \in Seq(Items) /\ Len(<<>>) = 0
  BY EmptySeq
<1>7. IsPart(source', offset', page')
  BY <1>1, <1>6 DEF IsPart
<1>8. take' \in Nat /\ MaxUrlBytes \in Nat
  BY <1>1, ItemsHaveSizes DEF Paging!PagesAssumption
<1>9. Lines(0)' = 0
  <2>1. Lines(0)' = Lines(0)
    BY <1>2, LinesStay
  <2>2. Lines(0) = 0
    BY <1>3, LinesAre
  <2> QED
    BY <2>1, <2>2
<1>10. offset' \in Nat /\ offset' + take' >= 0 /\ Len(source') \in Nat
  BY <1>1, <1>2, <1>3, <1>8
<1>11. WalkIsRight'
  <2>1. Len(page') = 0 /\ position' <= offset' /\ position' \in 0..Len(source') /\ ~(position' > offset' + take')
    BY <1>1, <1>6, <1>8, <1>10
  <2>2. ~guard' /\ total' = Paging!None /\ ~more'
    BY <1>1
  <2>3. bytesRead' <= MaxUrlBytes /\ position' <= offset' + take'
    BY <1>1, <1>8, <1>10
  <2>4. position' = Lines(bytesRead)'
    BY <1>1, <1>9 DEF Lines
  <2> QED
    BY <2>1, <2>2, <2>3, <2>4 DEF WalkIsRight
<1>12. /\ AreCounted(source', removed', inserted', got', offset')
       /\ Paging!Unchanged' => IsBeginning(source', got') /\ offset' < Len(source')
  BY <1>1, <1>2, <1>4, <1>5
<1>13. ReadingIsRight'
  BY <1>7, <1>11, <1>12 DEF ReadingIsRight
<1>14. /\ SourceIsRight(source', removed', inserted') /\ got' \in Seq(Items) /\ Len(got') = offset'
       /\ page' \in Seq(Items) /\ Len(page') <= take'
  BY <1>1, <1>2, <1>3, <1>5, <1>6, <1>8
<1>15. phase' # "finished" /\ phase' # "aborted" /\ more' \in BOOLEAN /\ guard' \in BOOLEAN
       /\ position' \in Nat /\ bytesRead' \in Nat
  BY <1>1, Zenon
<1> QED
  BY <1>1, <1>2, <1>3, <1>8, <1>10, <1>13, <1>14, <1>15 DEF PagingInv

\* The names after a change.
LEMMA SourceAfterRemoval ==
  ASSUME NEW s, NEW gone, NEW come, SourceIsRight(s, gone, come), NEW i \in 1..Len(s)
  PROVE  /\ SourceIsRight(WithoutItem(s, i), gone \cup {s[i].name}, come)
         /\ Cardinality(gone \cup {s[i].name}) = Cardinality(gone) + 1 /\ Cardinality(gone) \in Nat
<1> DEFINE t == WithoutItem(s, i)
           x == s[i].name
<1>1. /\ s \in Seq(Items) /\ Distinct(s) /\ IsFiniteSet(gone) /\ IsFiniteSet(come)
      /\ gone \subseteq EverNamed(come) /\ (\A j \in 1..Len(s) : s[j].name \in EverNamed(come) \ gone)
      /\ (\A y \in 1..Len(ItemSizes) : y \in gone \/ \E j \in 1..Len(s) : s[j].name = y)
      /\ (\A y \in come : y \in EverNamed(come) /\ y > Len(ItemSizes))
  BY DEF SourceIsRight
<1>2. Len(s) \in Nat
  BY <1>1, LenProperties
<1>3. /\ t \in Seq(Items) /\ Len(t) = Len(s) - 1
      /\ \A j \in 1..(i - 1) : t[j] = s[j]
      /\ \A j \in i..(Len(s) - 1) : t[j] = s[j + 1]
  BY <1>1, WithoutIs
<1> HIDE DEF t
<1>4. \A j \in 1..Len(t) : LET k == IF j < i THEN j ELSE j + 1 IN
        k \in 1..Len(s) /\ k # i /\ t[j] = s[k]
  <2> SUFFICES ASSUME NEW j \in 1..Len(t)
               PROVE  LET k == IF j < i THEN j ELSE j + 1 IN k \in 1..Len(s) /\ k # i /\ t[j] = s[k]
    OBVIOUS
  <2>1. CASE j < i
    <3>1. j \in 1..(i - 1) /\ j \in 1..Len(s)
      BY <1>2, <1>3, <2>1
    <3> QED
      BY <1>3, <2>1, <3>1
  <2>2. CASE ~(j < i)
    <3>1. j \in i..(Len(s) - 1) /\ j + 1 \in 1..Len(s) /\ j + 1 # i
      BY <1>2, <1>3, <2>2
    <3> QED
      BY <1>3, <2>2, <3>1
  <2> QED
    BY <2>1, <2>2
<1>5. x \notin gone /\ x \in EverNamed(come)
  BY <1>1
<1>6. Distinct(t)
  <2> SUFFICES ASSUME NEW j \in 1..Len(t), NEW h \in 1..Len(t), t[j].name = t[h].name PROVE j = h
    BY DEF Distinct
  <2> DEFINE k == IF j < i THEN j ELSE j + 1
             l == IF h < i THEN h ELSE h + 1
  <2>1. k \in 1..Len(s) /\ l \in 1..Len(s) /\ t[j] = s[k] /\ t[h] = s[l]
    BY <1>4
  <2>2. k = l
    <3> HIDE DEF k, l
    <3> QED
      BY <1>1, <2>1 DEF Distinct
  <2> QED
    BY <2>2
<1>7. \A j \in 1..Len(t) : t[j].name \in EverNamed(come) \ (gone \cup {x})
  <2> SUFFICES ASSUME NEW j \in 1..Len(t) PROVE t[j].name \in EverNamed(come) \ (gone \cup {x})
    OBVIOUS
  <2>1. PICK k \in 1..Len(s) : k # i /\ t[j] = s[k]
    BY <1>4
  <2>2. s[k].name # x
    BY <1>1, <2>1 DEF Distinct
  <2> QED
    BY <1>1, <2>1, <2>2
<1>8. \A y \in 1..Len(ItemSizes) : y \in gone \cup {x} \/ \E j \in 1..Len(t) : t[j].name = y
  <2> SUFFICES ASSUME NEW y \in 1..Len(ItemSizes), y \notin gone, y # x
               PROVE  \E j \in 1..Len(t) : t[j].name = y
    OBVIOUS
  <2>1. PICK k \in 1..Len(s) : s[k].name = y
    BY <1>1
  <2>2. k # i
    BY <2>1
  <2>3. CASE k < i
    <3>1. k \in 1..(i - 1) /\ k \in 1..Len(t)
      BY <1>2, <1>3, <2>3
    <3> QED
      BY <1>3, <2>1, <3>1
  <2>4. CASE ~(k < i)
    <3>1. k - 1 \in i..(Len(s) - 1) /\ k - 1 \in 1..Len(t) /\ (k - 1) + 1 = k
      BY <1>2, <1>3, <2>2, <2>4
    <3>2. t[k - 1] = s[(k - 1) + 1]
      BY <1>3, <3>1
    <3> QED
      BY <2>1, <3>1, <3>2
  <2> QED
    BY <2>3, <2>4
<1> HIDE DEF x
<1>9. /\ IsFiniteSet(gone \cup {x}) /\ Cardinality(gone \cup {x}) = Cardinality(gone) + 1
      /\ Cardinality(gone) \in Nat
  BY <1>1, <1>5, FS_AddElement, FS_CardinalityType
<1>10. SourceIsRight(t, gone \cup {x}, come)
  BY <1>1, <1>3, <1>5, <1>6, <1>7, <1>8, <1>9 DEF SourceIsRight
<1> QED
  BY <1>9, <1>10 DEF t, x

\* A new item has a name nobody had.
LEMMA SourceAfterInsertion ==
  ASSUME NEW s, NEW gone, NEW come, SourceIsRight(s, gone, come), NEW i \in 1..(Len(s) + 1),
         NEW x \in Items, x.name = Len(ItemSizes) + 1 + Cardinality(come)
  PROVE  /\ SourceIsRight(WithItem(s, i, x), gone, come \cup {x.name})
         /\ Cardinality(come \cup {x.name}) = Cardinality(come) + 1 /\ Cardinality(come) \in Nat
         /\ EverNamed(come) \subseteq EverNamed(come \cup {x.name})
         /\ x.name \notin EverNamed(come) /\ x.name \notin 1..Len(ItemSizes)
<1> DEFINE t == WithItem(s, i, x)
           later == come \cup {x.name}
<1>1. /\ s \in Seq(Items) /\ Distinct(s) /\ IsFiniteSet(gone) /\ IsFiniteSet(come)
      /\ gone \subseteq EverNamed(come) /\ (\A j \in 1..Len(s) : s[j].name \in EverNamed(come) \ gone)
      /\ (\A y \in 1..Len(ItemSizes) : y \in gone \/ \E j \in 1..Len(s) : s[j].name = y)
      /\ (\A y \in come : y \in EverNamed(come) /\ y > Len(ItemSizes))
  BY DEF SourceIsRight
<1>2. Len(s) \in Nat /\ Len(ItemSizes) \in Nat /\ Cardinality(come) \in Nat
  BY <1>1, LenProperties, FS_CardinalityType, ItemsHaveSizes DEF Paging!PagesAssumption
<1>3. /\ t \in Seq(Items) /\ Len(t) = Len(s) + 1
      /\ \A j \in 1..(i - 1) : t[j] = s[j]
      /\ t[i] = x
      /\ \A j \in (i + 1)..(Len(s) + 1) : t[j] = s[j - 1]
  BY <1>1, WithIs
<1> HIDE DEF t
<1>4. x.name \notin EverNamed(come) /\ x.name \notin 1..Len(ItemSizes)
  BY <1>2 DEF EverNamed
<1>5. x.name \notin come
  BY <1>1, <1>4
<1>6. IsFiniteSet(later) /\ Cardinality(later) = Cardinality(come) + 1
  BY <1>1, <1>5, FS_AddElement
<1> HIDE DEF later
<1>7. EverNamed(come) \subseteq EverNamed(later) /\ x.name \in EverNamed(later)
  BY <1>2, <1>6 DEF EverNamed
<1>8. \A j \in 1..Len(t) : \/ j = i /\ t[j] = x
                           \/ \E k \in 1..Len(s) : k = (IF j < i THEN j ELSE j - 1) /\ t[j] = s[k] /\ j # i
  <2> SUFFICES ASSUME NEW j \in 1..Len(t), j # i
               PROVE  \E k \in 1..Len(s) : k = (IF j < i THEN j ELSE j - 1) /\ t[j] = s[k]
    BY <1>3
  <2>1. CASE j < i
    <3>1. j \in 1..(i - 1) /\ j \in 1..Len(s)
      BY <1>2, <1>3, <2>1
    <3> QED
      BY <1>3, <2>1, <3>1
  <2>2. CASE ~(j < i)
    <3>1. j \in (i + 1)..(Len(s) + 1) /\ j - 1 \in 1..Len(s)
      BY <1>2, <1>3, <2>2
    <3> QED
      BY <1>3, <2>2, <3>1
  <2> QED
    BY <2>1, <2>2, Zenon
<1>9. \A j \in 1..Len(s) : s[j].name # x.name
  BY <1>1, <1>4
<1>10. Distinct(t)
  <2> SUFFICES ASSUME NEW j \in 1..Len(t), NEW h \in 1..Len(t), t[j].name = t[h].name PROVE j = h
    BY DEF Distinct
  <2>1. CASE j = i /\ h = i
    BY <2>1
  <2>2. CASE j = i /\ h # i
    BY <1>8, <1>9, <2>2, Zenon
  <2>3. CASE j # i /\ h = i
    BY <1>8, <1>9, <2>3, Zenon
  <2>4. CASE j # i /\ h # i
    <3>1. PICK k \in 1..Len(s) : k = (IF j < i THEN j ELSE j - 1) /\ t[j] = s[k]
      BY <1>8, <2>4
    <3>2. PICK l \in 1..Len(s) : l = (IF h < i THEN h ELSE h - 1) /\ t[h] = s[l]
      BY <1>8, <2>4
    <3>3. k = l
      BY <1>1, <3>1, <3>2 DEF Distinct
    <3> QED
      BY <2>4, <3>1, <3>2, <3>3
  <2> QED
    BY <2>1, <2>2, <2>3, <2>4
<1>11. \A j \in 1..Len(t) : t[j].name \in EverNamed(later) \ gone
  BY <1>1, <1>4, <1>7, <1>8, Zenon
<1>12. \A y \in 1..Len(ItemSizes) : y \in gone \/ \E j \in 1..Len(t) : t[j].name = y
  <2> SUFFICES ASSUME NEW y \in 1..Len(ItemSizes), y \notin gone PROVE \E j \in 1..Len(t) : t[j].name = y
    OBVIOUS
  <2>1. PICK k \in 1..Len(s) : s[k].name = y
    BY <1>1
  <2>2. CASE k < i
    <3>1. k \in 1..(i - 1) /\ k \in 1..Len(t)
      BY <1>2, <1>3, <2>2
    <3> QED
      BY <1>3, <2>1, <3>1
  <2>3. CASE ~(k < i)
    <3>1. k + 1 \in (i + 1)..(Len(s) + 1) /\ k + 1 \in 1..Len(t) /\ (k + 1) - 1 = k
      BY <1>2, <1>3, <2>3
    <3>2. t[k + 1] = s[(k + 1) - 1]
      BY <1>3, <3>1, Zenon
    <3> QED
      BY <2>1, <3>1, <3>2
  <2> QED
    BY <2>2, <2>3
<1>13. \A y \in later : y \in EverNamed(later) /\ y > Len(ItemSizes)
  <2>1. x.name > Len(ItemSizes)
    BY <1>2
  <2> QED
    BY <1>1, <1>7, <2>1, Zenon DEF later
<1>14. gone \subseteq EverNamed(later)
  BY <1>1, <1>7
<1>15. SourceIsRight(t, gone, later)
  BY <1>1, <1>3, <1>6, <1>10, <1>11, <1>12, <1>13, <1>14 DEF SourceIsRight
<1> QED
  BY <1>2, <1>4, <1>6, <1>7, <1>15, Zenon DEF t, later

\* What they leave alone.
pageVars == <<offset, take, phase, bytesRead, position, page, more, guard, total, got>>

\* What holds when a page was read to its end.
LEMMA FinishedFacts ==
  ASSUME PagingInv, phase = "finished"
  PROVE  /\ SourceIsRight(source, removed, inserted) /\ source \in Seq(Items) /\ Len(source) \in Nat
         /\ got \o page \in Seq(Items) /\ offset \in Nat /\ offset + Len(page) \in Nat
         /\ FinishedIsRight /\ AreCounted(source, removed, inserted, got \o page, offset + Len(page))
         /\ Paging!Names(got \o page) \subseteq EverNamed(inserted)
         /\ Paging!Repeated(got \o page) \in Int
<1>1. /\ SourceIsRight(source, removed, inserted) /\ offset \in Nat /\ page \in Seq(Items)
      /\ FinishedIsRight
  BY DEF PagingInv
<1>2. AreCounted(source, removed, inserted, got \o page, offset + Len(page))
  BY <1>1 DEF FinishedIsRight
<1>3. got \o page \in Seq(Items) /\ Paging!Names(got \o page) \subseteq EverNamed(inserted)
  BY <1>2 DEF AreCounted
<1>4. Paging!Repeated(got \o page) \in Int
  <2>1. Len(got \o page) \in Nat /\ Cardinality(Paging!Names(got \o page)) \in Nat
    BY <1>3, NamesAreFinite, LenProperties, Zenon
  <2> QED
    BY <2>1, PagesCount DEF Paging!Repeated
<1> QED
  BY <1>1, <1>2, <1>3, <1>4, LenProperties DEF SourceIsRight

\* A change leaves the reading as it is.
LEMMA ChangeStep ==
  ASSUME PagingInv, phase = "finished", UNCHANGED <<kind, pageVars>>,
         SourceIsRight(source', removed', inserted'),
         AreCounted(source', removed', inserted', got \o page, offset + Len(page)),
         ~Paging!Unchanged', Cardinality(removed) <= Cardinality(removed'),
         Cardinality(removed) \in Nat, Cardinality(removed') \in Nat
  PROVE  PagingInv'
<1> DEFINE all == got \o page
           left == (1..Len(ItemSizes)) \ Paging!Names(all)
<1>1. /\ kind' = kind /\ offset' = offset /\ take' = take /\ phase' = phase /\ bytesRead' = bytesRead
      /\ position' = position /\ page' = page /\ more' = more /\ guard' = guard /\ total' = total
      /\ got' = got
  BY DEF pageVars
<1>2. Paging!Truncated' <=> Paging!Truncated
  BY <1>1 DEF Paging!Truncated
<1>3. ~Paging!Truncated => Cardinality(left) <= Cardinality(removed)
  BY FinishedFacts DEF FinishedIsRight
<1>4. Cardinality(left) \in Nat
  <2>1. Len(ItemSizes) \in Nat
    BY ItemsHaveSizes, LenProperties DEF Paging!PagesAssumption
  <2>2. 1 \in Int /\ Len(ItemSizes) \in Int
    BY <2>1
  <2>3. IsFiniteSet(1..Len(ItemSizes))
    BY <2>2, FS_Interval
  <2>4. left \in SUBSET (1..Len(ItemSizes))
    OBVIOUS
  <2>5. IsFiniteSet(left)
    <3> HIDE DEF left
    <3> QED
      BY <2>3, <2>4, FS_Subset, Zenon
  <2> HIDE DEF left
  <2> QED
    BY <2>5, FS_CardinalityType
<1>5. ~Paging!Truncated => Cardinality(left) <= Cardinality(removed')
  <2> HIDE DEF left
  <2> QED
    BY <1>3, <1>4
<1>6. FinishedIsRight'
  <2>1. got' \o page' = all /\ offset' + Len(page') = offset + Len(page)
    BY <1>1
  <2>2. ~Paging!Truncated' => Cardinality((1..Len(ItemSizes)) \ Paging!Names(got' \o page')) <= Cardinality(removed')
    BY <1>2, <1>5, <2>1
  <2>3. AreCounted(source', removed', inserted', got' \o page', offset' + Len(page'))
    BY <2>1
  <2> QED
    BY <2>2, <2>3 DEF FinishedIsRight
<1> QED
  BY <1>1, <1>6 DEF PagingInv

\* A removal: one may be missed more, and one is gone more.
LEMMA RemoveItemStep ==
  ASSUME PagingInv, NEW i \in 1..Len(source), Paging!RemoveItem(i)
  PROVE  PagingInv'
<1> DEFINE x == source[i].name
           all == got \o page
           m == offset + Len(page)
<1>1. /\ phase = "finished" /\ removed' = removed \cup {x} /\ source' = WithoutItem(source, i)
      /\ inserted' = inserted /\ UNCHANGED <<kind, pageVars>>
  BY DEF Paging!RemoveItem, WithoutItem, pageVars
<1>2. /\ SourceIsRight(source, removed, inserted) /\ source \in Seq(Items)
      /\ all \in Seq(Items) /\ m \in Nat /\ AreCounted(source, removed, inserted, all, m)
      /\ Paging!Repeated(all) \in Int
  BY <1>1, FinishedFacts
<1>3. /\ SourceIsRight(source', removed', inserted')
      /\ Cardinality(removed') = Cardinality(removed) + 1 /\ Cardinality(removed) \in Nat
  BY <1>1, <1>2, SourceAfterRemoval, Zenon
<1> HIDE DEF all, m
<1>4. /\ Cardinality(AheadOf(source', all, m)) <= Cardinality(AheadOf(source, all, m))
      /\ Cardinality(MissedBy(source', all, m, removed')) <= Cardinality(MissedBy(source, all, m, removed)) + 1
  BY <1>1, <1>2, RemovalMisses
<1>5. /\ Paging!Repeated(all) + Cardinality(AheadOf(source, all, m)) <= Cardinality(inserted)
      /\ Cardinality(MissedBy(source, all, m, removed)) <= Cardinality(removed)
      /\ Len(all) = m /\ Paging!Names(all) \subseteq EverNamed(inserted)
  BY <1>2 DEF AreCounted
<1>6. /\ Cardinality(AheadOf(source', all, m)) \in Nat /\ Cardinality(AheadOf(source, all, m)) \in Nat
      /\ Cardinality(MissedBy(source', all, m, removed')) \in Nat
      /\ Cardinality(MissedBy(source, all, m, removed)) \in Nat
      /\ Cardinality(inserted) \in Nat
  BY <1>2, AheadIsFinite, MissedIsFinite, FS_CardinalityType DEF SourceIsRight
<1>7. Paging!Repeated(all) + Cardinality(AheadOf(source', all, m)) <= Cardinality(inserted')
  BY <1>1, <1>2, <1>4, <1>5, <1>6
<1>8. Cardinality(MissedBy(source', all, m, removed')) <= Cardinality(removed')
  BY <1>3, <1>4, <1>5, <1>6
<1>9. AreCounted(source', removed', inserted', all, m)
  BY <1>1, <1>2, <1>5, <1>7, <1>8 DEF AreCounted
<1>10. ~Paging!Unchanged'
  BY <1>1 DEF Paging!Unchanged
<1>11. Cardinality(removed) <= Cardinality(removed') /\ Cardinality(removed') \in Nat
  BY <1>3
<1> QED
  BY <1>1, <1>3, <1>9, <1>10, <1>11, ChangeStep DEF all, m

\* An insertion: one may be repeated more, and one came more.
LEMMA InsertItemStep ==
  ASSUME PagingInv, NEW i \in 1..(Len(source) + 1), Paging!InsertItem(i)
  PROVE  PagingInv'
<1> DEFINE name == Len(ItemSizes) + 1 + Cardinality(inserted)
           x == [name |-> name, size |-> 1]
           all == got \o page
           m == offset + Len(page)
<1>1. /\ phase = "finished" /\ inserted' = inserted \cup {name} /\ source' = WithItem(source, i, x)
      /\ removed' = removed /\ UNCHANGED <<kind, pageVars>>
  BY PagesCount, Zenon DEF Paging!InsertItem, Paging!Item, WithItem, pageVars
<1>2. /\ SourceIsRight(source, removed, inserted) /\ source \in Seq(Items)
      /\ all \in Seq(Items) /\ m \in Nat /\ AreCounted(source, removed, inserted, all, m)
      /\ Paging!Repeated(all) \in Int
      /\ Paging!Names(all) \subseteq EverNamed(inserted)
  BY <1>1, FinishedFacts
<1>3. x \in Items /\ x.name = name
  <2>1. Len(ItemSizes) \in Nat /\ Cardinality(inserted) \in Nat
    BY <1>2, ItemsHaveSizes, LenProperties, FS_CardinalityType DEF Paging!PagesAssumption, SourceIsRight
  <2> QED
    BY <2>1 DEF Items
<1> HIDE DEF all, m, x
<1>4. x.name = Len(ItemSizes) + 1 + Cardinality(inserted)
  BY <1>3
<1> HIDE DEF name
<1>5. /\ SourceIsRight(WithItem(source, i, x), removed, inserted \cup {x.name})
      /\ Cardinality(inserted \cup {x.name}) = Cardinality(inserted) + 1 /\ Cardinality(inserted) \in Nat
      /\ EverNamed(inserted) \subseteq EverNamed(inserted \cup {x.name})
      /\ x.name \notin EverNamed(inserted) /\ x.name \notin 1..Len(ItemSizes)
  BY <1>2, <1>3, <1>4, SourceAfterInsertion, Zenon
<1>6. inserted \cup {x.name} = inserted'
  BY <1>1, <1>3
<1>7. /\ SourceIsRight(source', removed', inserted')
      /\ Cardinality(inserted') = Cardinality(inserted) + 1 /\ Cardinality(inserted) \in Nat
      /\ EverNamed(inserted) \subseteq EverNamed(inserted')
  BY <1>1, <1>5, <1>6, Zenon
<1>8. x.name \notin Paging!Names(all)
  BY <1>2, <1>5
<1>9. /\ Cardinality(AheadOf(WithItem(source, i, x), all, m)) <= Cardinality(AheadOf(source, all, m)) + 1
      /\ Cardinality(MissedBy(WithItem(source, i, x), all, m, removed)) <= Cardinality(MissedBy(source, all, m, removed))
  BY <1>2, <1>3, <1>5, <1>8, InsertionRepeats, Zenon
<1>10. /\ Paging!Repeated(all) + Cardinality(AheadOf(source, all, m)) <= Cardinality(inserted)
       /\ Cardinality(MissedBy(source, all, m, removed)) <= Cardinality(removed)
       /\ Len(all) = m
  BY <1>2 DEF AreCounted
<1>11. /\ Cardinality(AheadOf(source', all, m)) \in Nat /\ Cardinality(AheadOf(source, all, m)) \in Nat
       /\ Cardinality(MissedBy(source', all, m, removed')) \in Nat
       /\ Cardinality(MissedBy(source, all, m, removed)) \in Nat
       /\ Cardinality(removed) \in Nat
  BY <1>2, AheadIsFinite, MissedIsFinite, FS_CardinalityType DEF SourceIsRight
<1>12. Paging!Repeated(all) + Cardinality(AheadOf(source', all, m)) <= Cardinality(inserted')
  <2>1. Cardinality(AheadOf(source', all, m)) <= Cardinality(AheadOf(source, all, m)) + 1
    BY <1>1, <1>9
  <2> QED
    BY <1>2, <1>7, <1>10, <1>11, <2>1
<1>13. Cardinality(MissedBy(source', all, m, removed')) <= Cardinality(removed')
  <2>1. Cardinality(MissedBy(source', all, m, removed')) <= Cardinality(MissedBy(source, all, m, removed))
    BY <1>1, <1>9
  <2>2. Cardinality(removed') = Cardinality(removed)
    BY <1>1
  <2> QED
    BY <1>10, <1>11, <2>1, <2>2
<1>14. Paging!Names(all) \subseteq EverNamed(inserted')
  BY <1>2, <1>7
<1>15. AreCounted(source', removed', inserted', all, m)
  BY <1>2, <1>10, <1>12, <1>13, <1>14 DEF AreCounted
<1>16. ~Paging!Unchanged'
  BY <1>1 DEF Paging!Unchanged
<1>17. Cardinality(removed) <= Cardinality(removed') /\ Cardinality(removed') \in Nat
  BY <1>1, <1>11
<1> QED
  BY <1>1, <1>7, <1>11, <1>15, <1>16, <1>17, ChangeStep DEF all, m

\* The items of a page that ends with the last-th item.
LEMMA PageUpTo ==
  ASSUME NEW s \in Seq(Items), NEW m \in Nat, NEW last \in 0..Len(s)
  PROVE  /\ IsPart(s, m, SubSeq(s, m + 1, last))
         /\ Len(SubSeq(s, m + 1, last)) = IF last <= m THEN 0 ELSE last - m
<1> DEFINE p == SubSeq(s, m + 1, last)
<1>1. Len(s) \in Nat /\ last \in Nat /\ last <= Len(s)
  BY LenProperties
<1>2. CASE last <= m
  <2>1. m + 1 > last
    BY <1>1, <1>2
  <2>2. p = <<>>
    BY <1>1, <2>1
  <2>3. p \in Seq(Items) /\ Len(p) = 0
    BY <2>2, EmptySeq
  <2> HIDE DEF p
  <2> QED
    BY <1>2, <2>2, <2>3 DEF IsPart, p
<1>3. CASE ~(last <= m)
  <2>1. m <= last
    BY <1>1, <1>3
  <2>2. /\ p \in Seq(Items) /\ Len(p) = last - m
        /\ \A i \in 1..(last - m) : p[i] = s[m + i]
    BY <1>1, <2>1, MiddleOf
  <2> HIDE DEF p
  <2>3. m + Len(p) <= Len(s)
    BY <1>1, <2>2
  <2> QED
    BY <1>3, <2>2, <2>3 DEF IsPart, p
<1> QED
  BY <1>2, <1>3

\* A chunk of a body.
LEMMA ChunkStep ==
  ASSUME PagingInv, NEW n \in 1..(MaxUrlBytes + 1), Paging!Chunk(n)
  PROVE  PagingInv'
<1> DEFINE L == Len(source)
           taken == IF n > MaxUrlBytes - bytesRead THEN MaxUrlBytes - bytesRead ELSE n
           read == bytesRead + taken
           lines == Lines(read)
           beyond == lines > offset + take
           limited == taken < n
           last == IF beyond THEN offset + take ELSE lines
           p == SubSeq(source, offset + 1, last)
<1>1. /\ phase = "reading" /\ kind = "url" /\ bytesRead + n <= Paging!EndOf[L]
      /\ bytesRead' = read /\ guard' = limited /\ phase' = IF beyond \/ limited THEN "finished" ELSE "reading"
  BY DEF Paging!Chunk, Lines
<1>2. page' = p /\ position' = IF beyond THEN last + 1 ELSE last
  BY DEF Paging!Chunk, Paging!Consume, Lines
<1>3. more' \in BOOLEAN /\ (beyond => more') /\ (~beyond /\ ~limited => ~more')
  BY Zenon DEF Paging!Chunk, Lines
<1>4. UNCHANGED <<sourceVars, offset, take, total, got>>
  BY DEF Paging!Chunk, Paging!sourceVars, sourceVars
<1>5. /\ SourceIsRight(source, removed, inserted) /\ source \in Seq(Items) /\ L \in Nat
      /\ total = Paging!None /\ take \in Nat /\ offset \in Nat /\ bytesRead \in Nat
      /\ got \in Seq(Items) /\ Len(got) = offset
      /\ ReadingIsRight /\ AreCounted(source, removed, inserted, got, offset)
      /\ Paging!Unchanged => IsBeginning(source, got) /\ (offset < L \/ offset = 0)
  BY <1>1, ReadingFacts
<1>6. MaxUrlBytes \in Nat /\ n \in Nat \ {0} /\ bytesRead <= MaxUrlBytes
  BY <1>1, <1>5, ItemsHaveSizes DEF Paging!PagesAssumption, ReadingIsRight, WalkIsRight
<1>7. read \in Nat /\ read <= MaxUrlBytes /\ (limited => read < bytesRead + n)
  BY <1>5, <1>6
<1> HIDE DEF read, taken, limited
<1>8. lines \in 0..L /\ Paging!EndOf[lines] <= read
  BY <1>5, <1>7, LinesAre
<1>9. limited => lines < L
  <2> SUFFICES ASSUME limited, lines = L PROVE FALSE
    BY <1>5, <1>8
  <2>1. Paging!EndOf[L] <= read
    BY <1>8
  <2>2. L \in 0..L
    BY <1>5
  <2>3. Paging!EndOf[L] \in Nat
    BY <1>5, <2>2, EndOfIs
  <2> HIDE DEF L, lines
  <2> QED
    BY <1>1, <1>5, <1>6, <1>7, <2>1, <2>3
<1> HIDE DEF lines, L
<1>10. last \in 0..L /\ last <= offset + take /\ (beyond => last < L /\ last = offset + take)
  BY <1>5, <1>8
<1>11. IsPart(source, offset, p) /\ Len(p) = IF last <= offset THEN 0 ELSE last - offset
  BY <1>5, <1>10, PageUpTo DEF L
<1> DEFINE k == Len(p)
<1>12. p \in Seq(Items) /\ k \in Nat
  BY <1>11, LenProperties DEF IsPart
<1> HIDE DEF p, last
<1>13. k <= take
  BY <1>5, <1>10, <1>11
<1>14. beyond => offset + k < L /\ k = take
  BY <1>5, <1>10, <1>11
<1>15. limited /\ ~beyond /\ (offset < L \/ offset = 0) => offset + k < L
  <2> SUFFICES ASSUME limited, ~beyond, offset < L \/ offset = 0 PROVE offset + k < L
    OBVIOUS
  <2>1. last = lines /\ lines < L /\ lines \in Nat
    BY <1>5, <1>8, <1>9 DEF last
  <2> QED
    BY <1>5, <1>11, <2>1
<1> HIDE DEF k
<1>16. ASSUME beyond \/ limited PROVE phase' = "finished" /\ FinishedIsRight'
  <2>1. phase' = "finished" /\ Paging!Truncated'
    BY <1>1, <1>3, <1>16 DEF Paging!Truncated
  <2>2. Paging!Unchanged => offset + k < L /\ (k = take \/ guard')
    BY <1>1, <1>5, <1>14, <1>15, <1>16
  <2>3. total' \in {Paging!None, Len(source)}
    BY <1>4, <1>5
  <2>4. UNCHANGED <<sourceVars, got, offset, take>>
    BY <1>4
  <2>5. Paging!Unchanged => IsBeginning(source, got)
    BY <1>5
  <2>6. Paging!Truncated' /\ Paging!Unchanged => offset + Len(p) < Len(source) /\ (Len(p) = take \/ guard')
    BY <2>2 DEF k, L
  <2>7. FinishedIsRight'
    BY <1>2, <1>5, <1>11, <2>1, <2>3, <2>4, <2>5, <2>6, Finishing
  <2> QED
    BY <2>1, <2>7
<1>17. ASSUME ~beyond, ~limited PROVE phase' = "reading" /\ ReadingIsRight'
  <2>1. phase' = "reading" /\ ~guard' /\ ~more' /\ total' = Paging!None
    BY <1>1, <1>3, <1>4, <1>5, <1>17
  <2>2. last = lines
    BY <1>17 DEF last
  <2>3. position' = lines /\ lines <= offset + take
    BY <1>2, <1>10, <1>17, <2>2
  <2>4. Lines(bytesRead)' = lines
    <3>1. PICK r : r = read
      OBVIOUS
    <3>2. source' = source
      BY <1>4 DEF sourceVars
    <3>3. Lines(r)' = Lines(r)
      BY <3>2, LinesStay
    <3>4. Lines(bytesRead)' = Lines(r)'
      <4>1. bytesRead' = r
        BY <1>1, <3>1
      <4> QED
        BY <4>1 DEF Lines
    <3> QED
      BY <3>1, <3>3, <3>4 DEF lines
  <2>5. k = IF lines <= offset THEN 0 ELSE IF lines - offset <= take THEN lines - offset ELSE take
    <3>1. lines \in Nat
      BY <1>5, <1>8
    <3> QED
      BY <1>5, <1>11, <2>2, <2>3, <3>1 DEF k
  <2>6. /\ source' = source /\ offset' = offset /\ take' = take /\ kind' = "url" /\ page' = p
        /\ bytesRead' <= MaxUrlBytes
    BY <1>1, <1>2, <1>4, <1>7 DEF sourceVars
  <2>7. WalkIsRight'
    <3>1. Len(page') = IF position' <= offset' THEN 0
                       ELSE IF position' - offset' <= take' THEN position' - offset' ELSE take'
      BY <2>3, <2>5, <2>6 DEF k
    <3>2. position' \in 0..Len(source') /\ position' <= offset' + take' /\ position' = Lines(bytesRead)'
      BY <1>8, <2>3, <2>4, <2>6 DEF L
    <3> QED
      BY <2>1, <2>6, <3>1, <3>2 DEF WalkIsRight
  <2>8. ReadingIsRight'
    <3>1. UNCHANGED <<sourceVars, got, offset, take>>
      BY <1>4
    <3> QED
      BY <1>2, <1>5, <1>11, <2>7, <3>1, GoingOn
  <2> QED
    BY <2>1, <2>8
<1>18. /\ phase' \in {"reading", "finished", "aborted"}
       /\ phase' = "reading" => ReadingIsRight'
       /\ phase' = "finished" => FinishedIsRight'
       /\ phase' = "aborted" => AbortedIsRight'
  BY <1>1, <1>16, <1>17
<1>19. /\ kind' = kind /\ source' = source /\ removed' = removed /\ inserted' = inserted
       /\ offset' = offset /\ take' = take /\ got' = got /\ page' = p
  BY <1>2, <1>4 DEF sourceVars
<1>20. position' \in Nat /\ bytesRead' \in Nat /\ guard' \in BOOLEAN
  BY <1>1, <1>2, <1>5, <1>7, <1>10 DEF limited
<1>21. kind' \in Paging!Kinds /\ SourceIsRight(source', removed', inserted')
  BY <1>19 DEF PagingInv
<1>22. Len(page') <= take'
  BY <1>13, <1>19 DEF k
<1> QED
  BY <1>3, <1>5, <1>12, <1>18, <1>19, <1>20, <1>21, <1>22 DEF PagingInv

\* The invariant is inductive.
LEMMA PagingStep ==
  ASSUME PagingInv, [Paging!Next]_(Paging!vars)
  PROVE  PagingInv'
<1>1. CASE Paging!Next
  <2>1. \/ Paging!NextItem \/ Paging!EndOfWalk \/ Paging!EndOfBody \/ Paging!NextPage \/ Paging!Abort
        \/ \E n \in 1..(MaxUrlBytes + 1) : Paging!Chunk(n)
        \/ \E i \in 1..Len(source) : Paging!RemoveItem(i)
        \/ \E i \in 1..(Len(source) + 1) : Paging!InsertItem(i)
    BY <1>1 DEF Paging!Next
  <2> QED
    BY <2>1, NextItemStep, EndOfWalkStep, EndOfBodyStep, NextPageStep, AbortStep, ChunkStep,
       RemoveItemStep, InsertItemStep
<1>2. CASE UNCHANGED Paging!vars
  <2>1. /\ kind' = kind /\ source' = source /\ removed' = removed /\ inserted' = inserted
        /\ offset' = offset /\ take' = take /\ phase' = phase /\ bytesRead' = bytesRead
        /\ position' = position /\ page' = page /\ more' = more /\ guard' = guard /\ total' = total
        /\ got' = got
    BY <1>2 DEF Paging!vars
  <2>2. /\ Paging!Unchanged' <=> Paging!Unchanged
        /\ Paging!Truncated' <=> Paging!Truncated
    BY <2>1 DEF Paging!Unchanged, Paging!Truncated
  <2>3. phase = "reading" => ReadingIsRight'
    <3> SUFFICES ASSUME phase = "reading" PROVE ReadingIsRight'
      OBVIOUS
    <3>1. ReadingIsRight
      BY DEF PagingInv
    <3>2. Lines(bytesRead)' = Lines(bytesRead)
      BY <2>1 DEF Lines, Paging!EndOf, Paging!Max
    <3>3. WalkIsRight'
      BY <2>1, <3>1, <3>2 DEF WalkIsRight, ReadingIsRight
    <3> QED
      BY <2>1, <2>2, <3>1, <3>3 DEF ReadingIsRight
  <2>4. phase = "finished" => FinishedIsRight'
    BY <2>1, <2>2 DEF PagingInv, FinishedIsRight
  <2>5. phase = "aborted" => AbortedIsRight'
    BY <2>1, <2>2 DEF PagingInv, AbortedIsRight
  <2> QED
    BY <2>1, <2>3, <2>4, <2>5 DEF PagingInv
<1> QED
  BY <1>1, <1>2

\* Item by item, and as a sequence.
LEMMA BeginningIs ==
  ASSUME NEW s \in Seq(Items), NEW g \in Seq(Items), IsBeginning(s, g)
  PROVE  g = SubSeq(s, 1, Len(g)) /\ (Len(g) = Len(s) => g = s)
<1>1. Len(g) \in Nat /\ Len(s) \in Nat /\ Len(g) <= Len(s) /\ \A i \in 1..Len(g) : g[i] = s[i]
  BY LenProperties DEF IsBeginning
<1>2. Len(g) \in 0..Len(s)
  BY <1>1
<1> DEFINE t == SubSeq(s, 1, Len(g))
<1>3. t \in Seq(Items) /\ Len(t) = Len(g) /\ \A i \in 1..Len(g) : t[i] = s[i]
  BY <1>2, FrontOf
<1> HIDE DEF t
<1>4. g = t
  BY <1>1, <1>3, SeqEqual
<1>5. Len(g) = Len(s) => g = s
  BY <1>1, SeqEqual
<1> QED
  BY <1>4, <1>5 DEF t

\* It says what PagesAreTrue says.
LEMMA PagingInvIsEnough == PagingInv => Paging!PagesAreTrue
<1> SUFFICES ASSUME PagingInv PROVE Paging!PagesAreTrue
  OBVIOUS
<1> DEFINE all == got \o page
<1>1. /\ source \in Seq(Items) /\ Len(source) \in Nat /\ Len(page) <= take
      /\ offset \in Nat /\ phase \in {"reading", "finished", "aborted"}
      /\ got \in Seq(Items) /\ page \in Seq(Items) /\ all \in Seq(Items) /\ Len(got) = offset
  BY JoinIs, LenProperties DEF PagingInv, SourceIsRight
<1>2. /\ Paging!Repeated(all) <= Cardinality(inserted)
      /\ Paging!Unchanged => IsBeginning(source, all)
  <2>1. CASE phase = "reading"
    <3>1. Paging!Repeated(all) <= Cardinality(inserted)
      BY <2>1, ReadingFacts, PageCounts
    <3>2. Paging!Unchanged => IsBeginning(source, all)
      BY <2>1, ReadingFacts, BeginningGrows
    <3> QED
      BY <3>1, <3>2
  <2>2. CASE phase = "finished"
    <3> DEFINE m == offset + Len(page)
    <3>1. /\ AreCounted(source, removed, inserted, all, m) /\ Paging!Repeated(all) \in Int
          /\ IsFiniteSet(inserted) /\ source \in Seq(Items)
      BY <2>2, FinishedFacts DEF SourceIsRight
    <3>2. Paging!Repeated(all) + Cardinality(AheadOf(source, all, m)) <= Cardinality(inserted)
      BY <3>1 DEF AreCounted
    <3>3. Cardinality(AheadOf(source, all, m)) \in Nat /\ Cardinality(inserted) \in Nat
      BY <1>1, <3>1, AheadIsFinite, FS_CardinalityType, Zenon
    <3>4. Paging!Unchanged => IsBeginning(source, all)
      BY <2>2 DEF PagingInv, FinishedIsRight
    <3> HIDE DEF all, m
    <3>5. Paging!Repeated(all) <= Cardinality(inserted)
      BY <3>1, <3>2, <3>3
    <3> QED
      BY <3>4, <3>5
  <2>3. CASE phase = "aborted"
    BY <2>3 DEF PagingInv, AbortedIsRight
  <2> QED
    BY <1>1, <2>1, <2>2, <2>3
<1>3. Paging!Unchanged => all = SubSeq(source, 1, Len(all))
  <2> HIDE DEF all
  <2> QED
    BY <1>1, <1>2, BeginningIs
<1>4. phase = "finished" /\ Paging!Unchanged =>
        /\ ~Paging!Truncated => all = source
        /\ more => Len(all) < Len(source)
        /\ Paging!Truncated => Len(page) = take \/ guard
        /\ total # Paging!None => total = Len(source)
  <2> SUFFICES ASSUME phase = "finished", Paging!Unchanged
               PROVE  /\ ~Paging!Truncated => all = source
                      /\ more => Len(all) < Len(source)
                      /\ Paging!Truncated => Len(page) = take \/ guard
                      /\ total # Paging!None => total = Len(source)
    OBVIOUS
  <2>1. /\ IsBeginning(source, all)
        /\ Paging!Truncated => Len(all) < Len(source) /\ (Len(page) = take \/ guard)
        /\ ~Paging!Truncated => Len(all) = Len(source)
        /\ total # Paging!None => total = Len(source)
    BY DEF PagingInv, FinishedIsRight
  <2>2. more => Paging!Truncated
    BY DEF Paging!Truncated
  <2> HIDE DEF all
  <2>3. ~Paging!Truncated => all = source
    BY <1>1, <2>1, BeginningIs
  <2> QED
    BY <2>1, <2>2, <2>3
<1>5. phase = "finished" /\ ~Paging!Truncated =>
        Cardinality((1..Len(ItemSizes)) \ Paging!Names(all)) <= Cardinality(removed)
  BY DEF PagingInv, FinishedIsRight
<1>6. \A S : Paging!Cardinality(S) = Cardinality(S)
  BY PagesCount
<1> QED
  BY <1>1, <1>2, <1>3, <1>4, <1>5, <1>6, Zenon DEF Paging!PagesAreTrue

\* For the readers by themselves.
LEMMA ReadersTellTheTruth == Paging!Spec => []Paging!PagesAreTrue
<1>1. Paging!Init => PagingInv
  BY PagingInitially
<1>2. PagingInv /\ [Paging!Next]_(Paging!vars) => PagingInv'
  BY PagingStep
<1>3. PagingInv => Paging!PagesAreTrue
  BY PagingInvIsEnough
<1> QED
  BY <1>1, <1>2, <1>3, PTL DEF Paging!Spec

\* Pages of a text, a body or a directory say what is so, and what somebody who changes
\* it between two of them costs: files.ts and directories.ts.
THEOREM PagesTellTheTruth == ToolsSpec => []PagesAreTrue
<1>1. Paging!PagesAreTrue => PagesAreTrue
  BY DEF PagesAreTrue
<1> QED
  BY <1>1, ToolsImplementTheirParts, ReadersTellTheTruth, PTL
-----------------------------------------------------------------------------
(***************************************************************************)
(* The output of a process.  The chunks lie one behind the other on the    *)
(* end of what was written, and every one of them ends where a character   *)
(* begins: that is why cutting the first one is enough.                    *)
(***************************************************************************)
\* Buffer.concat, chunk by chunk.
LEMMA JoinedIs ==
  ASSUME NEW cs \in Seq(Seq(0..4))
  PROVE  /\ Output!Joined(cs)[0] = <<>>
         /\ \A k \in 0..Len(cs) : Output!Joined(cs)[k] \in Seq(0..4)
         /\ \A k \in 1..Len(cs) : Output!Joined(cs)[k] = Output!Joined(cs)[k - 1] \o cs[k]
<1> DEFINE L == Len(cs)
           S == Seq(0..4)
           step == [k \in 1..L |-> [s \in S |-> s \o cs[k]]]
           Next1(g, k) == IF k = 0 THEN <<>> ELSE g[k - 1] \o cs[k]
           J == Output!Joined(cs)
<1>1. L \in Nat /\ <<>> \in S /\ \A k \in 1..L : cs[k] \in S
  BY LenProperties, EmptySeq, ElementOfSeq
<1>2. step \in FoldSteps(L, S)
  <2>1. \A k \in 1..L : \A s \in S : s \o cs[k] \in S
    BY <1>1, JoinIs
  <2> HIDE DEF L, S
  <2> QED
    BY <2>1 DEF FoldSteps
<1>3. PICK f \in [0..L -> S] : f[0] = <<>> /\ \A k \in 1..L : f[k] = step[k][f[k - 1]]
  <2>1. Folds(L, S, <<>>, step) # {}
    <3> HIDE DEF L, step, S
    <3> QED
      BY <1>1, <1>2, FoldIsDefined
  <2> HIDE DEF L, step, S
  <2> QED
    BY <2>1 DEF Folds
<1>4. \A k \in 1..L : f[k - 1] \in S /\ f[k] = f[k - 1] \o cs[k]
  <2> TAKE k \in 1..L
  <2>1. k - 1 \in 0..L
    BY <1>1
  <2>2. f[k - 1] \in S
    <3> HIDE DEF S
    <3> QED
      BY <2>1, Zenon
  <2>3. step[k][f[k - 1]] = f[k - 1] \o cs[k]
    <3> HIDE DEF S, L
    <3> QED
      BY <2>2, Zenon
  <2> HIDE DEF step
  <2> QED
    BY <1>3, <2>2, <2>3, Zenon
<1>5. f = [k \in 0..L |-> Next1(f, k)]
  <2>1. \A k \in 0..L : f[k] = Next1(f, k)
    <3>1. \A k \in 0..L : k = 0 \/ (k \in 1..L /\ k # 0)
      BY <1>1
    <3> HIDE DEF step, L, S
    <3> QED
      BY <3>1, <1>3, <1>4, Zenon
  <2> HIDE DEF Next1, S
  <2> QED
    BY <2>1
<1>6. J = [k \in 0..L |-> Next1(J, k)]
  <2> HIDE DEF Next1
  <2>1. J = CHOOSE g : g = [k \in 0..L |-> Next1(g, k)]
    BY DEF Output!Joined, Next1
  <2> QED
    BY <1>5, <2>1, Zenon
<1>7. \A k \in 0..L : J[k] = Next1(J, k)
  <2> HIDE DEF Next1, J
  <2> QED
    BY <1>6, Zenon
<1> HIDE DEF J
<1> DEFINE G == {k \in Nat : k <= L => J[k] = f[k]}
<1>8. J[0] = <<>> /\ \A k \in 1..L : J[k] = J[k - 1] \o cs[k]
  <2>1. 0 \in 0..L /\ \A k \in 1..L : k \in 0..L /\ k # 0
    BY <1>1
  <2> HIDE DEF L
  <2> QED
    BY <1>7, <2>1, Zenon
<1>9. 0 \in G
  BY <1>3, <1>8
<1>10. ASSUME NEW k \in Nat, k \in G PROVE k + 1 \in G
  <2> SUFFICES ASSUME k + 1 <= L PROVE J[k + 1] = f[k + 1]
    OBVIOUS
  <2>1. k + 1 \in 1..L /\ J[k] = f[k] /\ (k + 1) - 1 = k
    BY <1>1, <1>10
  <2> HIDE DEF S, step, L, G
  <2> QED
    BY <1>4, <1>8, <2>1, Zenon
<1>11. \A k \in Nat : k \in G
  <2> HIDE DEF G
  <2>1. \A k \in Nat : k \in G => k + 1 \in G
    BY <1>10
  <2> QED
    BY <1>9, <2>1, CountingUp, Zenon
<1>12. \A k \in 0..L : J[k] \in S
  <2> TAKE k \in 0..L
  <2>1. J[k] = f[k]
    BY <1>1, <1>11
  <2> HIDE DEF S
  <2> QED
    BY <2>1
<1> QED
  BY <1>8, <1>12, Zenon DEF J

\* What is joined is what was written.
LEMMA JoinedLies ==
  ASSUME NEW cs \in Seq(Seq(0..4)), NEW w \in Seq(0..4), NEW e, Laid(cs, w, e)
  PROVE  /\ \A k \in 0..Len(cs) : Len(Output!Joined(cs)[k]) = e[k] - e[0]
         /\ Output!Bytes(cs) = SubSeq(w, e[0] + 1, Len(w))
<1> DEFINE L == Len(cs)
           J == Output!Joined(cs)
           G == {k \in Nat : k <= L => /\ Len(J[k]) = e[k] - e[0]
                                       /\ \A i \in 1..(e[k] - e[0]) : J[k][i] = w[e[0] + i]}
<1>1. /\ J[0] = <<>> /\ \A k \in 0..L : J[k] \in Seq(0..4)
      /\ \A k \in 1..L : J[k] = J[k - 1] \o cs[k]
  BY JoinedIs, Zenon
<1> HIDE DEF J
<1>2. L \in Nat /\ Len(w) \in Nat /\ \A k \in 0..L : e[k] \in 0..Len(w) /\ e[k] \in Nat
  BY LenProperties DEF Laid
<1>3. e[L] = Len(w) /\ \A k \in 0..L : e[0] <= e[k]
  BY <1>2 DEF Laid
<1>4. \A k \in 1..L : /\ cs[k] \in Seq(0..4) /\ e[k] = e[k - 1] + Len(cs[k])
                      /\ \A i \in 1..Len(cs[k]) : cs[k][i] = w[e[k - 1] + i]
  BY DEF Laid
<1>5. 0 \in G
  <2>1. Len(J[0]) = 0 /\ e[0] - e[0] = 0
    BY <1>1, <1>2, EmptySeq
  <2> QED
    BY <2>1
<1>6. ASSUME NEW k \in Nat, k \in G PROVE k + 1 \in G
  <2> SUFFICES ASSUME k + 1 <= L
               PROVE  /\ Len(J[k + 1]) = e[k + 1] - e[0]
                      /\ \A i \in 1..(e[k + 1] - e[0]) : J[k + 1][i] = w[e[0] + i]
    OBVIOUS
  <2> DEFINE c == cs[k + 1]
             a == J[k]
  <2>1. k + 1 \in 1..L /\ k \in 0..L /\ (k + 1) - 1 = k
    BY <1>2
  <2>2. /\ c \in Seq(0..4) /\ e[k + 1] = e[k] + Len(c)
        /\ \A i \in 1..Len(c) : c[i] = w[e[k] + i]
    BY <1>4, <2>1
  <2>3. a \in Seq(0..4) /\ J[k + 1] = a \o c
    BY <1>1, <2>1, Zenon
  <2>4. Len(a) = e[k] - e[0] /\ \A i \in 1..(e[k] - e[0]) : a[i] = w[e[0] + i]
    BY <1>6, <2>1
  <2> HIDE DEF a, c, G
  <2>5. /\ Len(J[k + 1]) = Len(a) + Len(c) /\ \A i \in 1..Len(a) : J[k + 1][i] = a[i]
        /\ \A i \in 1..Len(c) : J[k + 1][Len(a) + i] = c[i]
    BY <2>2, <2>3, JoinIs
  <2>6. e[k] \in Nat /\ e[0] \in Nat /\ e[0] <= e[k] /\ Len(c) \in Nat /\ Len(a) \in Nat
    BY <1>2, <1>3, <2>1, <2>2, <2>3, LenProperties
  <2>7. Len(J[k + 1]) = e[k + 1] - e[0]
    BY <2>2, <2>4, <2>5, <2>6
  <2>8. ASSUME NEW i \in 1..(e[k + 1] - e[0]) PROVE J[k + 1][i] = w[e[0] + i]
    <3>1. CASE i <= Len(a)
      <4>1. i \in 1..Len(a)
        BY <2>6, <3>1
      <4> QED
        BY <2>4, <2>5, <4>1, Zenon
    <3>2. CASE ~(i <= Len(a))
      <4>1. i - Len(a) \in 1..Len(c) /\ Len(a) + (i - Len(a)) = i /\ e[k] + (i - Len(a)) = e[0] + i
        <5>1. e[k + 1] = e[k] + Len(c) /\ Len(a) = e[k] - e[0]
          BY <2>2, <2>4
        <5>2. i \in Nat /\ i >= 1 /\ i <= e[k + 1] - e[0]
          <6>1. e[k + 1] - e[0] \in Nat
            BY <2>6, <5>1
          <6> QED
            BY <6>1
        <5> DEFINE n == Len(a)
                   l == Len(c)
                   x == e[k]
                   y == e[0]
        <5>3. x \in Nat /\ y \in Nat /\ n \in Nat /\ l \in Nat /\ i \in Nat
          BY <2>6, <5>2
        <5>4. i <= (x + l) - y /\ n = x - y /\ ~(i <= n)
          BY <3>2, <5>1, <5>2
        <5> HIDE DEF n, l, x, y
        <5>5. i - n \in 1..l /\ n + (i - n) = i /\ x + (i - n) = y + i
          BY <5>3, <5>4
        <5> QED
          BY <5>5 DEF n, l, x, y
      <4>2. J[k + 1][Len(a) + (i - Len(a))] = c[i - Len(a)]
        BY <2>5, <4>1
      <4>3. c[i - Len(a)] = w[e[k] + (i - Len(a))]
        BY <2>2, <4>1, Zenon
      <4> QED
        BY <4>1, <4>2, <4>3, Zenon
    <3> QED
      BY <3>1, <3>2
  <2> QED
    BY <2>7, <2>8, Zenon
<1>7. \A k \in Nat : k \in G
  <2> HIDE DEF G
  <2>1. \A k \in Nat : k \in G => k + 1 \in G
    BY <1>6
  <2> QED
    BY <1>5, <2>1, CountingUp, Zenon
<1>8. \A k \in 0..L : Len(J[k]) = e[k] - e[0]
  BY <1>2, <1>7
<1> DEFINE t == SubSeq(w, e[0] + 1, Len(w))
<1>9. e[0] \in 0..Len(w)
  BY <1>2
<1>10. /\ t \in Seq(0..4) /\ Len(t) = Len(w) - e[0]
       /\ \A i \in 1..(Len(w) - e[0]) : t[i] = w[e[0] + i]
  BY <1>9, BackOf, Zenon
<1> HIDE DEF t
<1>11. /\ Len(J[L]) = Len(w) - e[0] /\ J[L] \in Seq(0..4)
       /\ \A i \in 1..(Len(w) - e[0]) : J[L][i] = w[e[0] + i]
  <2>1. L \in 0..L /\ L \in G
    BY <1>2, <1>7
  <2> QED
    BY <1>1, <1>2, <1>3, <2>1
<1>12. J[L] = t
  <2> HIDE DEF G, L
  <2> QED
    BY <1>2, <1>10, <1>11, SeqEqual
<1> QED
  BY <1>8, <1>12 DEF J, t, Output!Bytes

\* Min and Max of the sets the code takes them of.
LEMMA LeastIs ==
  ASSUME NEW S, S \subseteq Nat, S # {}
  PROVE  Output!Min(S) \in S /\ \A n \in S : Output!Min(S) <= n
<1>1. \E m \in S : \A n \in S : m <= n
  BY LeastNumber, Zenon
<1> QED
  BY <1>1, Zenon DEF Output!Min

\* The set is bounded.
LEMMA GreatestIs ==
  ASSUME NEW N \in Nat, NEW S, S \subseteq 0..N, S # {}
  PROVE  Output!Max(S) \in S /\ \A n \in S : n <= Output!Max(S)
<1> DEFINE T == {n \in Nat : n <= N /\ N - n \in S}
<1>1. \A n \in S : N - n \in T /\ n \in Nat
  <2> TAKE n \in S
  <2>1. n \in 0..N
    OBVIOUS
  <2>2. n \in Nat /\ N - n \in Nat /\ N - n <= N /\ N - (N - n) = n
    BY <2>1
  <2> QED
    BY <2>2
<1>2. T \subseteq Nat /\ \A m \in T : m \in Nat /\ N - m \in S
  OBVIOUS
<1> HIDE DEF T
<1>3. PICK m \in T : \A n \in T : m <= n
  <2>1. T # {}
    BY <1>1, Zenon
  <2> QED
    BY <1>2, <2>1, LeastNumber, Zenon
<1>4. N - m \in S /\ \A n \in S : N - m >= n
  <2>1. m \in Nat /\ N - m \in S
    BY <1>2
  <2>2. ASSUME NEW n \in S PROVE N - m >= n
    <3>1. m <= N - n /\ n \in Nat
      BY <1>1, <1>3
    <3> QED
      BY <2>1, <3>1
  <2> QED
    BY <2>1, <2>2
<1>5. \E x \in S : \A y \in S : x >= y
  BY <1>4, Zenon
<1>6. Output!Max(S) \in S /\ \A n \in S : Output!Max(S) >= n
  BY <1>5, Zenon DEF Output!Max
<1>7. \A n \in S : n \in Nat
  BY <1>1
<1> QED
  BY <1>6, <1>7

\* safeUtf8Start: the first offset that is not inside a character, or the end.
LEMMA StartIs ==
  ASSUME NEW b \in Seq(0..4), NEW start \in Nat, NEW end \in Nat, start <= end, end <= Len(b)
  PROVE  LET r == Output!SafeStart(b, start, end) IN
         /\ r \in Nat /\ start <= r /\ r <= end /\ (r = end \/ b[r + 1] # 0)
         /\ \A i \in start..(end - 1) : b[i + 1] # 0 => r <= i
<1> DEFINE r == Output!SafeStart(b, start, end)
           T == {i \in start..(end - 1) : b[i + 1] # Output!Cont} \cup {Output!Max2(start, end)}
<1>1. r = Output!Min(T)
  BY DEF Output!SafeStart
<1> USE DEF Output!Max2, Output!Cont
<1>2. T \subseteq Nat /\ end \in T /\ \A i \in T : start <= i /\ i <= end /\ (i = end \/ b[i + 1] # 0)
  OBVIOUS
<1>3. \A i \in start..(end - 1) : b[i + 1] # 0 => i \in T
  OBVIOUS
<1> HIDE DEF T
<1>4. r \in T /\ \A i \in T : r <= i
  BY <1>1, <1>2, LeastIs, Zenon
<1> QED
  BY <1>2, <1>3, <1>4, Zenon

\* safeUtf8End: the last character that begins in the range, and whether it ends with it.
LEMMA EndIs ==
  ASSUME NEW b \in Seq(0..4), NEW start \in Nat, NEW end \in Nat, start < end, end <= Len(b)
  PROVE  \E lead \in start..(end - 1) :
           /\ lead = start \/ b[lead + 1] # 0
           /\ \A i \in start..(end - 1) : b[i + 1] # 0 => i <= lead
           /\ b[lead + 1] \in 0..4
           /\ Output!SafeEnd(b, start, end) = IF lead + b[lead + 1] = end THEN end ELSE lead
<1> DEFINE T == {start} \cup {i \in start..(end - 1) : b[i + 1] # 0}
           lead == Output!Max(T)
<1>1. T \subseteq 0..end /\ T \subseteq start..(end - 1) /\ T # {} /\ \A i \in T : i = start \/ b[i + 1] # 0
  OBVIOUS
<1>2. \A i \in start..(end - 1) : b[i + 1] # 0 => i \in T
  OBVIOUS
<1>3. ~(end <= start)
  OBVIOUS
<1>4. Output!SafeEnd(b, start, end) = IF lead + b[lead + 1] = end THEN end ELSE lead
  BY <1>3 DEF Output!SafeEnd, Output!Cont
<1> HIDE DEF T
<1>5. lead \in T /\ \A i \in T : i <= lead
  BY <1>1, GreatestIs, Zenon
<1> HIDE DEF lead
<1>6. b[lead + 1] \in 0..4
  <2>1. lead \in start..(end - 1) /\ Len(b) \in Nat
    BY <1>1, <1>5, LenProperties
  <2>2. lead + 1 \in 1..Len(b)
    BY <2>1
  <2> QED
    BY <2>2, ElementOfSeq
<1> QED
  BY <1>1, <1>2, <1>4, <1>5, <1>6, Zenon

\* The last bytes, from a whole character on.
LEMMA TailIs ==
  ASSUME NEW b \in Seq(0..4), NEW max \in Nat
  PROVE  LET c == Output!SafeTail(b, max) IN
         \E r \in 0..Len(b) :
           /\ IsEnd(c, b, r)
           /\ Len(b) - r <= max /\ (r = Len(b) \/ b[r + 1] # 0)
           /\ \A i \in 0..(Len(b) - 1) : Len(b) - i <= max /\ b[i + 1] # 0 => r <= i
<1> DEFINE start == IF Len(b) - max > 0 THEN Len(b) - max ELSE 0
           r == Output!SafeStart(b, start, Len(b))
           c == SubSeq(b, r + 1, Len(b))
<1>1. Len(b) \in Nat
  BY LenProperties
<1>2. Output!Max2(0, Len(b) - max) = start
  BY <1>1 DEF Output!Max2
<1>3. Output!SafeTail(b, max) = c
  BY <1>2, Zenon DEF Output!SafeTail
<1>4. start \in Nat /\ start <= Len(b) /\ Len(b) - start <= max
  BY <1>1
<1>5. \A i \in 0..(Len(b) - 1) : Len(b) - i <= max => i \in start..(Len(b) - 1)
  BY <1>1
<1> HIDE DEF start
<1>6. /\ r \in Nat /\ start <= r /\ r <= Len(b) /\ (r = Len(b) \/ b[r + 1] # 0)
      /\ \A i \in start..(Len(b) - 1) : b[i + 1] # 0 => r <= i
  <2>1. Len(b) <= Len(b)
    BY <1>1
  <2> QED
    BY <1>1, <1>4, <2>1, StartIs, Zenon
<1> HIDE DEF r
<1>7. r \in 0..Len(b) /\ Len(b) - r <= max
  BY <1>1, <1>4, <1>6
<1>8. /\ c \in Seq(0..4) /\ Len(c) = Len(b) - r /\ \A i \in 1..(Len(b) - r) : c[i] = b[r + i]
  BY <1>7, BackOf, Zenon
<1> HIDE DEF c
<1>9. \A i \in 0..(Len(b) - 1) : Len(b) - i <= max /\ b[i + 1] # 0 => r <= i
  BY <1>5, <1>6, Zenon
<1>10. IsEnd(c, b, r)
  BY <1>7, <1>8 DEF IsEnd
<1> QED
  BY <1>3, <1>6, <1>7, <1>9, <1>10

\* Whole characters behind whole characters.
LEMMA WholeJoin ==
  ASSUME NEW w, Output!Whole(w), NEW t, Output!Whole(t)
  PROVE  Output!Whole(w \o t)
<1> DEFINE u == w \o t
<1>1. w \in Seq(0..4) /\ t \in Seq(0..4)
  BY DEF Output!Whole
<1>2. /\ u \in Seq(0..4) /\ Len(u) = Len(w) + Len(t)
      /\ \A i \in 1..Len(w) : u[i] = w[i]
      /\ \A i \in 1..Len(t) : u[Len(w) + i] = t[i]
  BY <1>1, JoinIs
<1> HIDE DEF u
<1>3. Len(w) \in Nat /\ Len(t) \in Nat /\ Len(u) \in Nat
  BY <1>1, <1>2, LenProperties
<1>4. /\ Len(w) > 0 => w[1] # 0
      /\ Len(t) > 0 => t[1] # 0
  BY <1>1, EmptySeq DEF Output!Whole, Output!Cont
<1>5. Len(t) > 0 => u[Len(w) + 1] # 0
  <2> SUFFICES ASSUME Len(t) > 0 PROVE u[Len(w) + 1] # 0
    OBVIOUS
  <2>1. 1 \in 1..Len(t)
    BY <1>3
  <2> QED
    BY <1>2, <1>4, <2>1
<1>6. u # <<>> => u[1] # 0
  <2> SUFFICES ASSUME u # <<>> PROVE u[1] # 0
    OBVIOUS
  <2>1. Len(u) > 0
    BY <1>2, <1>3, EmptySeq
  <2>2. CASE Len(w) > 0
    <3>1. 1 \in 1..Len(w)
      BY <1>3, <2>2
    <3> QED
      BY <1>2, <1>4, <2>2, <3>1
  <2>3. CASE ~(Len(w) > 0)
    <3>1. Len(w) + 1 = 1 /\ Len(t) > 0
      BY <1>2, <1>3, <2>1, <2>3
    <3> QED
      BY <1>5, <3>1
  <2> QED
    BY <2>2, <2>3
<1>7. ASSUME NEW i \in 0..(Len(u) - 1), u[i + 1] # 0
      PROVE  LET end == i + u[i + 1] IN end = Len(u) \/ (end < Len(u) /\ u[end + 1] # 0)
  <2>1. CASE i < Len(w)
    <3> DEFINE end == i + w[i + 1]
    <3>1. i + 1 \in 1..Len(w) /\ i \in 0..(Len(w) - 1) /\ i \in Nat
      BY <1>3, <2>1
    <3>2. u[i + 1] = w[i + 1] /\ w[i + 1] \in 0..4
      BY <1>1, <1>2, <3>1, ElementOfSeq
    <3>3. end \in Nat
      BY <3>1, <3>2
    <3>4. end = Len(w) \/ (end < Len(w) /\ w[end + 1] # 0)
      BY <1>7, <3>1, <3>2 DEF Output!Whole, Output!Cont
    <3> HIDE DEF end
    <3>5. CASE end = Len(w)
      <4>1. CASE Len(t) > 0
        <5>1. end < Len(u) /\ u[end + 1] # 0
          BY <1>2, <1>3, <1>5, <3>5, <4>1
        <5> QED
          BY <3>2, <5>1 DEF end
      <4>2. CASE ~(Len(t) > 0)
        <5>1. end = Len(u)
          BY <1>2, <1>3, <3>5, <4>2
        <5> QED
          BY <3>2, <5>1 DEF end
      <4> QED
        BY <4>1, <4>2
    <3>6. CASE end < Len(w) /\ w[end + 1] # 0
      <4>1. end + 1 \in 1..Len(w) /\ end < Len(u)
        BY <1>2, <1>3, <3>3, <3>6
      <4>2. u[end + 1] # 0
        BY <1>2, <3>6, <4>1
      <4> QED
        BY <3>2, <4>1, <4>2 DEF end
    <3> QED
      BY <3>4, <3>5, <3>6
  <2>2. CASE ~(i < Len(w))
    <3> DEFINE j == i - Len(w)
               end == j + t[j + 1]
    <3>1. j + 1 \in 1..Len(t) /\ j \in 0..(Len(t) - 1) /\ j \in Nat /\ Len(w) + (j + 1) = i + 1 /\ i = Len(w) + j
      BY <1>2, <1>3, <2>2
    <3> HIDE DEF j
    <3>2. u[i + 1] = t[j + 1] /\ t[j + 1] \in 0..4
      <4>1. u[Len(w) + (j + 1)] = t[j + 1]
        BY <1>2, <3>1, Zenon
      <4> QED
        BY <1>1, <3>1, <4>1, ElementOfSeq, Zenon
    <3>3. end \in Nat /\ i + u[i + 1] = Len(w) + end
      <4>1. t[j + 1] \in Nat
        BY <3>2
      <4> QED
        BY <1>3, <3>1, <3>2, <4>1
    <3>4. end = Len(t) \/ (end < Len(t) /\ t[end + 1] # 0)
      BY <1>7, <3>1, <3>2 DEF Output!Whole, Output!Cont
    <3> HIDE DEF end
    <3>5. CASE end = Len(t)
      BY <1>2, <3>3, <3>5
    <3>6. CASE end < Len(t) /\ t[end + 1] # 0
      <4>1. end + 1 \in 1..Len(t) /\ Len(w) + end < Len(u) /\ Len(w) + (end + 1) = Len(w) + end + 1
        BY <1>2, <1>3, <3>3, <3>6
      <4>2. u[Len(w) + (end + 1)] # 0
        BY <1>2, <3>6, <4>1
      <4> QED
        BY <3>3, <4>1, <4>2
    <3> QED
      BY <3>4, <3>5, <3>6
  <2> QED
    BY <2>1, <2>2
<1>8. Output!Whole(u)
  BY <1>2, <1>6, <1>7 DEF Output!Whole, Output!Cont
<1> QED
  BY <1>8 DEF u

\* The trimming loop of append: what is left is laid as before, fits, and has lost no
\* more than it had to.
LEMMA TrimIs ==
  ASSUME NEW cs \in Seq(Seq(0..4)), NEW w \in Seq(0..4), NEW e, Laid(cs, w, e),
         NEW kept, kept = Len(w) - e[0]
  PROVE  LET t == Output!Trim(cs, kept) IN
         \E f : /\ t.chunks \in Seq(Seq(0..4)) /\ Laid(t.chunks, w, f)
                /\ t.kept = Len(w) - f[0] /\ t.kept <= MaxOutput
                /\ kept <= MaxOutput => f[0] = e[0]
                /\ \/ f[0] = e[0]
                   \/ \A i \in 0..Len(w) : Len(w) - i <= MaxOutput /\ BeginsAt(w, i) => f[0] <= i
<1> DEFINE L == Len(cs)
           left(k) == kept - Len(Output!Joined(cs)[k])
           T == {k \in 0..L : \/ left(k) <= MaxOutput \/ k = L
                              \/ Len(cs[k + 1]) > left(k) - MaxOutput}
           n == Output!Min(T)
           rest == SubSeq(cs, n + 1, L)
           b == rest[1]
           c == Output!SafeTail(b, Len(b) - (left(n) - MaxOutput))
           t == Output!Trim(cs, kept)
           x == left(n) - MaxOutput
<1>1. t = IF left(n) <= MaxOutput \/ rest = <<>>
          THEN [chunks |-> rest, kept |-> left(n)]
          ELSE [chunks |-> [rest EXCEPT ![1] = c], kept |-> left(n) - (Len(b) - Len(c))]
  BY DEF Output!Trim
<1>2. /\ L \in Nat /\ Len(w) \in Nat /\ MaxOutput \in Nat
      /\ \A k \in 0..L : e[k] \in Nat /\ e[k] <= Len(w)
      /\ e[L] = Len(w)
  BY LaidFacts, TextsAreWhole, Zenon DEF Output!BufferAssumption, Laid
<1>3. \A k \in 0..L : left(k) = Len(w) - e[k]
  <2>1. \A k \in 0..L : Len(Output!Joined(cs)[k]) = e[k] - e[0]
    BY JoinedLies
  <2>2. ASSUME NEW k \in 0..L PROVE left(k) = Len(w) - e[k]
    <3>1. e[k] \in Nat /\ e[0] \in Nat /\ Len(Output!Joined(cs)[k]) = e[k] - e[0]
      BY <1>2, <2>1
    <3> QED
      BY <1>2, <3>1
  <2> QED
    BY <2>2
<1> HIDE DEF t, left
<1>4. /\ \A k \in 0..L : k \in T <=> \/ Len(w) - e[k] <= MaxOutput \/ k = L
                                     \/ Len(cs[k + 1]) > (Len(w) - e[k]) - MaxOutput
      /\ T \subseteq 0..L
  BY <1>3
<1> HIDE DEF T
<1>5. n \in T /\ n \in 0..L /\ n \in Nat /\ \A k \in T : n <= k
  <2>1. L \in T /\ T \subseteq Nat
    BY <1>2, <1>4
  <2>2. n \in T /\ \A k \in T : n <= k
    BY <2>1, LeastIs, Zenon
  <2> QED
    BY <1>4, <2>1, <2>2, Zenon
<1> HIDE DEF n
<1>6. left(n) = Len(w) - e[n] /\ e[n] \in Nat /\ e[n] <= Len(w)
  BY <1>2, <1>3, <1>5
<1>7. n > 0 => Len(w) - e[n] >= MaxOutput
  <2> SUFFICES ASSUME n > 0 PROVE Len(w) - e[n] >= MaxOutput
    OBVIOUS
  <2>1. n \in 1..L /\ n - 1 \in 0..L /\ (n - 1) + 1 = n /\ ~(n <= n - 1) /\ n - 1 # L
    BY <1>2, <1>5
  <2>2. n - 1 \notin T
    BY <1>5, <2>1
  <2>3. ~(Len(w) - e[n - 1] <= MaxOutput) /\ ~(Len(cs[(n - 1) + 1]) > (Len(w) - e[n - 1]) - MaxOutput)
    BY <1>4, <2>1, <2>2
  <2>4. e[n] = e[n - 1] + Len(cs[n]) /\ e[n - 1] \in Nat /\ Len(cs[n]) \in Nat
    BY <1>2, <2>1, LaidFacts, Zenon DEF Laid
  <2> DEFINE y == e[n - 1]
             l == Len(cs[n])
  <2>5. ~(l > (Len(w) - y) - MaxOutput) /\ e[n] = y + l /\ y \in Nat /\ l \in Nat
    BY <2>1, <2>3, <2>4
  <2> HIDE DEF y, l
  <2> QED
    BY <1>2, <1>6, <2>5
<1>8. /\ rest \in Seq(Seq(0..4)) /\ Len(rest) = L - n
      /\ \A k \in 1..(L - n) : rest[k] = cs[n + k]
      /\ \E g : Laid(rest, w, g) /\ g[0] = e[n]
  <2>1. n \in 0..Len(cs)
    BY <1>5
  <2>2. /\ rest \in Seq(Seq(0..4)) /\ Len(rest) = L - n
        /\ \A k \in 1..(L - n) : rest[k] = cs[n + k]
    BY <2>1, BackOf
  <2>3. IsBack(rest, cs, n)
    BY <2>1 DEF IsBack
  <2> HIDE DEF rest, L
  <2>4. \E g : Laid(rest, w, g) /\ g[0] = e[n]
    BY <2>3, DropLaid, SMT
  <2> QED
    BY <2>2, <2>4
<1> HIDE DEF L
<1>9. PICK g : Laid(rest, w, g) /\ g[0] = e[n]
  BY <1>8
<1> HIDE DEF rest
<1>10. rest = <<>> => n = L
  <2> SUFFICES ASSUME rest = <<>> PROVE n = L
    OBVIOUS
  <2>1. Len(rest) = 0
    BY EmptySeq
  <2> QED
    BY <1>2, <1>5, <1>8, <2>1
<1>11. rest = <<>> => left(n) <= MaxOutput
  BY <1>2, <1>6, <1>10
<1>12. CASE left(n) <= MaxOutput
  <2>1. t.chunks = rest /\ t.kept = left(n)
    BY <1>1, <1>12
  <2>2. e[n] = e[0] \/ \A i \in 0..Len(w) : Len(w) - i <= MaxOutput /\ BeginsAt(w, i) => e[n] <= i
    <3>1. CASE n = 0
      BY <3>1
    <3>2. CASE n > 0
      BY <1>2, <1>6, <1>7, <3>2
    <3> QED
      BY <1>5, <3>1, <3>2
  <2>3. kept <= MaxOutput => e[n] = e[0]
    <3> SUFFICES ASSUME kept <= MaxOutput PROVE n = 0
      OBVIOUS
    <3>1. 0 \in 0..L
      BY <1>2
    <3>2. 0 \in T
      BY <1>4, <3>1
    <3> QED
      BY <1>5, <3>2
  <2> QED
    BY <1>6, <1>8, <1>9, <1>12, <2>1, <2>2, <2>3 DEF t
<1>13. CASE ~(left(n) <= MaxOutput)
  <2>1. t.chunks = [rest EXCEPT ![1] = c] /\ t.kept = left(n) - (Len(b) - Len(c))
    BY <1>1, <1>11, <1>13, Zenon
  <2>2. n < L /\ Len(rest) > 0 /\ 1 \in 1..(L - n) /\ n + 1 \in 1..L
    <3>1. n # L
      BY <1>2, <1>6, <1>13
    <3> QED
      BY <1>2, <1>5, <1>8, <3>1
  <2>3. /\ b \in Seq(0..4) /\ Len(b) \in Nat /\ g[1] = g[0] + Len(b) /\ g[1] \in Nat /\ g[1] <= Len(w)
        /\ \A i \in 1..Len(b) : b[i] = w[g[0] + i]
        /\ BeginsAt(w, g[1])
    <3>1. 1 \in 1..Len(rest) /\ 1 \in 0..Len(rest) /\ 1 - 1 = 0
      BY <1>2, <1>5, <1>8, <2>2
    <3>2. b \in Seq(0..4) /\ Len(b) \in Nat /\ g[1] \in Nat /\ g[1] <= Len(w)
      BY <1>8, <1>9, <3>1, LaidFacts
    <3>3. BeginsAt(w, g[1]) /\ g[1] = g[1 - 1] + Len(b) /\ \A i \in 1..Len(b) : b[i] = w[g[1 - 1] + i]
      BY <1>9, <3>1 DEF Laid
    <3> QED
      BY <3>1, <3>2, <3>3
  <2>4. b = cs[n + 1]
    BY <1>8, <2>2
  <2>5. x \in Nat /\ x > 0 /\ Len(b) > x /\ x = (Len(w) - e[n]) - MaxOutput
    <3>1. Len(cs[n + 1]) > (Len(w) - e[n]) - MaxOutput
      BY <1>2, <1>4, <1>5, <1>6, <1>13, <2>2
    <3>2. PICK v \in Nat, m \in Nat, y \in Nat :
            v = e[n] /\ m = Len(w) /\ y = MaxOutput /\ v <= m
      BY <1>2, <1>6
    <3>3. PICK l \in Nat : l = Len(b)
      BY <2>3, LenProperties
    <3>4. l > (m - v) - y /\ x = (m - v) - y /\ ~((m - v) <= y)
      BY <1>6, <1>13, <2>4, <3>1, <3>2, <3>3
    <3>5. x \in Nat /\ x > 0 /\ l > x
      BY ONLY <3>2, <3>4, l \in Nat
    <3> QED
      BY <3>2, <3>3, <3>4, <3>5
  <2> HIDE DEF b, x
  <2>6. c = Output!SafeTail(b, Len(b) - x) /\ Len(b) - x \in Nat
    BY <2>3, <2>5 DEF x
  <2> HIDE DEF c
  <2>7. PICK r \in 0..Len(b) :
          /\ IsEnd(c, b, r)
          /\ Len(b) - r <= Len(b) - x /\ (r = Len(b) \/ b[r + 1] # 0)
          /\ \A i \in 0..(Len(b) - 1) : Len(b) - i <= Len(b) - x /\ b[i + 1] # 0 => r <= i
    <3> DEFINE max == Len(b) - x
    <3>1. max \in Nat
      BY <2>6
    <3> HIDE DEF max
    <3>2. LET d == Output!SafeTail(b, max) IN
          \E r \in 0..Len(b) :
            /\ IsEnd(d, b, r)
            /\ Len(b) - r <= max /\ (r = Len(b) \/ b[r + 1] # 0)
            /\ \A i \in 0..(Len(b) - 1) : Len(b) - i <= max /\ b[i + 1] # 0 => r <= i
      BY <2>3, <3>1, TailIs, Zenon
    <3>3. c = Output!SafeTail(b, max)
      BY <2>6 DEF max
    <3> QED
      BY <3>2, <3>3 DEF max
  <2>8. r \in Nat /\ r <= Len(b) /\ x <= r
    BY <2>3, <2>5, <2>7
  <2>v. PICK v \in Nat, m \in Nat, l \in Nat : v = e[n] /\ m = Len(w) /\ l = Len(b)
    BY <1>2, <1>6, <2>3
  <2>n. v \in Nat /\ m \in Nat /\ l \in Nat /\ r \in Nat /\ r <= l /\ x <= r /\ v + l <= m /\ x \in Nat /\ x > 0 /\ l > x
        /\ x = (m - v) - MaxOutput /\ MaxOutput \in Nat
    BY <1>2, <1>9, <2>3, <2>5, <2>8, <2>v
  <2>9. BeginsAt(w, e[n] + r)
    <3>1. CASE r = Len(b)
      BY <1>9, <2>3, <3>1
    <3>2. CASE r # Len(b)
      <4>1. r + 1 \in 1..Len(b) /\ e[n] + (r + 1) = e[n] + r + 1
        <5>1. r # l
          BY <3>2, <2>v
        <5>2. r + 1 \in 1..l /\ v + (r + 1) = v + r + 1
          BY <2>n, <5>1
        <5> QED
          BY <5>2, <2>v
      <4>2. b[r + 1] = w[e[n] + (r + 1)]
        BY <1>9, <2>3, <4>1
      <4> QED
        BY <2>7, <3>2, <4>1, <4>2 DEF BeginsAt, Output!Cont
    <3> QED
      BY <3>1, <3>2
  <2>10. /\ [rest EXCEPT ![1] = c] \in Seq(Seq(0..4))
         /\ \E f : Laid([rest EXCEPT ![1] = c], w, f) /\ f[0] = g[0] + r
    <3>1. BeginsAt(w, g[0] + r) /\ rest[1] = b
      BY <1>9, <2>9 DEF b
    <3>2. IsEnd(c, rest[1], r)
      BY <2>7, <3>1
    <3> QED
      <4>1. rest \in Seq(Seq(0..4)) /\ Laid(rest, w, g) /\ Len(rest) > 0
        BY <1>8, <1>9, <2>2, <3>1
      <4> DEFINE ds == [rest EXCEPT ![1] = c]
                 i == g[0] + r
      <4> HIDE DEF x, b, c, t, n, rest
      <4>2. IsCut(ds, rest, w, g, i)
        BY <3>1, <3>2, Zenon DEF IsCut
      <4> HIDE DEF ds, i
      <4>3. ds \in Seq(Seq(0..4)) /\ \E f : Laid(ds, w, f) /\ f[0] = i
        BY <4>1, <4>2, CutLaid
      <4> QED
        BY <4>3 DEF ds, i
  <2>11. PICK f : Laid(t.chunks, w, f) /\ f[0] = e[n] + r
    BY <1>9, <2>1, <2>10
  <2>12. t.kept = Len(w) - f[0] /\ t.kept <= MaxOutput
    <3>1. left(n) = m - v /\ Len(c) = l - r /\ f[0] = v + r
      BY <1>6, <2>7, <2>11, <2>v DEF IsEnd
    <3>2. (m - v) - (l - (l - r)) = m - (v + r) /\ m - (v + r) <= MaxOutput
      BY <2>n
    <3> QED
      BY <2>1, <2>v, <3>1, <3>2
  <2>13. ASSUME NEW i \in 0..Len(w), Len(w) - i <= MaxOutput, BeginsAt(w, i) PROVE f[0] <= i
    <3> SUFFICES ASSUME i < e[n] + r PROVE FALSE
      BY <1>6, <2>8, <2>11
    <3> DEFINE j == i - e[n]
    <3>1. j \in 0..(Len(b) - 1) /\ Len(b) - j <= Len(b) - x /\ j < r /\ j + 1 \in 1..Len(b)
          /\ e[n] + (j + 1) = i + 1 /\ i < Len(w) /\ j \in Nat
      <4>1. i \in Nat /\ i < v + r /\ m - i <= MaxOutput
        BY <2>13, <1>2, <2>v
      <4>2. i - v \in 0..(l - 1) /\ l - (i - v) <= l - x /\ i - v < r /\ (i - v) + 1 \in 1..l
            /\ v + ((i - v) + 1) = i + 1 /\ i < m /\ i - v \in Nat
        BY <2>n, <4>1
      <4> QED
        BY <2>v, <4>2
    <3> HIDE DEF j
    <3>2. w[i + 1] # 0
      BY <1>2, <2>13, <3>1 DEF BeginsAt, Output!Cont
    <3>3. b[j + 1] = w[i + 1]
      BY <1>9, <2>3, <3>1
    <3>4. r <= j
      BY <2>7, <3>1, <3>2, <3>3
    <3> QED
      BY <2>8, <3>1, <3>4
  <2>14. ~(kept <= MaxOutput)
    <3>1. e[0] \in Nat /\ e[0] <= e[n]
      <4>1. 0 \in 0..L /\ 0 <= n
        BY <1>2, <1>5
      <4> QED
        BY <1>2, <1>5, <4>1 DEF Laid, L
    <3> QED
      BY <1>2, <1>6, <1>13, <3>1
  <2> QED
    BY <2>1, <2>10, <2>11, <2>12, <2>13, <2>14, Zenon DEF t
<1> QED
  BY <1>12, <1>13

\* The chunks cs, of kept bytes, are the longest end of w that fits and begins with a
\* whole character.
Buffered(cs, w, kept) ==
  /\ w \in Seq(0..4) /\ Output!Whole(w) /\ cs \in Seq(Seq(0..4))
  /\ kept \in Nat /\ kept <= MaxOutput
  /\ \E e : Laid(cs, w, e) /\ e[0] = Len(w) - kept
  /\ \A i \in 0..Len(w) : Len(w) - i <= MaxOutput /\ BeginsAt(w, i) => Len(w) - kept <= i

\* The inductive invariant.
BufferInv ==
  /\ Buffered(chunks, written, retainedBytes)
  /\ totalBytes = Len(written)
  /\ retainedBytes < totalBytes => truncated

\* An appended text: it is whole and not empty.
LEMMA TextIs ==
  ASSUME NEW text \in Texts, text # <<>>
  PROVE  text \in Seq(0..4) /\ Output!Whole(text) /\ text[1] # 0 /\ Len(text) \in Nat /\ Len(text) > 0
<1>1. Output!Whole(text)
  BY TextsAreWhole DEF Output!BufferAssumption
<1> QED
  BY <1>1, LenProperties, EmptySeq DEF Output!Whole, Output!Cont

\* A text as large as the buffer: its end is what is left.
LEMMA LargeIs ==
  ASSUME NEW w \in Seq(0..4), Output!Whole(w), NEW text \in Texts, text # <<>>, Len(text) >= MaxOutput
  PROVE  LET tail == Output!SafeTail(text, MaxOutput) IN
         Buffered(IF tail = <<>> THEN <<>> ELSE <<tail>>, w \o text, Len(tail))
<1> DEFINE tail == Output!SafeTail(text, MaxOutput)
           u == w \o text
           cs == IF tail = <<>> THEN <<>> ELSE <<tail>>
<1>1. /\ text \in Seq(0..4) /\ Output!Whole(text) /\ text[1] # 0 /\ Len(text) \in Nat /\ Len(text) > 0
      /\ Len(w) \in Nat /\ MaxOutput \in Nat
  BY TextIs, LenProperties, TextsAreWhole DEF Output!BufferAssumption
<1>2. /\ u \in Seq(0..4) /\ Len(u) = Len(w) + Len(text)
      /\ \A i \in 1..Len(text) : u[Len(w) + i] = text[i]
  BY <1>1, JoinIs
<1>3. Output!Whole(u)
  BY <1>1, WholeJoin
<1>4. PICK r \in 0..Len(text) :
        /\ IsEnd(tail, text, r) /\ Len(text) - r <= MaxOutput /\ (r = Len(text) \/ text[r + 1] # 0)
        /\ \A i \in 0..(Len(text) - 1) : Len(text) - i <= MaxOutput /\ text[i + 1] # 0 => r <= i
  BY <1>1, TailIs, Zenon
<1> HIDE DEF tail
<1>5. r \in Nat /\ r <= Len(text) /\ tail \in Seq(0..4) /\ Len(tail) = Len(text) - r
  BY <1>1, <1>4 DEF IsEnd
<1>6. Len(u) - Len(tail) = Len(w) + r
  BY <1>1, <1>2, <1>5
<1>7. PICK f : Laid(<<text>>, u, f) /\ f[0] = Len(w)
  <2>1. PICK e : Laid(<<>>, w, e) /\ e[0] = Len(w)
    BY NothingLaid
  <2> DEFINE z == <<>>
  <2>2. z \in Seq(Seq(0..4)) /\ Append(z, text) = <<text>>
    BY EmptySeq
  <2> HIDE DEF z
  <2>3. /\ z \in Seq(Seq(0..4)) /\ Laid(z, w, e)
        /\ text \in Seq(0..4) /\ text # <<>> /\ text[1] # 0
    BY <1>1, <2>1, <2>2 DEF z
  <2>4. \E f : Laid(Append(z, text), w \o text, f) /\ f[0] = e[0]
    BY ONLY <2>3, w \in Seq(0..4), AppendLaid
  <2> QED
    BY <2>1, <2>2, <2>4
<1>8. ASSUME NEW i \in 0..Len(u), i >= Len(w), i < Len(u)
      PROVE  i - Len(w) \in 0..(Len(text) - 1) /\ u[i + 1] = text[(i - Len(w)) + 1]
  <2>1. /\ i - Len(w) \in 0..(Len(text) - 1) /\ (i - Len(w)) + 1 \in 1..Len(text)
        /\ Len(w) + ((i - Len(w)) + 1) = i + 1
    BY <1>1, <1>2, <1>8
  <2>2. u[Len(w) + ((i - Len(w)) + 1)] = text[(i - Len(w)) + 1]
    BY <1>2, <2>1
  <2> QED
    BY <2>1, <2>2
<1>9. BeginsAt(u, Len(w) + r)
  <2>1. CASE r = Len(text)
    BY <1>2, <2>1 DEF BeginsAt
  <2>2. CASE r # Len(text)
    <3>1. Len(w) + r \in 0..Len(u) /\ Len(w) + r >= Len(w) /\ Len(w) + r < Len(u) /\ (Len(w) + r) - Len(w) = r
      BY <1>1, <1>2, <1>5, <2>2
    <3>2. u[Len(w) + r + 1] = text[r + 1]
      BY <1>8, <3>1
    <3> QED
      BY <1>4, <2>2, <3>2 DEF BeginsAt, Output!Cont
  <2> QED
    BY <2>1, <2>2
<1>10. cs \in Seq(Seq(0..4)) /\ \E e : Laid(cs, u, e) /\ e[0] = Len(w) + r
  <2>1. CASE tail = <<>>
    <3>1. Len(tail) = 0
      BY <2>1, EmptySeq
    <3>2. Len(w) + r = Len(u)
      BY <1>1, <1>2, <1>5, <3>1
    <3>3. \E e : Laid(<<>>, u, e) /\ e[0] = Len(u)
      BY <1>2, NothingLaid, Zenon
    <3>4. cs = <<>> /\ <<>> \in Seq(Seq(0..4))
      BY <2>1, EmptySeq
    <3> QED
      BY <3>2, <3>3, <3>4
  <2>2. CASE tail # <<>>
    <3>1. cs = <<tail>>
      BY <2>2
    <3>2. Laid(<<text>>, u, f) /\ IsEnd(tail, text, r) /\ BeginsAt(u, f[0] + r) /\ u \in Seq(0..4)
      BY <1>2, <1>4, <1>7, <1>9
    <3>3. text \in Seq(0..4)
      BY <1>1
    <3> HIDE DEF u, cs
    <3>4. <<tail>> \in Seq(Seq(0..4)) /\ \E g : Laid(<<tail>>, u, g) /\ g[0] = f[0] + r
      BY ONLY <3>2, <3>3, CutOneLaid
    <3> QED
      BY <1>7, <3>1, <3>4
  <2> QED
    BY <2>1, <2>2, Zenon
<1> HIDE DEF u, cs
<1>11. ASSUME NEW i \in 0..Len(u), Len(u) - i <= MaxOutput, BeginsAt(u, i) PROVE Len(w) + r <= i
  <2>1. i >= Len(w) /\ i \in Nat
    <3>1. PICK a \in Nat, b \in Nat : a = Len(w) /\ b = Len(text) /\ Len(u) = a + b
      BY <1>1, <1>2
    <3> QED
      BY <1>1, <1>11, <3>1
  <2>2. CASE i = Len(u)
    BY <1>1, <1>2, <1>5, <2>2
  <2>3. CASE i # Len(u)
    <3> DEFINE j == i - Len(w)
    <3>1. i < Len(u)
      <4>1. PICK a \in Nat : a = Len(u)
        BY <1>1, <1>2
      <4> QED
        BY <2>3, <4>1
    <3>2. j \in 0..(Len(text) - 1) /\ u[i + 1] = text[j + 1]
      BY <1>8, <2>1, <3>1
    <3>3. text[j + 1] # 0
      BY <1>11, <2>3, <3>2 DEF BeginsAt, Output!Cont
    <3>4. Len(text) - j <= MaxOutput
      BY <1>1, <1>2, <1>11, <2>1
    <3> HIDE DEF j
    <3>5. r <= j /\ j \in Nat
      BY <1>1, <1>4, <3>2, <3>3, <3>4
    <3> QED
      BY <1>1, <1>5, <2>1, <3>5 DEF j
  <2> QED
    BY <2>2, <2>3
<1>12. Len(tail) \in Nat /\ Len(tail) <= MaxOutput
  BY <1>1, <1>4, <1>5
<1>13. Buffered(cs, u, Len(tail))
  BY <1>2, <1>3, <1>6, <1>10, <1>11, <1>12, Zenon DEF Buffered
<1> QED
  BY <1>13 DEF cs, u, tail

\* A smaller one: the chunks are trimmed.
LEMMA SmallIs ==
  ASSUME NEW cs, NEW w, NEW kept, Buffered(cs, w, kept), NEW text \in Texts, text # <<>>
  PROVE  LET t == Output!Trim(Append(cs, text), kept + Len(text)) IN
         /\ Buffered(t.chunks, w \o text, t.kept)
         /\ kept + Len(text) <= MaxOutput => t.kept = kept + Len(text)
<1> DEFINE u == w \o text
           ds == Append(cs, text)
           m == kept + Len(text)
           t == Output!Trim(ds, m)
<1>1. /\ w \in Seq(0..4) /\ Output!Whole(w) /\ cs \in Seq(Seq(0..4)) /\ kept \in Nat
      /\ \A i \in 0..Len(w) : Len(w) - i <= MaxOutput /\ BeginsAt(w, i) => Len(w) - kept <= i
  BY DEF Buffered
<1>2. PICK e : Laid(cs, w, e) /\ e[0] = Len(w) - kept
  BY DEF Buffered
<1>3. /\ text \in Seq(0..4) /\ Output!Whole(text) /\ text[1] # 0 /\ Len(text) \in Nat
      /\ Len(w) \in Nat /\ MaxOutput \in Nat
  BY <1>1, TextIs, LenProperties, TextsAreWhole DEF Output!BufferAssumption
<1>4. /\ u \in Seq(0..4) /\ Len(u) = Len(w) + Len(text)
      /\ \A i \in 1..Len(w) : u[i] = w[i]
  BY <1>1, <1>3, JoinIs
<1>5. Output!Whole(u)
  BY <1>1, <1>3, WholeJoin
<1>6. PICK f : Laid(ds, u, f) /\ f[0] = e[0]
  BY <1>1, <1>2, <1>3, AppendLaid
<1>7. ds \in Seq(Seq(0..4))
  BY <1>1, <1>3, AppendProperties
<1>8. e[0] \in Nat /\ e[0] <= Len(w)
  <2>1. 0 \in 0..Len(cs)
    BY <1>1, LenProperties
  <2> QED
    BY <1>1, <1>2, <2>1, LaidFacts
<1> HIDE DEF u, ds
<1>9. m = Len(u) - f[0]
  BY <1>1, <1>2, <1>3, <1>4, <1>6, <1>8
<1> HIDE DEF m
<1>10. PICK h : /\ t.chunks \in Seq(Seq(0..4)) /\ Laid(t.chunks, u, h)
                /\ t.kept = Len(u) - h[0] /\ t.kept <= MaxOutput
                /\ m <= MaxOutput => h[0] = f[0]
                /\ \/ h[0] = f[0]
                   \/ \A i \in 0..Len(u) : Len(u) - i <= MaxOutput /\ BeginsAt(u, i) => h[0] <= i
  <2>1. ds \in Seq(Seq(0..4)) /\ u \in Seq(0..4) /\ Laid(ds, u, f) /\ m = Len(u) - f[0]
    BY <1>4, <1>6, <1>7, <1>9
  <2> QED
    BY ONLY <2>1, TrimIs
<1> HIDE DEF t
<1>11. h[0] \in Nat /\ h[0] <= Len(u)
  <2>1. 0 \in 0..Len(t.chunks)
    BY <1>10, LenProperties
  <2> QED
    BY <1>4, <1>10, <2>1, LaidFacts
<1>12. ASSUME NEW i \in 0..Len(u), Len(u) - i <= MaxOutput, BeginsAt(u, i) PROVE h[0] <= i
  <2> SUFFICES ASSUME h[0] = f[0], i < e[0] PROVE FALSE
    BY <1>6, <1>8, <1>10, <1>11, <1>12
  <2>1. /\ i \in 0..Len(w) /\ i + 1 \in 1..Len(w) /\ Len(w) - i <= MaxOutput /\ i < Len(w)
        /\ i # Len(u) /\ i # Len(w)
    BY <1>3, <1>4, <1>8, <1>12
  <2>2. BeginsAt(w, i)
    BY <1>4, <1>12, <2>1 DEF BeginsAt
  <2>3. e[0] <= i
    BY <1>1, <1>2, <2>1, <2>2
  <2> QED
    BY <1>8, <2>1, <2>3
<1>13. t.kept \in Nat /\ t.kept <= MaxOutput /\ h[0] = Len(u) - t.kept
  BY <1>3, <1>4, <1>10, <1>11
<1>14. Buffered(t.chunks, u, t.kept)
  BY <1>4, <1>5, <1>10, <1>12, <1>13, Zenon DEF Buffered
<1>15. m <= MaxOutput => t.kept = m
  BY <1>9, <1>10
<1> QED
  BY <1>14, <1>15 DEF t, u, ds, m

\* It holds of an empty buffer.
LEMMA BufferInitially == Output!Init => BufferInv
<1> SUFFICES ASSUME Output!Init PROVE BufferInv
  OBVIOUS
<1>1. /\ chunks = <<>> /\ written = <<>> /\ totalBytes = 0 /\ retainedBytes = 0
  BY DEF Output!Init
<1>2. /\ <<>> \in Seq(0..4) /\ <<>> \in Seq(Seq(0..4)) /\ Len(<<>>) = 0 /\ MaxOutput \in Nat
  BY EmptySeq, TextsAreWhole DEF Output!BufferAssumption
<1>3. Output!Whole(<<>>)
  BY <1>2 DEF Output!Whole
<1>4. \E e : Laid(<<>>, <<>>, e) /\ e[0] = Len(<<>>)
  BY <1>2, NothingLaid, Zenon
<1>5. Buffered(<<>>, <<>>, 0)
  BY <1>2, <1>3, <1>4 DEF Buffered
<1> QED
  BY <1>1, <1>2, <1>5 DEF BufferInv

\* append keeps it, whichever way it goes.
LEMMA AppendTextStep ==
  ASSUME BufferInv, NEW text \in Texts, Output!AppendText(text)
  PROVE  BufferInv'
<1> DEFINE tail == Output!SafeTail(text, MaxOutput)
           t == Output!Trim(Append(chunks, text), retainedBytes + Len(text))
<1>1. /\ text # <<>> /\ written' = written \o text /\ totalBytes' = totalBytes + Len(text)
  BY DEF Output!AppendText
<1>2. /\ Buffered(chunks, written, retainedBytes) /\ totalBytes = Len(written)
      /\ written \in Seq(0..4) /\ Output!Whole(written) /\ retainedBytes \in Nat
      /\ retainedBytes < totalBytes => truncated
  BY DEF BufferInv, Buffered
<1>3. /\ text \in Seq(0..4) /\ Len(text) \in Nat /\ Len(written) \in Nat /\ MaxOutput \in Nat
  BY <1>1, <1>2, TextIs, LenProperties, TextsAreWhole DEF Output!BufferAssumption
<1>4. totalBytes' = Len(written')
  BY <1>1, <1>2, <1>3, JoinIs
<1>5. CASE Len(text) >= MaxOutput
  <2>1. /\ chunks' = IF tail = <<>> THEN <<>> ELSE <<tail>>
        /\ retainedBytes' = Len(tail) /\ truncated'
    BY <1>5, Zenon DEF Output!AppendText
  <2>2. Buffered(chunks', written', retainedBytes')
    BY <1>1, <1>2, <1>5, <2>1, LargeIs
  <2> QED
    BY <1>4, <2>1, <2>2 DEF BufferInv
<1>6. CASE ~(Len(text) >= MaxOutput)
  <2>1. /\ chunks' = t.chunks /\ retainedBytes' = t.kept
        /\ truncated' = (truncated \/ retainedBytes + Len(text) > MaxOutput)
    BY <1>6 DEF Output!AppendText
  <2>2. /\ Buffered(t.chunks, written', t.kept)
        /\ retainedBytes + Len(text) <= MaxOutput => t.kept = retainedBytes + Len(text)
    BY <1>1, <1>2, SmallIs
  <2> HIDE DEF t
  <2>3. retainedBytes' < totalBytes' => truncated'
    <3>1. PICK a \in Nat, b \in Nat, n \in Nat : a = Len(text) /\ b = Len(written) /\ n = retainedBytes
      BY <1>2, <1>3
    <3>2. /\ totalBytes' = b + a /\ totalBytes = b
          /\ n < totalBytes => truncated
          /\ truncated' = (truncated \/ n + a > MaxOutput)
      BY <1>1, <1>2, <2>1, <3>1
    <3>3. n + a <= MaxOutput => retainedBytes' = n + a
      BY <2>1, <2>2, <3>1
    <3>4. CASE n + a <= MaxOutput
      <4>1. retainedBytes' < totalBytes' => n < b
        BY <3>1, <3>2, <3>3, <3>4
      <4> QED
        BY <3>2, <4>1, Zenon
    <3>5. CASE ~(n + a <= MaxOutput)
      <4>1. n + a > MaxOutput
        BY <1>3, <3>1, <3>5
      <4> QED
        BY <3>2, <4>1, Zenon
    <3> QED
      BY <3>4, <3>5
  <2> QED
    BY <1>4, <2>1, <2>2, <2>3 DEF BufferInv
<1> QED
  BY <1>5, <1>6

\* Each character of b is followed by another one or by nothing.
Even(b) ==
  /\ b \in Seq(0..4)
  /\ \A i \in 0..(Len(b) - 1) :
       b[i + 1] # 0 => i + b[i + 1] = Len(b) \/ (i + b[i + 1] < Len(b) /\ b[i + b[i + 1] + 1] # 0)

\* What a range of whole characters is.
LEMMA RangeIs ==
  ASSUME NEW b, Even(b), NEW rs \in Nat, NEW re \in Nat, rs <= re, re <= Len(b)
  PROVE  LET s == Output!SafeStart(b, rs, re)
             n == Output!SafeEnd(b, s, re)
         IN /\ s \in Nat /\ n \in Nat /\ rs <= s /\ s <= n /\ n <= re
            /\ s < n => b[s + 1] # 0 /\ (n = Len(b) \/ b[n + 1] # 0)
            /\ rs < re /\ b[rs + 1] # 0 => s = rs
            /\ s < re /\ re = Len(b) => n = re
            /\ s < re /\ s + 4 <= re => s < n
<1> DEFINE s == Output!SafeStart(b, rs, re)
           n == Output!SafeEnd(b, s, re)
<1>1. b \in Seq(0..4) /\ Len(b) \in Nat
  BY LenProperties DEF Even
<1>2. /\ s \in Nat /\ rs <= s /\ s <= re /\ (s = re \/ b[s + 1] # 0)
      /\ \A i \in rs..(re - 1) : b[i + 1] # 0 => s <= i
  BY <1>1, StartIs, Zenon
<1> HIDE DEF s
<1>3. ASSUME rs < re, b[rs + 1] # 0 PROVE s = rs
  <2>1. rs \in rs..(re - 1)
    BY <1>3
  <2>2. s <= rs
    BY <1>2, <1>3, <2>1
  <2> QED
    BY <1>2, <2>2
<1>4. ASSUME s = re PROVE n = re
  BY <1>2, <1>4 DEF Output!SafeEnd
<1>5. ASSUME s < re
      PROVE  /\ n \in Nat /\ s <= n /\ n <= re
             /\ s < n => n = Len(b) \/ b[n + 1] # 0
             /\ re = Len(b) => n = re
             /\ s + 4 <= re => s < n
  <2>1. PICK lead \in s..(re - 1) :
          /\ lead = s \/ b[lead + 1] # 0
          /\ \A i \in s..(re - 1) : b[i + 1] # 0 => i <= lead
          /\ b[lead + 1] \in 0..4
          /\ n = IF lead + b[lead + 1] = re THEN re ELSE lead
    BY <1>1, <1>2, <1>5, EndIs, Zenon
  <2> HIDE DEF n
  <2> DEFINE size == b[lead + 1]
             end == lead + size
  <2>2. lead \in Nat /\ s <= lead /\ lead < re /\ lead \in 0..(Len(b) - 1)
    BY <1>1, <1>2, <2>1
  <2>3. size # 0 /\ size \in Nat /\ size > 0 /\ size <= 4
    <3>1. s # re
      BY <1>2, <1>5
    <3>2. size # 0
      BY <1>2, <2>1, <3>1
    <3> QED
      BY <2>1, <3>2
  <2>4. end = Len(b) \/ (end < Len(b) /\ b[end + 1] # 0)
    BY <2>2, <2>3 DEF Even
  <2>5. n = IF end = re THEN re ELSE lead
    BY <2>1
  <2>6. ASSUME end < re PROVE FALSE
    <3>1. end \in s..(re - 1) /\ end < Len(b) /\ end > lead
      BY <1>1, <1>2, <2>2, <2>3, <2>6
    <3>2. b[end + 1] # 0
      BY <1>1, <2>2, <2>3, <2>4, <3>1
    <3>3. end <= lead
      BY <2>1, <3>1, <3>2, Zenon
    <3> QED
      BY <2>2, <2>3, <3>1, <3>3
  <2>7. end \in Nat /\ end >= re
    <3>1. end \in Nat
      BY <2>2, <2>3
    <3> QED
      BY <2>6, <3>1
  <2>8. n = Len(b) \/ b[n + 1] # 0
    <3>1. CASE end = re
      BY <2>4, <2>5, <3>1
    <3>2. CASE end # re
      BY <2>3, <2>5, <3>2
    <3> QED
      BY <3>1, <3>2
  <2>9. re = Len(b) => n = re
    <3>1. end <= Len(b)
      BY <1>1, <2>4, <2>7
    <3> QED
      BY <1>1, <2>5, <2>7, <3>1
  <2>10. s + 4 <= re => s < n
    <3> SUFFICES ASSUME s + 4 <= re, ~(s < n) PROVE FALSE
      OBVIOUS
    <3>1. end # re /\ n = lead
      BY <1>2, <1>5, <2>5
    <3>2. lead = s
      BY <1>2, <2>2, <3>1
    <3>3. end <= s + 4
      BY <1>2, <2>3, <3>2
    <3> HIDE DEF end
    <3> QED
      BY <1>2, <2>7, <3>1, <3>3
  <2>11. n \in Nat /\ s <= n /\ n <= re
    BY <1>2, <2>2, <2>5
  <2> QED
    BY <2>8, <2>9, <2>10, <2>11
<1> HIDE DEF n
<1>6. /\ n \in Nat /\ s <= n /\ n <= re
      /\ s < n => b[s + 1] # 0 /\ (n = Len(b) \/ b[n + 1] # 0)
      /\ s < re /\ re = Len(b) => n = re
      /\ s < re /\ s + 4 <= re => s < n
  <2>1. CASE s = re
    <3>1. n = re /\ ~(s < re) /\ ~(s < n) /\ n \in Nat /\ s <= n /\ n <= re
      BY <1>2, <1>4, <2>1
    <3> QED
      BY <3>1
  <2>2. CASE s < re
    <3>1. b[s + 1] # 0
      <4>1. s # re
        BY <1>2, <2>2
      <4> QED
        BY <1>2, <4>1
    <3> QED
      BY <1>5, <2>2, <3>1
  <2>3. s = re \/ s < re
    BY <1>2
  <2> QED
    BY <2>1, <2>2, <2>3
<1>7. rs < re /\ b[rs + 1] # 0 => s = rs
  BY <1>3
<1> QED
  BY <1>2, <1>6, <1>7 DEF s, n

\* An end of whole characters that begins with one.
LEMMA EndIsEven ==
  ASSUME NEW w, Output!Whole(w), NEW b, NEW h, IsEnd(b, w, h)
  PROVE  Even(b)
<1>1. /\ w \in Seq(0..4) /\ h \in 0..Len(w) /\ b \in Seq(0..4) /\ Len(b) = Len(w) - h
      /\ \A i \in 1..Len(b) : b[i] = w[h + i]
  BY DEF IsEnd, Output!Whole
<1>2. Len(w) \in Nat /\ Len(b) \in Nat /\ h \in Nat
  BY <1>1, LenProperties
<1>3. ASSUME NEW i \in 0..(Len(b) - 1), b[i + 1] # 0
      PROVE  i + b[i + 1] = Len(b) \/ (i + b[i + 1] < Len(b) /\ b[i + b[i + 1] + 1] # 0)
  <2> DEFINE size == b[i + 1]
  <2>1. i \in Nat /\ i + 1 \in 1..Len(b) /\ h + i \in 0..(Len(w) - 1) /\ h + (i + 1) = (h + i) + 1
    <3>1. PICK l \in Nat, m \in Nat : l = Len(b) /\ m = Len(w)
      BY <1>2
    <3>2. m = h + l
      BY <1>1, <1>2, <3>1
    <3>3. l \in Nat /\ m \in Nat /\ h \in Nat /\ m = h + l /\ i \in 0..(l - 1)
      BY <1>2, <3>1, <3>2
    <3>4. i \in Nat /\ i + 1 \in 1..l /\ h + i \in 0..(m - 1) /\ h + (i + 1) = (h + i) + 1
      BY ONLY <3>3
    <3> QED
      BY <3>1, <3>4
  <2>2. size \in 0..4 /\ size = w[(h + i) + 1]
    BY <1>1, <2>1, ElementOfSeq
  <2>3. LET end == (h + i) + size IN end = Len(w) \/ (end < Len(w) /\ w[end + 1] # 0)
    BY <1>3, <2>1, <2>2, Zenon DEF Output!Whole, Output!Cont
  <2> HIDE DEF size
  <2>4. size \in Nat
    BY <2>2
  <2>5. CASE (h + i) + size = Len(w)
    <3>1. PICK l \in Nat, m \in Nat : l = Len(b) /\ m = Len(w) /\ l = m - h
      BY <1>1, <1>2, Zenon
    <3>2. i + size = l
      BY <1>2, <2>1, <2>4, <2>5, <3>1
    <3> QED
      BY <3>1, <3>2 DEF size
  <2>6. CASE (h + i) + size < Len(w) /\ w[(h + i) + size + 1] # 0
    <3>1. PICK l \in Nat, m \in Nat : l = Len(b) /\ m = Len(w) /\ l = m - h
      BY <1>1, <1>2, Zenon
    <3>2. i + size < l /\ i + size + 1 \in 1..l /\ h + (i + size + 1) = (h + i) + size + 1
      BY <1>2, <2>1, <2>4, <2>6, <3>1
    <3>3. b[i + size + 1] = w[h + (i + size + 1)]
      BY <1>1, <3>1, <3>2, Zenon
    <3>4. b[i + size + 1] # 0
      BY <2>6, <3>2, <3>3
    <3> QED
      BY <3>1, <3>2, <3>4 DEF size
  <2> QED
    BY <2>3, <2>5, <2>6
<1> QED
  BY <1>1, <1>3 DEF Even

\* There is no other step.
LEMMA BufferStep == BufferInv /\ [Output!Next]_(Output!vars) => BufferInv'
<1> SUFFICES ASSUME BufferInv, [Output!Next]_(Output!vars) PROVE BufferInv'
  OBVIOUS
<1>1. ASSUME NEW text \in Texts, Output!AppendText(text) PROVE BufferInv'
  BY <1>1, AppendTextStep
<1>2. CASE UNCHANGED Output!vars
  BY <1>2 DEF Output!vars, BufferInv
<1> QED
  BY <1>1, <1>2 DEF Output!Next

\* What a client reads in is what was written behind the first byte that is kept.
LEMMA BufferHolds ==
  ASSUME BufferInv
  PROVE  /\ totalBytes - retainedBytes \in Nat /\ totalBytes \in Nat /\ totalBytes = Len(written)
         /\ written \in Seq(0..4) /\ Output!Whole(written)
         /\ Len(written) - (totalBytes - retainedBytes) <= MaxOutput
         /\ BeginsAt(written, totalBytes - retainedBytes)
         /\ Output!Bytes(chunks) = SubSeq(written, totalBytes - retainedBytes + 1, Len(written))
         /\ IsEnd(Output!Bytes(chunks), written, totalBytes - retainedBytes)
         /\ retainedBytes = totalBytes - (totalBytes - retainedBytes)
<1>1. /\ chunks \in Seq(Seq(0..4)) /\ written \in Seq(0..4) /\ Output!Whole(written)
      /\ retainedBytes \in Nat /\ retainedBytes <= MaxOutput /\ totalBytes = Len(written)
  BY DEF BufferInv, Buffered
<1>2. PICK e : Laid(chunks, written, e) /\ e[0] = Len(written) - retainedBytes
  BY DEF BufferInv, Buffered
<1>3. 0 \in 0..Len(chunks)
  BY <1>1, LenProperties
<1>4. e[0] \in Nat /\ e[0] \in 0..Len(written) /\ BeginsAt(written, e[0])
  BY <1>1, <1>2, <1>3, LaidFacts, Zenon DEF Laid
<1>5. Output!Bytes(chunks) = SubSeq(written, e[0] + 1, Len(written))
  BY <1>1, <1>2, JoinedLies, Zenon
<1>6. IsEnd(Output!Bytes(chunks), written, e[0])
  <2> DEFINE c == SubSeq(written, e[0] + 1, Len(written))
  <2>1. /\ c \in Seq(0..4) /\ Len(c) = Len(written) - e[0]
        /\ \A i \in 1..(Len(written) - e[0]) : c[i] = written[e[0] + i]
    BY <1>1, <1>4, BackOf, Zenon
  <2> HIDE DEF c
  <2>2. IsEnd(c, written, e[0])
    BY <1>4, <2>1 DEF IsEnd
  <2> QED
    BY <1>5, <2>2 DEF c
<1>7. Len(written) \in Nat
  BY <1>1, LenProperties
<1>8. totalBytes - retainedBytes = e[0]
  BY <1>1, <1>2
<1>9. Len(written) - e[0] <= MaxOutput /\ retainedBytes = totalBytes - e[0]
  <2>1. MaxOutput \in Nat
    BY TextsAreWhole DEF Output!BufferAssumption
  <2> QED
    BY <1>1, <1>2, <1>4, <1>7, <2>1
<1> QED
  BY <1>1, <1>4, <1>5, <1>6, <1>7, <1>8, <1>9, Zenon

\* It says what is kept,
LEMMA BufferKeepsTheEnd ==
  ASSUME BufferInv PROVE Output!KeepsTheEnd
<1> DEFINE h == totalBytes - retainedBytes
           S == {i \in 0..Len(written) : Len(written) - i <= MaxOutput /\ Output!Boundary(i)}
           from == Output!Min(S)
<1>1. /\ h \in Nat /\ totalBytes = Len(written) /\ Len(written) - h <= MaxOutput
      /\ BeginsAt(written, h) /\ Output!Bytes(chunks) = SubSeq(written, h + 1, Len(written))
      /\ retainedBytes = totalBytes - h /\ h \in 0..Len(written)
  BY BufferHolds DEF IsEnd
<1>2. \A i : Output!Boundary(i) <=> BeginsAt(written, i)
  BY DEF Output!Boundary, BeginsAt, Output!Cont
<1>3. \A i \in 0..Len(written) : Len(written) - i <= MaxOutput /\ BeginsAt(written, i) => h <= i
  BY <1>1 DEF BufferInv, Buffered
<1> HIDE DEF h
<1>4. h \in S /\ \A i \in S : h <= i
  BY <1>1, <1>2, <1>3
<1>5. S \subseteq Nat
  OBVIOUS
<1> HIDE DEF S
<1>6. from \in S /\ \A i \in S : from <= i
  BY <1>4, <1>5, LeastIs, Zenon
<1> HIDE DEF from
<1>7. from = h
  <2>1. from \in Nat /\ from <= h /\ h <= from
    BY <1>4, <1>5, <1>6
  <2> QED
    BY <1>1, <2>1
<1>8. /\ Output!Bytes(chunks) = SubSeq(written, from + 1, Len(written))
      /\ totalBytes = Len(written)
      /\ retainedBytes = Len(written) - from
      /\ retainedBytes < totalBytes => truncated
  BY <1>1, <1>7 DEF BufferInv
<1> QED
  BY <1>8 DEF Output!KeepsTheEnd, from, S

\* and what a read of any range is: read, with both its searches for a boundary.
LEMMA BufferIsReadTruly ==
  ASSUME BufferInv, NEW o \in Output!Offsets, NEW l \in Output!Lengths
  PROVE  LET r == Output!ReadBytes(o, l)
             first == totalBytes - retainedBytes
         IN /\ r.text = SubSeq(written, r.offset + 1, r.end)
            /\ r.offset <= r.end /\ r.end <= totalBytes
            /\ r.text # <<>> => Output!Boundary(r.offset) /\ Output!Boundary(r.end)
            /\ o \in first..(totalBytes - 1) /\ Output!Boundary(o) =>
                 /\ r.offset = o
                 /\ l = Output!None => r.end = totalBytes
                 /\ l >= 4 => r.end > o
<1> DEFINE h == totalBytes - retainedBytes
           b == Output!Bytes(chunks)
           start == Output!Min2(totalBytes, Output!Max2(IF o = -1 THEN h ELSE o, h))
           asked == IF l = -1 THEN totalBytes ELSE Output!Min2(totalBytes, start + l)
           rs == Output!Max2(0, start - h)
           re == Output!Max2(rs, Output!Min2(totalBytes - h, asked - h))
           s == Output!SafeStart(b, rs, re)
           n == Output!SafeEnd(b, s, re)
           r == Output!ReadBytes(o, l)
<1>2. /\ h \in Nat /\ totalBytes \in Nat /\ totalBytes = Len(written) /\ h <= totalBytes
      /\ written \in Seq(0..4) /\ Output!Whole(written) /\ IsEnd(b, written, h)
  <2>1. /\ h \in Nat /\ totalBytes \in Nat /\ totalBytes = Len(written)
        /\ written \in Seq(0..4) /\ Output!Whole(written) /\ IsEnd(b, written, h)
    BY BufferHolds, Zenon
  <2>2. totalBytes - retainedBytes <= totalBytes
    BY ONLY <2>1 DEF IsEnd
  <2> QED
    BY <2>1, <2>2
<1>3. /\ b \in Seq(0..4) /\ Len(b) = totalBytes - h
      /\ \A i \in 1..(totalBytes - h) : b[i] = written[h + i]
  BY <1>2 DEF IsEnd
<1>1. /\ r.text = SubSeq(b, s + 1, n) /\ r.offset = h + s /\ r.end = h + n
  <2>1. Len(b) = totalBytes - h
    BY <1>3
  <2> QED
    BY ONLY <2>1 DEF Output!ReadBytes, Output!None
<1> HIDE DEF r, h, b
<1>4. o \in Nat \cup {-1} /\ l \in Nat \cup {-1} /\ l # 0
  <2>1. MaxWritten \in Nat
    BY TextsAreWhole DEF Output!BufferAssumption
  <2> QED
    BY <2>1 DEF Output!Offsets, Output!Lengths, Output!None
<1>5. /\ rs \in Nat /\ re \in Nat /\ rs <= re /\ re <= totalBytes - h
      /\ o \in h..(totalBytes - 1) => /\ h + rs = o /\ rs < re
                                      /\ l = -1 => re = totalBytes - h
                                      /\ l >= 4 => re = totalBytes - h \/ rs + 4 <= re
  <2>1. h \in Nat /\ totalBytes \in Nat /\ h <= totalBytes
    BY <1>2
  <2> QED
    BY ONLY <1>4, <2>1 DEF Output!Min2, Output!Max2
<1> HIDE DEF rs, re
<1>6. Even(b)
  BY <1>2, EndIsEven
<1>7. /\ s \in Nat /\ n \in Nat /\ rs <= s /\ s <= n /\ n <= re
      /\ s < n => b[s + 1] # 0 /\ (n = Len(b) \/ b[n + 1] # 0)
      /\ rs < re /\ b[rs + 1] # 0 => s = rs
      /\ s < re /\ re = Len(b) => n = re
      /\ s < re /\ s + 4 <= re => s < n
  <2>1. rs \in Nat /\ re \in Nat /\ rs <= re /\ re <= Len(b)
    BY <1>3, <1>5
  <2> QED
    BY ONLY <1>6, <2>1, RangeIs, Zenon
<1> HIDE DEF s, n
<1>8. PICK T \in Nat : T = totalBytes /\ T = Len(written)
  BY <1>2
<1>9. n <= T - h /\ h + n <= T /\ h + s <= h + n
  BY <1>2, <1>5, <1>7, <1>8
<1>10. SubSeq(b, s + 1, n) = SubSeq(written, (h + s) + 1, h + n)
  <2>1. n <= Len(b)
    BY <1>3, <1>8, <1>9
  <2>2. IsPartOfEnd(written, b, h, s, n)
    BY <1>2, <1>7, <2>1, Zenon DEF IsPartOfEnd
  <2>3. SameBytes(written, b, h, s, n)
    BY <2>2, PartOfEnd, Zenon
  <2> QED
    BY ONLY <2>3 DEF SameBytes
<1>11. ASSUME NEW i \in Nat, i <= T - h, i = Len(b) \/ b[i + 1] # 0 PROVE Output!Boundary(h + i)
  <2>1. CASE i = Len(b)
    <3>1. h + i = T
      BY <1>2, <1>3, <1>8, <2>1
    <3> QED
      BY <1>8, <3>1 DEF Output!Boundary
  <2>2. CASE i # Len(b)
    <3>1. i + 1 \in 1..(T - h) /\ h + (i + 1) = (h + i) + 1
      BY <1>2, <1>3, <1>8, <1>11, <2>2
    <3>2. b[i + 1] = written[(h + i) + 1]
      BY <1>3, <1>8, <3>1
    <3> QED
      BY <1>11, <2>2, <3>2 DEF Output!Boundary, Output!Cont
  <2> QED
    BY <2>1, <2>2
<1>12. s < n => Output!Boundary(h + s) /\ Output!Boundary(h + n)
  <2> SUFFICES ASSUME s < n PROVE Output!Boundary(h + s) /\ Output!Boundary(h + n)
    OBVIOUS
  <2>1. s <= T - h
    BY <1>2, <1>7, <1>9
  <2> QED
    BY <1>7, <1>9, <1>11, <2>1
<1>13. SubSeq(b, s + 1, n) # <<>> => s < n
  <2> SUFFICES ASSUME ~(s < n) PROVE SubSeq(b, s + 1, n) = <<>>
    OBVIOUS
  <2>1. s = n
    BY <1>7
  <2>2. /\ SubSeq(b, s + 1, n) \in Seq(0..4) /\ Len(SubSeq(b, s + 1, n)) = n - s
    <3>1. n <= Len(b)
      BY <1>3, <1>8, <1>9
    <3> QED
      BY <1>3, <1>7, <3>1, MiddleOf
  <2> QED
    BY <1>7, <2>1, <2>2, EmptySeq
<1>14. ASSUME o \in h..(totalBytes - 1), Output!Boundary(o)
       PROVE  h + s = o /\ (l = -1 => h + n = totalBytes) /\ (l >= 4 => h + n > o)
  <2>1. /\ h + rs = o /\ rs < re /\ o < T
        /\ l = -1 => re = T - h
        /\ l >= 4 => re = T - h \/ rs + 4 <= re
    BY <1>5, <1>8, <1>14
  <2>2. b[rs + 1] # 0
    <3>1. rs + 1 \in 1..(T - h) /\ h + (rs + 1) = o + 1 /\ o # T
      BY <1>2, <1>5, <1>8, <2>1
    <3>2. written[o + 1] # 0
      BY <1>8, <1>14, <3>1 DEF Output!Boundary, Output!Cont
    <3> QED
      BY <1>3, <1>8, <3>1, <3>2
  <2>3. s = rs
    BY <1>7, <2>1, <2>2
  <2>4. /\ re = T - h => n = re
        /\ rs + 4 <= re => s < n
    BY <1>3, <1>7, <1>8, <2>1, <2>3
  <2>5. l = -1 => h + n = totalBytes
    BY <1>2, <1>7, <1>8, <2>1, <2>4
  <2>6. l >= 4 => h + n > o
    <3> SUFFICES ASSUME l >= 4 PROVE n > rs
      BY <1>2, <1>5, <1>7, <2>1
    <3>1. CASE re = T - h
      BY <2>1, <2>4, <3>1
    <3>2. CASE rs + 4 <= re
      BY <1>5, <1>7, <2>3, <2>4, <3>2
    <3> QED
      BY <2>1, <3>1, <3>2
  <2> QED
    BY <2>1, <2>3, <2>5, <2>6
<1>15. r.text = SubSeq(written, r.offset + 1, r.end)
  BY <1>1, <1>10, Zenon
<1>16. r.offset <= r.end /\ r.end <= totalBytes
  BY <1>1, <1>8, <1>9
<1>17. r.text # <<>> => Output!Boundary(r.offset) /\ Output!Boundary(r.end)
  BY <1>1, <1>12, <1>13
<1>18. o \in h..(totalBytes - 1) /\ Output!Boundary(o) =>
         r.offset = o /\ (l = -1 => r.end = totalBytes) /\ (l >= 4 => r.end > o)
  BY <1>1, <1>14
<1> QED
  BY <1>15, <1>16, <1>17, <1>18 DEF r, h, Output!None

\* Both together.
LEMMA BufferInvIsEnough == BufferInv => Output!BufferIsSound
<1> SUFFICES ASSUME BufferInv PROVE Output!BufferIsSound
  OBVIOUS
<1>1. Output!KeepsTheEnd
  BY BufferKeepsTheEnd
<1>2. Output!ReadsAreTrue
  BY BufferIsReadTruly DEF Output!ReadsAreTrue
<1> QED
  BY <1>1, <1>2 DEF Output!BufferIsSound

\* For the output by itself.
LEMMA BuffersAreSound == Output!Spec => []Output!BufferIsSound
<1>1. Output!Init => BufferInv
  BY BufferInitially
<1>2. BufferInv /\ [Output!Next]_(Output!vars) => BufferInv'
  BY BufferStep
<1>3. BufferInv => Output!BufferIsSound
  BY BufferInvIsEnough
<1> QED
  BY <1>1, <1>2, <1>3, PTL DEF Output!Spec

\* What is kept of the output of a process is the longest end of it that fits and begins
\* with a whole character, and every range of it that is read is what was written, in
\* whole characters: BoundedUtf8Buffer of manager.ts.
THEOREM OutputIsSound == ToolsSpec => []BufferIsSound
<1>1. Output!BufferIsSound => BufferIsSound
  BY DEF BufferIsSound
<1> QED
  BY <1>1, ToolsImplementTheirParts, BuffersAreSound, PTL
=============================================================================
