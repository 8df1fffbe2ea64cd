--------------------------- MODULE ManagedProcesses ---------------------------
(* ProcessManager (src/src/process/manager.ts): the child processes that the  *)
(* tools start, read, write to and end.  A session is one started process;    *)
(* the table names sessions by PID, and the PID is the system's to hand out   *)
(* again as soon as the process is gone, while the session is still retained. *)
(*                                                                            *)
(* Sessions are numbered in the order they are started (each has a fresh      *)
(* random id).  What a process prints is BoundedBuffer's subject.             *)
EXTENDS Integers, FiniteSets

CONSTANTS MaxSessions,     \* bound: how many processes are started at all
          Pids,            \* the PIDs the system has
          MaxConcurrent,   \* maxConcurrentProcesses
          MaxRetained,     \* maxRetainedSessions
          Ttl,             \* completedSessionTtlMs, in ticks
          MaxTime,         \* bound of the clock
          Calls,           \* the tool calls that wait for something
          Nobody

Sessions == 1..MaxSessions

ASSUME ProcessAssumption ==
  /\ MaxSessions \in Nat
  /\ MaxConcurrent \in Nat \ {0}
  /\ MaxRetained \in Nat
  /\ Ttl \in Nat
  /\ MaxTime \in Nat
  /\ Nobody \notin Sessions \cup Pids

VARIABLES clock,
          born,            \* how many sessions there are: 1..born
          pid,             \* session -> PID of its process
          running,         \* the sessions whose exitCode is undefined
          completedAt,     \* session -> completedAt
          table,           \* the Map processes: PID -> session
          ids,             \* the keys of the Map ids
          termination,     \* session -> how far its terminationPromise is
          call             \* what each waiting call does, and about whom

vars == <<clock, born, pid, running, completedAt, table, ids, termination, call>>

tableVars == <<table, ids>>
sessionVars == <<born, pid, running, completedAt, termination>>

Terminations == {"none", "asked", "forced", "abandoned", "over", "refused"}
Stages == {"idle", "writing", "reading", "terminating"}

Quiet == [stage |-> "idle", key |-> Nobody, session |-> Nobody]

-----------------------------------------------------------------------------

Listed == {s \in 1..born : table[pid[s]] = s}
Exited == (1..born) \ running
Completed == Listed \ running
Expired == {s \in Completed : clock - completedAt[s] >= Ttl}

(* evict of each session of S, all of them in the table. *)
Evict(S) ==
  /\ table' = [p \in Pids |-> IF table[p] \in S THEN Nobody ELSE table[p]]
  /\ ids' = ids \ S

(* What a PID or an id names once getManaged has evicted the expired.         *)
NamedByPid(p) == IF table[p] \in Expired THEN Nobody ELSE table[p]
NamedById(s) == IF s \in ids \ Expired THEN NamedByPid(pid[s]) ELSE Nobody

Init ==
  /\ clock = 0
  /\ born = 0
  /\ pid = [s \in Sessions |-> Nobody]
  /\ running = {}
  /\ completedAt = [s \in Sessions |-> 0]
  /\ table = [p \in Pids |-> Nobody]
  /\ ids = {}
  /\ termination = [s \in Sessions |-> "none"]
  /\ call = [c \in Calls |-> Quiet]

-----------------------------------------------------------------------------

\* Mutant: a PID that is in the table already keeps its session.
StartKeepingEntry(p) ==
  LET s == born + 1 IN
  /\ s \in Sessions
  /\ \A t \in running : pid[t] # p
  /\ Cardinality(Listed \cap running) < MaxConcurrent
  /\ born' = s
  /\ pid' = [pid EXCEPT ![s] = p]
  /\ running' = running \cup {s}
  /\ table' = IF table[p] = Nobody THEN [table EXCEPT ![p] = s] ELSE table
  /\ ids' = (ids \ Expired) \cup {s}
  /\ UNCHANGED <<clock, completedAt, termination, call>>

(* start: the system gives the child a PID that no living process has.  The   *)
(* entry of a retained session of that PID is replaced; its id stays.         *)
Start(p) ==
  LET s == born + 1 IN
  /\ s \in Sessions
  /\ \A t \in running : pid[t] # p
  /\ Cardinality(Listed \cap running) < MaxConcurrent
  /\ born' = s
  /\ pid' = [pid EXCEPT ![s] = p]
  /\ running' = running \cup {s}
  /\ table' = [q \in Pids |-> CASE q = p -> s
                                [] q # p /\ table[q] \in Expired -> Nobody
                                [] OTHER -> table[q]]
  /\ ids' = (ids \ Expired) \cup {s}
  /\ UNCHANGED <<clock, completedAt, termination, call>>

(* A call that evicts the expired sessions and does nothing else: a listing,  *)
(* a start beyond the limit or of a command that does not exist, a PID or id  *)
(* that names nobody.                                                         *)
Sweep ==
  /\ Expired # {}
  /\ Evict(Expired)
  /\ UNCHANGED <<clock, sessionVars, call>>

\* Mutant: the completed sessions are not sorted before the surplus is evicted.
AnyOf(S, n, when) == {O \in SUBSET S : Cardinality(O) = n}

(* The child's exit: its code is stored, then markCompleted evicts the oldest *)
(* of the completed sessions that are too many (any of those that completed   *)
(* in the same tick).  With a time to live of zero the session itself goes at *)
(* once.                                                                      *)
OldestOf(S, n, when) ==
  {O \in SUBSET S : /\ Cardinality(O) = n
                    /\ \A x \in O, y \in S \ O : when[x] <= when[y]}

Exit(s) ==
  LET when == [completedAt EXCEPT ![s] = clock]
      all == Completed \cup {s}
      surplus == Cardinality(all) - MaxRetained
  IN
  /\ s \in running
  /\ running' = running \ {s}
  /\ completedAt' = when
  /\ \E old \in OldestOf(all, IF surplus > 0 THEN surplus ELSE 0, when) :
       LET gone == IF Ttl = 0 THEN old \cup {s} ELSE old IN
       /\ table' = [p \in Pids |-> IF table[p] \in gone THEN Nobody ELSE table[p]]
       /\ ids' = ids \ gone
  /\ UNCHANGED <<clock, born, pid, termination, call>>

\* Mutant: evict does not look whether the table still means this session.
EvictionTimerByPid(s) ==
  /\ s \in Exited
  /\ clock - completedAt[s] >= Ttl
  /\ table' = [table EXCEPT ![pid[s]] = Nobody]
  /\ ids' = ids \ {s}
  /\ UNCHANGED <<clock, sessionVars, call>>

(* The eviction timer of a session that has completed.  evict looks whether   *)
(* the table still means this session; where the code clears the timer it     *)
(* does not, and the timer would do nothing.                                  *)
EvictionTimer(s) ==
  /\ s \in Exited
  /\ clock - completedAt[s] >= Ttl
  /\ Evict({s} \cap Listed)
  /\ UNCHANGED <<clock, sessionVars, call>>

-----------------------------------------------------------------------------

\* Mutant: a process that is gone gets no promise.
TerminateTheLiving(s) ==
  IF s \in running /\ termination[s] = "none"
  THEN \E answer \in {"asked", "refused"} : termination' = [termination EXCEPT ![s] = answer]
  ELSE UNCHANGED termination

(* requestTermination: every request shares the one terminationPromise.  The  *)
(* signal may be refused (EPERM), which rejects that promise for good; a      *)
(* process that is gone already needs no signal.                              *)
Terminate(s) ==
  \/ /\ termination[s] = "none"
     /\ \E answer \in IF s \in running THEN {"asked", "refused"} ELSE {"over"} :
          termination' = [termination EXCEPT ![s] = answer]
  \/ /\ termination[s] # "none"
     /\ UNCHANGED termination

(* The timer of timeout_ms, of a process that was started with one.           *)
TimeoutTimer(s) ==
  /\ s \in running
  /\ Terminate(s)
  /\ UNCHANGED <<clock, born, pid, running, completedAt, tableVars, call>>

\* Mutant: the second signal is left out.
GraceOverWithoutSignal(s) ==
  /\ termination[s] = "asked"
  /\ s \in running
  /\ termination' = [termination EXCEPT ![s] = "over"]
  /\ UNCHANGED <<clock, born, pid, running, completedAt, tableVars, call>>

(* gracefulTerminateMs is over and the process has not ended: SIGKILL.        *)
GraceOver(s) ==
  /\ termination[s] = "asked"
  /\ s \in running
  /\ \E answer \in {"forced", "refused"} :
       termination' = [termination EXCEPT ![s] = answer]
  /\ UNCHANGED <<clock, born, pid, running, completedAt, tableVars, call>>

(* The promise settles: the exit has come, or five more seconds have passed.  *)
TerminationOver(s) ==
  /\ \/ /\ termination[s] \in {"asked", "forced"}
        /\ s \notin running
        /\ termination' = [termination EXCEPT ![s] = "over"]
     \/ /\ termination[s] = "forced"
        /\ s \in running
        /\ termination' = [termination EXCEPT ![s] = "abandoned"]
  /\ UNCHANGED <<clock, born, pid, running, completedAt, tableVars, call>>

-----------------------------------------------------------------------------

Becomes(c, stage, key, s) ==
  call' = [call EXCEPT ![c] = [stage |-> stage, key |-> key, session |-> s]]

Returns(c) == call' = [call EXCEPT ![c] = Quiet]

(* readOutput by id (the key is the session that had it) or by PID.           *)
Read(c, k) ==
  LET s == IF k \in Pids THEN NamedByPid(k) ELSE NamedById(k) IN
  /\ call[c].stage = "idle"
  /\ s # Nobody
  /\ Evict(Expired)
  /\ Becomes(c, "reading", IF k \in Pids THEN s ELSE k, s)
  /\ UNCHANGED <<clock, sessionVars>>

(* interact: the input is written to a process that has not exited.           *)
Interact(c, p) ==
  LET s == NamedByPid(p) IN
  /\ call[c].stage = "idle"
  /\ s \in running
  /\ Evict(Expired)
  /\ Becomes(c, "writing", s, s)
  /\ UNCHANGED <<clock, sessionVars>>

(* The input is taken: readOutput looks the PID up again.                     *)
Written(c) ==
  LET s == NamedByPid(pid[call[c].session]) IN
  /\ call[c].stage = "writing"
  /\ Evict(Expired)
  /\ IF s = Nobody THEN Returns(c) ELSE Becomes(c, "reading", call[c].key, s)
  /\ UNCHANGED <<clock, sessionVars>>

(* The pipe breaks: only of a process that has ended or closed its input.     *)
WriteFails(c) ==
  /\ call[c].stage = "writing"
  /\ Returns(c)
  /\ UNCHANGED <<clock, sessionVars, tableVars>>

(* terminate and kill, which are the same.                                    *)
AskTermination(c, p) ==
  LET s == NamedByPid(p) IN
  /\ call[c].stage = "idle"
  /\ s # Nobody
  /\ Evict(Expired)
  /\ Terminate(s)
  /\ Becomes(c, "terminating", s, s)
  /\ UNCHANGED <<clock, born, pid, running, completedAt>>

(* The call returns what the session it resolved shows by now (the output or  *)
(* a delay has come first), or how the termination ended.                     *)
Answer(c) ==
  /\ \/ call[c].stage = "reading"
     \/ /\ call[c].stage = "terminating"
        /\ termination[call[c].session] \in {"over", "abandoned", "refused"}
  /\ Returns(c)
  /\ UNCHANGED <<clock, sessionVars, tableVars>>

Tick ==
  /\ clock < MaxTime
  /\ clock' = clock + 1
  /\ UNCHANGED <<sessionVars, tableVars, call>>

Next ==
  \/ \E p \in Pids : Start(p)
  \/ Sweep \/ Tick
  \/ \E s \in 1..born : Exit(s) \/ EvictionTimer(s) \/ TimeoutTimer(s)
                        \/ GraceOver(s) \/ TerminationOver(s)
  \/ \E c \in Calls : \/ \E p \in Pids : Interact(c, p) \/ AskTermination(c, p)
                      \/ \E k \in Pids \cup (1..born) : Read(c, k)
                      \/ Written(c) \/ WriteFails(c) \/ Answer(c)

(* Timers fire, an answered promise continues its call, and the system ends a *)
(* process that has been sent SIGKILL; nothing makes a process end by itself  *)
(* or read its input.                                                         *)
Fairness ==
  /\ \A s \in Sessions : /\ WF_vars(s \in 1..born /\ GraceOver(s))
                         /\ WF_vars(s \in 1..born /\ TerminationOver(s))
                         /\ WF_vars(termination[s] \in {"forced", "abandoned"} /\ Exit(s))
  /\ \A c \in Calls : /\ WF_vars(Answer(c))
                      /\ WF_vars(call[c].session \notin running /\ (Written(c) \/ WriteFails(c)))

Spec == Init /\ [][Next]_vars
LiveSpec == Spec /\ Fairness

-----------------------------------------------------------------------------

TypeOK ==
  /\ clock \in 0..MaxTime
  /\ born \in 0..MaxSessions
  /\ pid \in [Sessions -> Pids \cup {Nobody}]
  /\ running \subseteq 1..born
  /\ completedAt \in [Sessions -> 0..MaxTime]
  /\ table \in [Pids -> (1..born) \cup {Nobody}]
  /\ ids \subseteq 1..born
  /\ termination \in [Sessions -> Terminations]
  /\ call \in [Calls -> [stage : Stages, key : (1..born) \cup {Nobody},
                         session : (1..born) \cup {Nobody}]]

(* Somebody else has the session's PID by now.                                *)
PidTaken(s) == \E t \in (s + 1)..born : pid[t] = pid[s]

(* Every process that lives can be reached by its PID and by its id, whatever *)
(* was replaced or evicted under that PID before: the limit counts it, and it *)
(* can be ended.                                                              *)
RunningAreListed == running \subseteq Listed \cap ids

(* An id that is kept and does not name its own session is one whose PID was  *)
(* handed out again while the session was retained.                           *)
IdsNameTheirProcess ==
  /\ Listed \subseteq ids
  /\ \A s \in ids \ Listed : PidTaken(s)

(* There are never more processes than allowed, nor more completed sessions   *)
(* retained than allowed.                                                     *)
LimitsHold ==
  /\ Cardinality(running) <= MaxConcurrent
  /\ Cardinality(Completed) <= MaxRetained

(* Type invariant, and the table, the ids and the limits agree with the       *)
(* processes that there are (start, markCompleted, evict).                    *)
TableIsSound == TypeOK /\ RunningAreListed /\ IdsNameTheirProcess /\ LimitsHold

(* A completed session leaves the table only when its time is over, when as   *)
(* many that completed after it as may be retained are, or when its PID is    *)
(* given to a new process; a running one never does (evict, evictionTimer).   *)
RetainedOrDue ==
  \A s \in Listed \ Listed' :
    /\ s \notin running'
    /\ \/ clock - completedAt'[s] >= Ttl
       \/ pid'[born'] = pid[s] /\ born' # born
       \/ /\ Cardinality(Completed') = MaxRetained
          /\ \A t \in Completed' : completedAt'[s] <= completedAt'[t]
RetainedAsPromised == [][RetainedOrDue]_vars

(* A call that is answered is answered about the session it asked for, unless *)
(* that session's PID was given to another process (interact looks the PID up *)
(* again after the write).                                                    *)
AnswersItsProcess ==
  \A c \in Calls : call[c].session # call[c].key
                   => PidTaken(call[c].key)

(* Whoever is asked to end ends, even if he ignores the first signal, unless  *)
(* the system refuses to deliver a signal (terminateManaged).                 *)
TerminationEnds ==
  \A s \in Sessions : termination[s] = "asked" ~> s \notin running \/ termination[s] = "refused"

(* Every call returns; only an input that a living process does not take      *)
(* holds one up (writeInput has no time limit).                               *)
OnlyAFullPipeHolds ==
  \A c \in Calls : call[c].stage # "idle"
                   ~> \/ call[c].stage = "idle"
                      \/ call[c].stage = "writing" /\ call[c].session \in running
=============================================================================
