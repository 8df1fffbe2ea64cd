------------------------- MODULE OperationDispatch -------------------------
(***************************************************************************)
(* The way of an operation request through the daemon:                     *)
(*                                                                         *)
(*   DaemonIpcServer.handleOperation   races the execution against the     *)
(*                                     client's deadline and its socket;   *)
(*   DesktopRemoteDaemon.execute       keeps the activity row of the call; *)
(*   SelfHealingExecutor.execute       races it against its own timeout    *)
(*                                     and has the watchdog look at it;    *)
(*   DesktopOperationExecutor.execute  submits it to the scheduler.        *)
(*                                                                         *)
(* The scheduler is the one OperationScheduler is shown to implement: the  *)
(* actions below use the actions of BoundedAdmission.  Every action is one *)
(* macrotask with the promise reactions it sets off: they all run before   *)
(* the next timer, socket event or task completion is looked at.           *)
(***************************************************************************)
EXTENDS Naturals, FiniteSets

CONSTANTS
  Ops,              \* operation requests, each with a requestId of its own
  Classes, ClassOf, Concurrency, MaxQueue, MaxQueueOf,
  DeadlineMs,       \* deadlineMs of SelfHealingExecutor, the client's timeout too
  NoDeadline,       \* the request carries no deadlineAt
  Untracked,        \* the operation is not in the tracker
  LastArrival,      \* bound: no request arrives after this time
  MaxTime           \* bound on the clock

ASSUME DispatchTimes ==
  /\ {DeadlineMs, LastArrival, MaxTime} \subseteq Nat
  /\ NoDeadline \notin Nat /\ Untracked \notin Nat

VARIABLES
  now,              \* the clock
  waiting, holding, over,   \* the scheduler
  request,          \* the client's side of each call
  deadlineAt,       \* the deadline each request carries
  aborted,          \* requests whose AbortController has fired
  tracker,          \* OperationDeadlineTracker: startedAt, or Untracked
  flagged,          \* tracked operations with `aborted` set
  hung,             \* executions whose closure variable `hung` is set
  watchdogOn,       \* watchdogTimer is set
  row               \* status of each call in the session store

scheduler == <<waiting, holding, over>>
ipc == <<request, deadlineAt, aborted>>
healing == <<tracker, flagged, hung, watchdogOn>>
vars == <<now, scheduler, ipc, healing, row>>

Scheduler == INSTANCE BoundedAdmission

Requests == {"none", "pending", "answered", "dropped"}
Rows == {"none", "running", "completed", "failed"}

IsPast(d) == d # NoDeadline /\ d <= now
Tracked == {op \in Ops : tracker[op] # Untracked}
Expired(op) == op \in Tracked /\ now >= tracker[op] + DeadlineMs

TypeOK ==
  /\ now \in 0..MaxTime
  /\ waiting \subseteq Ops /\ holding \subseteq Ops /\ over \subseteq Ops
  /\ request \in [Ops -> Requests]
  /\ deadlineAt \in [Ops -> Nat \cup {NoDeadline}]
  /\ tracker \in [Ops -> 0..MaxTime \cup {Untracked}]
  /\ aborted \subseteq Ops
  /\ hung \subseteq flagged /\ flagged \subseteq Tracked
  /\ watchdogOn \in BOOLEAN
  /\ row \in [Ops -> Rows]

Init ==
  /\ now = 0
  /\ Scheduler!Init
  /\ request = [op \in Ops |-> "none"]
  /\ deadlineAt = [op \in Ops |-> NoDeadline]
  /\ tracker = [op \in Ops |-> Untracked]
  /\ aborted = {} /\ flagged = {} /\ hung = {}
  /\ watchdogOn = FALSE
  /\ row = [op \in Ops |-> "none"]

-----------------------------------------------------------------------------
(***************************************************************************)
(* What happens when the scheduler's promise for op settles: the finally   *)
(* callback of SelfHealingExecutor, then the try or catch of daemon.execute*)
(* (row), then the race in handleOperation (answer).  An execution that was*)
(* declared hung has lost its race before and leaves everything alone.     *)
(***************************************************************************)
\* Mutant: whoever ends stops the watchdog.
UntrackAndStop(op) ==
  /\ tracker' = [tracker EXCEPT ![op] = Untracked]
  /\ flagged' = flagged \ {op}
  /\ watchdogOn' = FALSE

Untrack(op) ==
  /\ tracker' = [tracker EXCEPT ![op] = Untracked]
  /\ flagged' = flagged \ {op}
  /\ watchdogOn' = (watchdogOn /\ Tracked # {op})

ExecutionSettles(op, status) ==
  IF op \in hung
    THEN UNCHANGED <<tracker, flagged, watchdogOn, row>>
    ELSE Untrack(op) /\ row' = [row EXCEPT ![op] = status]

Reply(op, how) ==
  request' = [request EXCEPT ![op] = IF @ = "pending" THEN how ELSE @]

\* What an AbortSignal that fires does to the call: a waiting one leaves the
\* queue and its execution fails at once; a running task never sees the signal.
Cancel(op) ==
  /\ aborted' = aborted \cup {op}
  /\ IF op \in waiting
       THEN Scheduler!GiveUp(op) /\ ExecutionSettles(op, "failed")
       ELSE UNCHANGED <<scheduler, tracker, flagged, watchdogOn, row>>

-----------------------------------------------------------------------------
(***************************************************************************)
(* operation.request arrives.  The client of the repository sends its own  *)
(* clock plus DeadlineMs some time before the request arrives: what is left*)
(* of it lies between nothing (now) and DeadlineMs.                        *)
(***************************************************************************)
Arrives(op) ==
  /\ request[op] = "none"
  /\ now <= LastArrival

\* The deadline has passed or the scheduler is busy.  The execution is tracked,
\* fails in the same macrotask and is untracked again.
Refuse(op, d) ==
  /\ Arrives(op)
  /\ \/ IsPast(d)
     \/ Scheduler!Full(ClassOf[op]) /\ ~ Scheduler!RoomToWait(ClassOf[op])
  /\ Scheduler!TurnAway(op)
  /\ aborted' = IF IsPast(d) THEN aborted \cup {op} ELSE aborted
  /\ request' = [request EXCEPT ![op] = "answered"]
  /\ row' = [row EXCEPT ![op] = "failed"]
  /\ watchdogOn' = (Tracked # {})
  /\ UNCHANGED <<now, deadlineAt, tracker, flagged, hung>>

Accept(op, d) ==
  /\ Arrives(op)
  /\ ~ IsPast(d)
  /\ Scheduler!Enter(op) \/ Scheduler!Wait(op)
  /\ request' = [request EXCEPT ![op] = "pending"]
  /\ deadlineAt' = [deadlineAt EXCEPT ![op] = d]
  /\ row' = [row EXCEPT ![op] = "running"]
  /\ tracker' = [tracker EXCEPT ![op] = now]
  /\ watchdogOn' = TRUE
  /\ UNCHANGED <<now, aborted, flagged, hung>>

-----------------------------------------------------------------------------
(***************************************************************************)
(* The scheduler's own moves.                                              *)
(***************************************************************************)

\* drain starts a waiting call, if it is neither aborted nor past its deadline.
Start(op) ==
  /\ op \notin aborted
  /\ ~ IsPast(deadlineAt[op])
  /\ Scheduler!Serve(op)
  /\ UNCHANGED <<now, ipc, healing, row>>

\* The scheduler's deadline timer, or the drain loop, discards a waiting call.
Discard(op) ==
  /\ IsPast(deadlineAt[op])
  /\ Scheduler!GiveUp(op)
  /\ ExecutionSettles(op, "failed")
  /\ Reply(op, "answered")
  /\ UNCHANGED <<now, deadlineAt, aborted, hung>>

TaskEnds(op, status) ==
  /\ Scheduler!Leave(op)
  /\ ExecutionSettles(op, status)
  /\ Reply(op, "answered")
  /\ UNCHANGED <<now, deadlineAt, aborted, hung>>

-----------------------------------------------------------------------------
(***************************************************************************)
(* The two races handleOperation may lose.  Its finally clause removes the *)
(* timer and the close listener, so neither fires after an answer.         *)
(***************************************************************************)
RequestDeadline(op) ==
  /\ request[op] = "pending"
  /\ IsPast(deadlineAt[op])
  /\ Cancel(op)
  /\ Reply(op, "answered")
  /\ UNCHANGED <<now, deadlineAt, hung>>

\* Mutant: the close listener rejects the race but aborts nothing.
SocketClosedWithoutAbort(op) ==
  /\ request[op] = "pending"
  /\ Reply(op, "dropped")
  /\ UNCHANGED <<now, scheduler, deadlineAt, aborted, healing, row>>

\* The client aborts, times out or dies; nothing is sent to it any more.
SocketClosed(op) ==
  /\ request[op] = "pending"
  /\ Cancel(op)
  /\ Reply(op, "dropped")
  /\ UNCHANGED <<now, deadlineAt, hung>>

-----------------------------------------------------------------------------
(***************************************************************************)
(* The two timers of SelfHealingExecutor.                                  *)
(***************************************************************************)

\* Mutant: the timer leaves alone what the watchdog has aborted.
TimeoutUnlessFlagged(op) ==
  /\ op \notin flagged
  /\ Expired(op)
  /\ hung' = hung \cup {op}
  /\ flagged' = flagged \cup {op}
  /\ row' = [row EXCEPT ![op] = "failed"]
  /\ Reply(op, "answered")
  /\ UNCHANGED <<now, scheduler, deadlineAt, aborted, tracker, watchdogOn>>

\* The setTimeout of execute.  It looks at `hung` and at the tracker, not at
\* what the watchdog did, and it aborts nothing outside the tracker.
ExecutionTimeout(op) ==
  /\ op \notin hung
  /\ Expired(op)
  /\ hung' = hung \cup {op}
  /\ flagged' = flagged \cup {op}
  /\ row' = [row EXCEPT ![op] = "failed"]
  /\ Reply(op, "answered")
  /\ UNCHANGED <<now, scheduler, deadlineAt, aborted, tracker, watchdogOn>>

\* checkDeadlines flags every expired operation that is not flagged yet.
WatchdogTick ==
  /\ watchdogOn
  /\ \E op \in Ops \ flagged : Expired(op)
  /\ flagged' = flagged \cup {op \in Ops : Expired(op)}
  /\ UNCHANGED <<now, scheduler, ipc, tracker, hung, watchdogOn, row>>

Tick ==
  /\ now < MaxTime
  /\ now' = now + 1
  /\ UNCHANGED <<scheduler, ipc, healing, row>>

Next ==
  \/ \E op \in Ops, d \in now..(now + DeadlineMs) \cup {NoDeadline} :
       Refuse(op, d) \/ Accept(op, d)
  \/ \E op \in Ops : Start(op) \/ Discard(op) \/ RequestDeadline(op)
                       \/ SocketClosed(op) \/ ExecutionTimeout(op)
  \/ \E op \in Ops, status \in {"completed", "failed"} : TaskEnds(op, status)
  \/ WatchdogTick
  \/ Tick

(***************************************************************************)
(* Fairness: timers fire, drain runs, the clock advances.  A task need not *)
(* end and a client need not close its socket.                             *)
(***************************************************************************)
TimersFire ==
  /\ \A op \in Ops : /\ WF_vars(Start(op)) /\ WF_vars(Discard(op))
                     /\ WF_vars(RequestDeadline(op)) /\ WF_vars(ExecutionTimeout(op))
  /\ WF_vars(WatchdogTick)
  /\ WF_vars(Tick)

Spec == Init /\ [][Next]_vars
FairSpec == Spec /\ TimersFire

-----------------------------------------------------------------------------
(***************************************************************************)
(* Properties.                                                             *)
(***************************************************************************)

\* Executions that can still settle daemon.execute's promise.
InFlight == (waiting \cup holding) \ hung

\* The activity row of a call says "running" exactly while its execution is in
\* flight: neither a late completion nor a cancellation in the queue leaves a
\* row behind, or closes one early.
RowsTellTheTruth == \A op \in Ops : row[op] = "running" <=> op \in InFlight

\* The watchdog runs as long as there is something for it to watch, and every
\* execution in flight is watched: the end of one operation never stops the
\* watchdog under another.
EverybodyIsWatched ==
  /\ InFlight \subseteq Tracked
  /\ watchdogOn <=> Tracked # {}

\* A pending request always has a party left that will answer it: its execution
\* is in flight.  None is left behind by an execution that settled silently.
PendingHasAnExecution == \A op \in Ops : request[op] = "pending" => op \in InFlight

\* The client, its activity row, the watchdog and the scheduler never disagree about
\* a call, whoever of them hears of its end first.
EverybodyAgrees ==
  TypeOK /\ RowsTellTheTruth /\ EverybodyIsWatched /\ PendingHasAnExecution

\* A request is answered once and its row closed once: the execution that lost
\* the race to a timeout never rewrites what was reported.
ReportsAreFinal ==
  \A op \in Ops :
    /\ request[op] \in {"answered", "dropped"} => request'[op] = request[op]
    /\ row[op] \in {"completed", "failed"} => row'[op] = row[op]
ReportsStand == [][ReportsAreFinal]_vars

\* The task of a request with a deadline never starts once the client has its
\* answer or has gone, whichever of the timers, the socket and the end of the
\* running task came first.  Without a deadline the code does not ensure this: the
\* execution timeout answers the client and leaves the call in the queue.
StartsOnlyForWaitingClients ==
  \A op \in holding' \ holding :
    deadlineAt'[op] # NoDeadline => request'[op] = "pending"
NoLateStart == [][StartsOnlyForWaitingClients]_vars

\* What a client was told stands: its answer is not rewritten, and nothing is done
\* for it behind its back.
VerdictsStand == ReportsStand /\ NoLateStart

\* Every request is answered or dropped, and every row is closed, even if every
\* task hangs for ever and the request carries no deadline.
EveryRequestEnds ==
  \A op \in Ops : (request[op] = "pending" \/ row[op] = "running")
                    ~> (request[op] # "pending" /\ row[op] # "running")

-----------------------------------------------------------------------------
\* The design document says that cancellation propagates into the executor and
\* into long-running waits: an operation whose signal has fired would give its
\* slot back.  The code never hands the signal to the task.
CancellationFreesTheSlot ==
  \A op \in Ops : (op \in aborted /\ op \in holding) ~> (op \notin holding)
=============================================================================
