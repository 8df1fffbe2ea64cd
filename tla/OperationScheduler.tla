------------------------ MODULE OperationScheduler ------------------------
(***************************************************************************)
(* The admission scheduler of the daemon (src/core/operation-scheduler.ts).*)
(*                                                                         *)
(* Every tool call that reaches the daemon runs through one instance of    *)
(* OperationScheduler.  It keeps, per operation class, a counter of running*)
(* tasks and a FIFO queue of waiting ones, and one counter of all waiting  *)
(* operations.  JavaScript runs one callback at a time, so every action    *)
(* below is one synchronous stretch of the code between two returns to the *)
(* event loop; the exception is drain, whose loop reads the clock afresh   *)
(* in every turn, and which is one action per turn (nothing but the clock  *)
(* moves while `draining` is set).                                         *)
(***************************************************************************)
EXTENDS Naturals, FiniteSets, SequencesExt

CONSTANTS
  Ops,              \* calls of run(); each stands for one promise
  Classes,          \* OPERATION_CLASSES
  ClassOf,          \* the class classifyOperation gives each call
  Concurrency,      \* running tasks allowed per class, never 0
  MaxQueue,         \* waiting operations allowed in all classes, may be 0
  MaxQueueOf,       \* waiting operations allowed per class, may be 0
  Deadlines,        \* the deadlineAt values that calls carry
  NoDeadline,       \* deadlineAt === undefined
  MaxTime,          \* bound on the clock
  None              \* no drain in progress

ASSUME OpsAssumption ==
  /\ IsFiniteSet(Ops)
  /\ ClassOf \in [Ops -> Classes]
  /\ None \notin Classes

\* validateLimit: concurrency is a positive integer, queue limits may be 0.
ASSUME LimitsAssumption ==
  /\ Concurrency \in [Classes -> Nat \ {0}]
  /\ MaxQueue \in Nat
  /\ MaxQueueOf \in [Classes -> Nat]

ASSUME TimeAssumption ==
  /\ Deadlines \subseteq Nat \cup {NoDeadline}
  /\ NoDeadline \notin Nat
  /\ MaxTime \in Nat

VARIABLES
  now,              \* this.now()
  active,           \* this.active: slots taken per class
  queues,           \* this.queues: waiting operations per class, oldest first
  totalQueued,      \* this.totalQueued
  phase,            \* where the promise of each call stands
  deadlineAt,       \* deadlineAt of each call
  aborted,          \* calls whose AbortSignal has fired
  armed,            \* calls whose abort listener and deadline timer are installed
  draining          \* class whose drain loop is running, or None

vars == <<now, active, queues, totalQueued, phase, deadlineAt, aborted, armed,
          draining>>

(***************************************************************************)
(* The life of a call: "running" while its task runs; "settled" when the   *)
(* task is over but the microtask that gives the slot back has not run;    *)
(* "done" after it.  The other endings are the errors run() rejects with.  *)
(***************************************************************************)
Rejections == {"cancelled", "expired", "busy"}
Phases == {"unsubmitted", "queued", "running", "settled", "done"} \cup Rejections

QueuedOps == {op \in Ops : phase[op] = "queued"}
Holding(c) == {op \in Ops : ClassOf[op] = c /\ phase[op] \in {"running", "settled"}}

IsPastDeadline(d) == d # NoDeadline /\ d <= now
\* Mutant: one task too many.
HasSlotOrOneMore(c) == active[c] <= Concurrency[c]

HasSlot(c) == active[c] < Concurrency[c]

TypeOK ==
  /\ now \in 0..MaxTime
  /\ active \in [Classes -> Nat]
  /\ queues \in [Classes -> Seq(Ops)]
  /\ totalQueued \in Nat
  /\ phase \in [Ops -> Phases]
  /\ deadlineAt \in [Ops -> Deadlines \cup {NoDeadline}]
  /\ aborted \subseteq Ops
  /\ armed \subseteq Ops
  /\ draining \in Classes \cup {None}

Init ==
  /\ now = 0
  /\ active = [c \in Classes |-> 0]
  /\ queues = [c \in Classes |-> <<>>]
  /\ totalQueued = 0
  /\ phase = [op \in Ops |-> "unsubmitted"]
  /\ deadlineAt = [op \in Ops |-> NoDeadline]
  /\ aborted = {}
  /\ armed = {}
  /\ draining = None

-----------------------------------------------------------------------------
(***************************************************************************)
(* run(): the early rejections, the direct start, the two queue limits and *)
(* the enqueue, in the order the code tests them.                          *)
(***************************************************************************)

\* What every call of run() that is still alive after the two early tests has
\* in common: it is new, not aborted and its deadline lies ahead.
Admissible(op, d) ==
  /\ draining = None
  /\ phase[op] = "unsubmitted"
  /\ op \notin aborted
  /\ ~ IsPastDeadline(d)
  /\ deadlineAt' = [deadlineAt EXCEPT ![op] = d]

QueueIsFull(c) == totalQueued >= MaxQueue \/ Len(queues[c]) >= MaxQueueOf[c]

RejectEarly(op, d) ==
  /\ draining = None
  /\ phase[op] = "unsubmitted"
  /\ op \in aborted \/ IsPastDeadline(d)
  /\ phase' = [phase EXCEPT ![op] = IF op \in aborted THEN "cancelled" ELSE "expired"]
  /\ deadlineAt' = [deadlineAt EXCEPT ![op] = d]
  /\ UNCHANGED <<now, active, queues, totalQueued, aborted, armed, draining>>

StartImmediately(op, d) ==
  /\ Admissible(op, d)
  /\ HasSlot(ClassOf[op])
  /\ active' = [active EXCEPT ![ClassOf[op]] = @ + 1]
  /\ phase' = [phase EXCEPT ![op] = "running"]
  /\ UNCHANGED <<now, queues, totalQueued, aborted, armed, draining>>

RejectBusy(op, d) ==
  /\ Admissible(op, d)
  /\ ~ HasSlot(ClassOf[op])
  /\ QueueIsFull(ClassOf[op])
  /\ phase' = [phase EXCEPT ![op] = "busy"]
  /\ UNCHANGED <<now, active, queues, totalQueued, aborted, armed, draining>>

\* Mutant: the newcomer goes to the head of the line.
EnqueueAtHead(op, d) ==
  /\ Admissible(op, d)
  /\ ~ HasSlot(ClassOf[op])
  /\ ~ QueueIsFull(ClassOf[op])
  /\ queues' = [queues EXCEPT ![ClassOf[op]] = <<op>> \o @]
  /\ totalQueued' = totalQueued + 1
  /\ phase' = [phase EXCEPT ![op] = "queued"]
  /\ armed' = armed \cup {op}
  /\ UNCHANGED <<now, active, aborted, draining>>

\* Mutant: installCancellation is forgotten.
EnqueueUnarmed(op, d) ==
  /\ Admissible(op, d)
  /\ ~ HasSlot(ClassOf[op])
  /\ ~ QueueIsFull(ClassOf[op])
  /\ queues' = [queues EXCEPT ![ClassOf[op]] = Append(@, op)]
  /\ totalQueued' = totalQueued + 1
  /\ phase' = [phase EXCEPT ![op] = "queued"]
  /\ UNCHANGED <<now, active, aborted, armed, draining>>

Enqueue(op, d) ==
  /\ Admissible(op, d)
  /\ ~ HasSlot(ClassOf[op])
  /\ ~ QueueIsFull(ClassOf[op])
  /\ queues' = [queues EXCEPT ![ClassOf[op]] = Append(@, op)]
  /\ totalQueued' = totalQueued + 1
  /\ phase' = [phase EXCEPT ![op] = "queued"]
  /\ armed' = armed \cup {op}
  /\ UNCHANGED <<now, active, aborted, draining>>

-----------------------------------------------------------------------------
(***************************************************************************)
(* cancel(): what the abort listener and the deadline timer run.           *)
(***************************************************************************)

\* removeQueued takes the call out of the middle of its queue and disarms it.
RemoveQueued(op, outcome) ==
  /\ \E i \in DOMAIN queues[ClassOf[op]] :
       /\ queues[ClassOf[op]][i] = op
       /\ queues' = [queues EXCEPT ![ClassOf[op]] = RemoveAt(@, i)]
  /\ totalQueued' = totalQueued - 1
  /\ armed' = armed \ {op}
  /\ phase' = [phase EXCEPT ![op] = outcome]

\* The caller aborts; a listener, if one is installed, runs synchronously.  The
\* abort of a running call is left out: nothing of the scheduler listens to it.
Abort(op) ==
  /\ draining = None
  /\ op \notin aborted
  /\ phase[op] \in {"unsubmitted", "queued"}
  /\ aborted' = aborted \cup {op}
  /\ IF op \in armed
       THEN RemoveQueued(op, "cancelled")
       ELSE UNCHANGED <<queues, totalQueued, armed, phase>>
  /\ UNCHANGED <<now, active, deadlineAt, draining>>

\* The timer fires at its deadline or any time later: the event loop is shared.
DeadlineTimer(op) ==
  /\ draining = None
  /\ op \in armed
  /\ IsPastDeadline(deadlineAt[op])
  /\ RemoveQueued(op, "expired")
  /\ UNCHANGED <<now, active, deadlineAt, aborted, draining>>

-----------------------------------------------------------------------------
(***************************************************************************)
(* The end of a task and the drain loop.                                   *)
(***************************************************************************)

Settle(op) ==
  /\ draining = None
  /\ phase[op] = "running"
  /\ phase' = [phase EXCEPT ![op] = "settled"]
  /\ UNCHANGED <<now, active, queues, totalQueued, deadlineAt, aborted, armed, draining>>

\* Mutant: the slot is returned and nobody drains the queue.
ReleaseWithoutDrain(op) ==
  /\ draining = None
  /\ phase[op] = "settled"
  /\ phase' = [phase EXCEPT ![op] = "done"]
  /\ active' = [active EXCEPT ![ClassOf[op]] = @ - 1]
  /\ UNCHANGED <<now, queues, totalQueued, deadlineAt, aborted, armed, draining>>

\* The finally callback: the slot is returned and drain is entered.
Release(op) ==
  /\ draining = None
  /\ phase[op] = "settled"
  /\ phase' = [phase EXCEPT ![op] = "done"]
  /\ active' = [active EXCEPT ![ClassOf[op]] = @ - 1]
  /\ draining' = ClassOf[op]
  /\ UNCHANGED <<now, queues, totalQueued, deadlineAt, aborted, armed>>

DrainContinues == draining # None /\ HasSlot(draining) /\ queues[draining] # <<>>

\* Mutant: the global counter is not decremented.
ShiftUncounted ==
  /\ queues' = [queues EXCEPT ![draining] = Tail(@)]
  /\ armed' = armed \ {Head(queues[draining])}
  /\ UNCHANGED totalQueued

\* queue.shift() with its bookkeeping, common to the turns of the loop.
Shift ==
  /\ queues' = [queues EXCEPT ![draining] = Tail(@)]
  /\ totalQueued' = totalQueued - 1
  /\ armed' = armed \ {Head(queues[draining])}

MayStart(op) == op \notin aborted /\ ~ IsPastDeadline(deadlineAt[op])

DrainDiscard ==
  /\ DrainContinues
  /\ LET op == Head(queues[draining]) IN
       /\ ~ MayStart(op)
       /\ phase' = [phase EXCEPT ![op] = IF op \in aborted THEN "cancelled" ELSE "expired"]
  /\ Shift
  /\ UNCHANGED <<now, active, deadlineAt, aborted, draining>>

DrainStart ==
  /\ DrainContinues
  /\ LET op == Head(queues[draining]) IN
       /\ MayStart(op)
       /\ phase' = [phase EXCEPT ![op] = "running"]
  /\ Shift
  /\ active' = [active EXCEPT ![draining] = @ + 1]
  /\ UNCHANGED <<now, deadlineAt, aborted, draining>>

DrainExit ==
  /\ draining # None
  /\ ~ DrainContinues
  /\ draining' = None
  /\ UNCHANGED <<now, active, queues, totalQueued, phase, deadlineAt, aborted, armed>>

Drain == DrainDiscard \/ DrainStart \/ DrainExit

Tick ==
  /\ now < MaxTime
  /\ now' = now + 1
  /\ UNCHANGED <<active, queues, totalQueued, phase, deadlineAt, aborted, armed, draining>>

RunCall(op, d) ==
  RejectEarly(op, d) \/ StartImmediately(op, d) \/ RejectBusy(op, d) \/ Enqueue(op, d)

Next ==
  \/ \E op \in Ops, d \in Deadlines : RunCall(op, d)
  \/ \E op \in Ops : Abort(op) \/ DeadlineTimer(op) \/ Settle(op) \/ Release(op)
  \/ Drain
  \/ Tick

(***************************************************************************)
(* Fairness: the event loop runs every pending callback and the clock      *)
(* advances.  Nothing makes a task finish (Settle), no caller has to call  *)
(* run() or to abort.                                                      *)
(***************************************************************************)
EventLoopFairness ==
  /\ \A op \in Ops : WF_vars(DeadlineTimer(op)) /\ WF_vars(Release(op))
  /\ WF_vars(Drain)
  /\ WF_vars(Tick)

Spec == Init /\ [][Next]_vars
FairSpec == Spec /\ EventLoopFairness

-----------------------------------------------------------------------------
(***************************************************************************)
(* Invariants.                                                             *)
(***************************************************************************)

\* Each waiting call stands exactly once in the queue of its own class, and no
\* other call stands in any queue: cancel, timer and drain never lose or
\* duplicate one.
QueuesHoldTheWaiting ==
  \A c \in Classes :
    /\ \A i \in DOMAIN queues[c] :
         ClassOf[queues[c][i]] = c /\ phase[queues[c][i]] = "queued"
    /\ \A i, j \in DOMAIN queues[c] : queues[c][i] = queues[c][j] => i = j
    /\ \A op \in QueuedOps :
         ClassOf[op] = c => \E i \in DOMAIN queues[c] : queues[c][i] = op

\* The hand-kept counters agree with the calls they count, in every path that
\* takes or returns a slot or a place in the queue.
CountersAgree ==
  /\ totalQueued = Cardinality(QueuedOps)
  /\ \A c \in Classes : active[c] = Cardinality(Holding(c))

\* Neither the concurrency of a class nor the queue limits are ever exceeded.
WithinLimits ==
  /\ totalQueued <= MaxQueue
  /\ \A c \in Classes :
       active[c] <= Concurrency[c] /\ Len(queues[c]) <= MaxQueueOf[c]

\* A class never lets a call wait while it has a free slot, except inside the
\* drain that is about to fill it.  A path that frees a slot and forgets to
\* drain would strand the queue.
WorkConserving ==
  \A c \in Classes :
    draining # c /\ queues[c] # <<>> => active[c] = Concurrency[c]

\* The listener and the timer of a call exist exactly while it waits: neither
\* leaks after a start nor is missing from a waiting call, and an aborted call
\* never keeps waiting.
ArmedWhileWaiting == armed = QueuedOps /\ armed \cap aborted = {}

\* Everything the scheduler keeps by hand, in queues, counters and listeners, agrees
\* with what has become of the calls, on every path of run, cancel and drain.
Bookkeeping ==
  /\ TypeOK
  /\ QueuesHoldTheWaiting /\ CountersAgree /\ WithinLimits
  /\ WorkConserving /\ ArmedWhileWaiting

(***************************************************************************)
(* Action properties.                                                      *)
(***************************************************************************)

Over == Rejections \cup {"done"}

VerdictsAreFinal ==
  \A op \in Ops :
    /\ phase[op] \in Over => phase'[op] = phase[op]
    /\ phase[op] \in {"running", "settled"} => phase'[op] \notin Rejections \cup {"queued"}

\* A promise settles once: a call that ended never starts or ends again, and a
\* call that started is never taken back by a late abort or timer.
SettlesOnce == [][VerdictsAreFinal]_vars

\* x waits, and y of its class stands behind it or has still to come.
Ahead(x, y) ==
  LET line == queues[ClassOf[x]] IN
  /\ ClassOf[x] = ClassOf[y]
  /\ phase[x] = "queued"
  /\ \/ phase[y] = "unsubmitted"
     \/ \E i, j \in DOMAIN line : i < j /\ line[i] = x /\ line[j] = y

LinesKeepTheirOrder ==
  \A x, y \in Ops :
    Ahead(x, y) /\ phase'[x] = "queued" => Ahead(x, y)' \/ phase'[y] \in Rejections

\* First come, first served per class: whoever is behind a waiting call stays
\* behind it as long as it waits, unless he is turned away or gives up.  Neither
\* the splice of a cancelled call nor the start of a newcomer changes the order.
NoOvertaking == [][LinesKeepTheirOrder]_vars

\* No verdict is taken back and no place in a line is lost, in any step.
VerdictsAndPlacesStand == SettlesOnce /\ NoOvertaking

(***************************************************************************)
(* Liveness.                                                               *)
(***************************************************************************)

\* A call with a deadline stops waiting even if every running task hangs.
DeadlineBoundsWaiting ==
  \A op \in Ops :
    (phase[op] = "queued" /\ deadlineAt[op] # NoDeadline) ~> (phase[op] # "queued")

\* If tasks keep ending, nobody waits for ever, deadline or not.
NobodyStarves ==
  ([]<>(\A op \in Ops : phase[op] # "running")) =>
     \A op \in Ops : (phase[op] = "queued") ~> (phase[op] # "queued")
-----------------------------------------------------------------------------
(***************************************************************************)
(* The scheduler implements the admission control of BoundedAdmission.     *)
(***************************************************************************)

HoldingOps == {op \in Ops : phase[op] \in {"running", "settled"}}
OverOps == {op \in Ops : phase[op] \in Over}

Admission ==
  INSTANCE BoundedAdmission WITH
    waiting <- QueuedOps,
    holding <- HoldingOps,
    over <- OverOps

\* Whatever the order of arrivals, aborts, late timers and drains, the queues
\* and counters behave like the three sets of BoundedAdmission: in particular a
\* newcomer never enters past a waiting call of its class, and nobody waits or
\* is refused a place in the line against the limits.
ImplementsAdmission == Admission!Spec
=============================================================================
