----------------------- MODULE OperationDispatchProofs -----------------------
(***************************************************************************)
(* EverybodyAgrees and VerdictsStand of OperationDispatch, for any set of  *)
(* requests and any limits, deadlines and order of events.                 *)
(***************************************************************************)
EXTENDS OperationDispatch, TLAPS

(* The three sets of the scheduler are disjoint.                              *)
Apart ==
  /\ waiting \cap holding = {}
  /\ over \cap (waiting \cup holding) = {}

(* Nothing is known yet of a request that has not arrived.                    *)
NothingBeforeArrival ==
  \A op \in Ops : /\ request[op] = "none" <=> op \in Scheduler!New
                  /\ op \in Scheduler!New => row[op] = "none"

(* What is tracked is in flight, or is an execution that was declared hung.   *)
TrackedAreKnown ==
  /\ Tracked \subseteq InFlight \cup hung
  /\ hung \cap Scheduler!New = {}

(* The deadline of a request is never later than the timeout of its execution *)
(* (which starts when the request arrives).                                   *)
DeadlinesComeFirst ==
  \A op \in Tracked : deadlineAt[op] # NoDeadline
                      => deadlineAt[op] <= tracker[op] + DeadlineMs

(* A call that waits although its client has its answer is past its deadline, *)
(* so that drain will discard it.                                             *)
LateMeansPast ==
  \A op \in waiting : \/ deadlineAt[op] = NoDeadline
                      \/ request[op] = "pending"
                      \/ deadlineAt[op] <= now

IInv ==
  /\ TypeOK /\ Apart /\ NothingBeforeArrival
  /\ RowsTellTheTruth /\ EverybodyIsWatched /\ PendingHasAnExecution
  /\ TrackedAreKnown /\ DeadlinesComeFirst /\ LateMeansPast

(* What a step has to do: keep the invariant and take nothing back.           *)
Good == IInv' /\ ReportsAreFinal /\ StartsOnlyForWaitingClients

-----------------------------------------------------------------------------

LEMMA InitStep == Init => IInv
<1> SUFFICES ASSUME Init PROVE IInv
  OBVIOUS
<1> USE DispatchTimes DEF Init, Scheduler!Init
<1>1. Tracked = {}
  BY DEF Tracked
<1>2. InFlight = {} /\ Scheduler!New = Ops
  BY DEF InFlight, Scheduler!New
<1>3. TypeOK
  <2>1. MaxTime \in Nat /\ now \in 0..MaxTime
    OBVIOUS
  <2>2. /\ request \in [Ops -> Requests] /\ row \in [Ops -> Rows]
        /\ deadlineAt \in [Ops -> Nat \cup {NoDeadline}]
        /\ tracker \in [Ops -> 0..MaxTime \cup {Untracked}]
    BY DEF Requests, Rows
  <2> QED
    BY <2>1, <2>2 DEF TypeOK
<1> QED
  BY <1>1, <1>2, <1>3 DEF IInv, Apart, NothingBeforeArrival, RowsTellTheTruth, EverybodyIsWatched,
       PendingHasAnExecution, TrackedAreKnown, DeadlinesComeFirst, LateMeansPast

(* The sets after a step, from the variables after it.                        *)
LEMMA StutterStep == IInv /\ UNCHANGED vars => Good
<1> SUFFICES ASSUME IInv, UNCHANGED vars PROVE Good
  OBVIOUS
<1> USE DEF vars, scheduler, ipc, healing
<1>1. Tracked' = Tracked /\ InFlight' = InFlight /\ Scheduler!New' = Scheduler!New
  BY DEF Tracked, InFlight, Scheduler!New
<1> QED
  BY <1>1 DEF Good, IInv, TypeOK, Apart, NothingBeforeArrival, RowsTellTheTruth,
       EverybodyIsWatched, PendingHasAnExecution, TrackedAreKnown, DeadlinesComeFirst,
       LateMeansPast, ReportsAreFinal, StartsOnlyForWaitingClients

-----------------------------------------------------------------------------

LEMMA RefuseStep ==
  ASSUME IInv, NEW op \in Ops, NEW d, Refuse(op, d)
  PROVE  Good
<1> USE DEF IInv, Refuse, Arrives, Scheduler!TurnAway
<1>1. op \in Scheduler!New /\ Scheduler!New' = Scheduler!New \ {op}
  BY DEF Scheduler!New
<1>2. Tracked' = Tracked /\ InFlight' = InFlight
  BY DEF Tracked, InFlight
<1>3. op \notin InFlight /\ op \notin Tracked
  BY <1>1 DEF Scheduler!New, InFlight, TrackedAreKnown, TypeOK
<1>4. TypeOK'
  BY <1>2 DEF TypeOK, Requests, Rows
<1>5. Apart' /\ NothingBeforeArrival'
  BY <1>1 DEF Apart, NothingBeforeArrival, Scheduler!New, TypeOK
<1>6. RowsTellTheTruth' /\ EverybodyIsWatched' /\ PendingHasAnExecution'
  BY <1>2, <1>3 DEF RowsTellTheTruth, EverybodyIsWatched, PendingHasAnExecution, TypeOK
<1>7. TrackedAreKnown' /\ DeadlinesComeFirst' /\ LateMeansPast'
  BY <1>1, <1>2 DEF TrackedAreKnown, DeadlinesComeFirst, LateMeansPast, Scheduler!New, TypeOK
<1>8. ReportsAreFinal /\ StartsOnlyForWaitingClients
  BY <1>1 DEF ReportsAreFinal, StartsOnlyForWaitingClients, NothingBeforeArrival, TypeOK
<1> QED
  BY <1>4, <1>5, <1>6, <1>7, <1>8 DEF Good

LEMMA AcceptStep ==
  ASSUME IInv, NEW op \in Ops, NEW d \in now..(now + DeadlineMs) \cup {NoDeadline}, Accept(op, d)
  PROVE  Good
<1> USE DispatchTimes DEF IInv, Accept, Arrives
<1>1. /\ op \in Scheduler!New
      /\ Scheduler!New' = Scheduler!New \ {op}
      /\ over' = over
      /\ \/ waiting' = waiting /\ holding' = holding \cup {op}
         \/ holding' = holding /\ waiting' = waiting \cup {op}
  BY DEF Scheduler!New, Scheduler!Enter, Scheduler!Wait
<1>2. op \notin InFlight /\ op \notin Tracked /\ op \notin hung
  BY <1>1 DEF Scheduler!New, InFlight, TrackedAreKnown, TypeOK
<1>3. now \in Nat /\ Tracked' = Tracked \cup {op} /\ tracker'[op] = now
  BY DEF Tracked, TypeOK
<1>4. InFlight' = InFlight \cup {op}
  BY <1>1, <1>2 DEF InFlight
<1>5. TypeOK'
  BY <1>1, <1>3 DEF TypeOK, Requests, Rows
<1>6. Apart' /\ NothingBeforeArrival'
  BY <1>1 DEF Apart, NothingBeforeArrival, Scheduler!New, TypeOK
<1>7. RowsTellTheTruth' /\ EverybodyIsWatched' /\ PendingHasAnExecution'
  BY <1>3, <1>4 DEF RowsTellTheTruth, EverybodyIsWatched, PendingHasAnExecution, TypeOK
<1>8. TrackedAreKnown' /\ DeadlinesComeFirst' /\ LateMeansPast'
  <2>1. TrackedAreKnown'
    BY <1>1, <1>3, <1>4 DEF TrackedAreKnown
  <2>2. DeadlinesComeFirst'
    BY <1>3, <1>2 DEF DeadlinesComeFirst, TypeOK
  <2>3. LateMeansPast'
    BY <1>1 DEF LateMeansPast, TypeOK
  <2> QED
    BY <2>1, <2>2, <2>3
<1>9. ReportsAreFinal /\ StartsOnlyForWaitingClients
  BY <1>1 DEF ReportsAreFinal, StartsOnlyForWaitingClients, NothingBeforeArrival, TypeOK
<1> QED
  BY <1>5, <1>6, <1>7, <1>8, <1>9 DEF Good
-----------------------------------------------------------------------------

(* An execution settles: the call has left the scheduler, and everybody who   *)
(* still believes in it is told.                                              *)
LEMMA SettlingStep ==
  ASSUME IInv, NEW op \in waiting \cup holding, NEW status \in {"completed", "failed"},
         NEW how \in {"answered", "dropped"},
         aborted' \subseteq Ops,
         waiting' = waiting \ {op}, holding' = holding \ {op}, over' = over \cup {op},
         ExecutionSettles(op, status), Reply(op, how),
         UNCHANGED <<now, deadlineAt, hung>>
  PROVE  Good
<1> USE DEF IInv, ExecutionSettles, Reply, Untrack
<1>1. op \in Ops /\ op \notin Scheduler!New /\ Scheduler!New' = Scheduler!New
  BY DEF Scheduler!New, TypeOK
<1>2. InFlight' = InFlight \ {op}
  BY DEF InFlight, Apart
<1>3. Tracked' = IF op \in hung THEN Tracked ELSE Tracked \ {op}
  BY <1>1 DEF Tracked, TypeOK
<1>4. TypeOK'
  <2>1. request' \in [Ops -> Requests] /\ row' \in [Ops -> Rows]
    BY DEF TypeOK, Requests, Rows
  <2>2. tracker' \in [Ops -> 0..MaxTime \cup {Untracked}] /\ watchdogOn' \in BOOLEAN
    BY DEF TypeOK
  <2>3. hung' \subseteq flagged' /\ flagged' \subseteq Tracked'
    BY <1>3 DEF TypeOK
  <2> QED
    BY <1>1, <2>1, <2>2, <2>3 DEF TypeOK
<1>5. Apart' /\ NothingBeforeArrival'
  BY <1>1 DEF Apart, NothingBeforeArrival, TypeOK
<1>6. RowsTellTheTruth'
  BY <1>1, <1>2 DEF RowsTellTheTruth, InFlight, TypeOK
<1>7. EverybodyIsWatched'
  <2>1. InFlight' \subseteq Tracked'
    BY <1>2, <1>3 DEF EverybodyIsWatched, InFlight
  <2>2. CASE op \in hung
    BY <2>1, <2>2, <1>3 DEF EverybodyIsWatched
  <2>3. CASE op \notin hung
    <3>1. op \in Tracked
      BY <2>3 DEF EverybodyIsWatched, InFlight
    <3>2. Tracked' # {} <=> Tracked # {op}
      BY <2>3, <3>1, <1>3
    <3>3. watchdogOn' <=> Tracked # {op}
      BY <2>3, <3>1 DEF EverybodyIsWatched
    <3> QED
      BY <2>1, <3>2, <3>3 DEF EverybodyIsWatched
  <2> QED
    BY <2>2, <2>3
<1>8. PendingHasAnExecution'
  BY <1>1, <1>2 DEF PendingHasAnExecution, TypeOK
<1>9. TrackedAreKnown'
  BY <1>1, <1>2, <1>3 DEF TrackedAreKnown
<1>10. DeadlinesComeFirst'
  BY <1>1, <1>3 DEF DeadlinesComeFirst, Tracked, TypeOK
<1>11. LateMeansPast'
  BY <1>1 DEF LateMeansPast, TypeOK
<1>12. ReportsAreFinal /\ StartsOnlyForWaitingClients
  <2>1. op \notin hung => row[op] = "running"
    BY <1>1 DEF RowsTellTheTruth, InFlight
  <2> QED
    BY <1>1, <2>1 DEF ReportsAreFinal, StartsOnlyForWaitingClients, TypeOK
<1> QED
  BY <1>4, <1>5, <1>6, <1>7, <1>8, <1>9, <1>10, <1>11, <1>12 DEF Good

LEMMA StartStep ==
  ASSUME IInv, NEW op \in Ops, Start(op)
  PROVE  Good
<1> USE DEF IInv, Start, Scheduler!Serve, ipc, healing
<1>1. Tracked' = Tracked /\ InFlight' = InFlight /\ Scheduler!New' = Scheduler!New
  BY DEF Tracked, InFlight, Scheduler!New
<1>2. TypeOK' /\ Apart' /\ NothingBeforeArrival'
  BY <1>1 DEF TypeOK, Apart, NothingBeforeArrival
<1>3. RowsTellTheTruth' /\ EverybodyIsWatched' /\ PendingHasAnExecution'
  BY <1>1 DEF RowsTellTheTruth, EverybodyIsWatched, PendingHasAnExecution
<1>4. TrackedAreKnown' /\ DeadlinesComeFirst' /\ LateMeansPast'
  BY <1>1 DEF TrackedAreKnown, DeadlinesComeFirst, LateMeansPast
<1>5. ReportsAreFinal
  BY DEF ReportsAreFinal
<1>6. StartsOnlyForWaitingClients
  BY DEF StartsOnlyForWaitingClients, LateMeansPast, IsPast
<1> QED
  BY <1>2, <1>3, <1>4, <1>5, <1>6 DEF Good

LEMMA DiscardStep ==
  ASSUME IInv, NEW op \in Ops, Discard(op)
  PROVE  Good
<1>1. waiting' = waiting \ {op} /\ holding' = holding \ {op} /\ over' = over \cup {op}
  BY DEF Discard, Scheduler!GiveUp, IInv, Apart
<1>2. op \in waiting \cup holding /\ aborted' \subseteq Ops
  BY DEF Discard, Scheduler!GiveUp, IInv, TypeOK
<1> QED
  BY <1>1, <1>2, SettlingStep DEF Discard

LEMMA TaskEndsStep ==
  ASSUME IInv, NEW op \in Ops, NEW status \in {"completed", "failed"}, TaskEnds(op, status)
  PROVE  Good
<1>1. waiting' = waiting \ {op} /\ holding' = holding \ {op} /\ over' = over \cup {op}
  BY DEF TaskEnds, Scheduler!Leave, IInv, Apart
<1>2. op \in waiting \cup holding /\ aborted' \subseteq Ops
  BY DEF TaskEnds, Scheduler!Leave, IInv, TypeOK
<1> QED
  BY <1>1, <1>2, SettlingStep DEF TaskEnds

(* The request ends before its execution: a call that waits is taken out of   *)
(* the queue, one that runs goes on.                                          *)
LEMMA CancelStep ==
  ASSUME IInv, NEW op \in Ops, NEW how \in {"answered", "dropped"},
         request[op] = "pending", Cancel(op), Reply(op, how),
         UNCHANGED <<now, deadlineAt, hung>>
  PROVE  Good
<1>1. aborted' \subseteq Ops
  BY DEF Cancel, IInv, TypeOK
<1>2. CASE op \in waiting
  <2>1. waiting' = waiting \ {op} /\ holding' = holding \ {op} /\ over' = over \cup {op}
    BY <1>2 DEF Cancel, Scheduler!GiveUp, IInv, Apart
  <2>2. ExecutionSettles(op, "failed")
    BY <1>2 DEF Cancel
  <2> QED
    BY <1>1, <1>2, <2>1, <2>2, SettlingStep
<1>3. CASE op \notin waiting
  <2> USE <1>1, <1>3 DEF IInv, Cancel, Reply, scheduler
  <2>1. /\ Tracked' = Tracked /\ InFlight' = InFlight /\ Scheduler!New' = Scheduler!New
        /\ waiting' = waiting /\ holding' = holding
    BY DEF Tracked, InFlight, Scheduler!New
  <2>2. TypeOK'
    BY <2>1 DEF TypeOK, Requests
  <2>3. Apart' /\ NothingBeforeArrival'
    BY <2>1 DEF Apart, NothingBeforeArrival, TypeOK
  <2>4. RowsTellTheTruth' /\ EverybodyIsWatched' /\ PendingHasAnExecution'
    BY <2>1 DEF RowsTellTheTruth, EverybodyIsWatched, PendingHasAnExecution, TypeOK
  <2>5. TrackedAreKnown' /\ DeadlinesComeFirst' /\ LateMeansPast'
    BY <2>1 DEF TrackedAreKnown, DeadlinesComeFirst, LateMeansPast, TypeOK
  <2>6. ReportsAreFinal /\ StartsOnlyForWaitingClients
    BY <2>1 DEF ReportsAreFinal, StartsOnlyForWaitingClients, TypeOK
  <2> QED
    BY <2>2, <2>3, <2>4, <2>5, <2>6 DEF Good
<1> QED
  BY <1>2, <1>3

(* The timeout answers the client and closes the row; the call stays where it *)
(* is.  One that still waits is past its deadline by then.                    *)
LEMMA ExecutionTimeoutStep ==
  ASSUME IInv, NEW op \in Ops, ExecutionTimeout(op)
  PROVE  Good
<1> USE DEF IInv, ExecutionTimeout, Expired, Reply, scheduler
<1>1. /\ Tracked' = Tracked /\ Scheduler!New' = Scheduler!New
      /\ waiting' = waiting /\ holding' = holding
  BY DEF Tracked, Scheduler!New
<1>2. InFlight' = InFlight \ {op}
  BY <1>1 DEF InFlight
<1>3. op \in InFlight /\ op \notin Scheduler!New
  BY DEF TrackedAreKnown, InFlight, Scheduler!New
<1>4. TypeOK'
  BY <1>1 DEF TypeOK, Requests, Rows
<1>5. Apart' /\ NothingBeforeArrival'
  BY <1>1, <1>3 DEF Apart, NothingBeforeArrival, TypeOK
<1>6. RowsTellTheTruth' /\ PendingHasAnExecution'
  BY <1>2 DEF RowsTellTheTruth, PendingHasAnExecution, TypeOK
<1>7. EverybodyIsWatched'
  BY <1>1, <1>2 DEF EverybodyIsWatched
<1>8. TrackedAreKnown' /\ DeadlinesComeFirst'
  BY <1>1, <1>2, <1>3 DEF TrackedAreKnown, DeadlinesComeFirst
<1>9. LateMeansPast'
  <2>1. op \in waiting => deadlineAt[op] = NoDeadline \/ deadlineAt[op] <= now
    <3>1. CASE deadlineAt[op] = NoDeadline
      BY <3>1
    <3>2. CASE deadlineAt[op] # NoDeadline
      <4>1. deadlineAt[op] <= tracker[op] + DeadlineMs /\ now >= tracker[op] + DeadlineMs
        BY <3>2 DEF DeadlinesComeFirst
      <4>2. deadlineAt[op] \in Nat /\ tracker[op] \in Nat /\ now \in Nat /\ DeadlineMs \in Nat
        BY <3>2, DispatchTimes DEF TypeOK, Tracked
      <4> QED
        BY <4>1, <4>2
    <3> QED
      BY <3>1, <3>2
  <2> QED
    BY <1>1, <2>1 DEF LateMeansPast, TypeOK
<1>10. ReportsAreFinal /\ StartsOnlyForWaitingClients
  BY <1>1, <1>3 DEF ReportsAreFinal, StartsOnlyForWaitingClients, RowsTellTheTruth, TypeOK
<1> QED
  BY <1>4, <1>5, <1>6, <1>7, <1>8, <1>9, <1>10 DEF Good

LEMMA WatchdogStep == IInv /\ WatchdogTick => Good
<1> SUFFICES ASSUME IInv, WatchdogTick PROVE Good
  OBVIOUS
<1> USE DEF IInv, WatchdogTick, scheduler, ipc
<1>1. Tracked' = Tracked /\ InFlight' = InFlight /\ Scheduler!New' = Scheduler!New
  BY DEF Tracked, InFlight, Scheduler!New
<1>2. TypeOK'
  BY <1>1 DEF TypeOK, Expired
<1> QED
  BY <1>1, <1>2 DEF Good, Apart, NothingBeforeArrival, RowsTellTheTruth, EverybodyIsWatched,
       PendingHasAnExecution, TrackedAreKnown, DeadlinesComeFirst, LateMeansPast,
       ReportsAreFinal, StartsOnlyForWaitingClients

LEMMA TickStep == IInv /\ Tick => Good
<1> SUFFICES ASSUME IInv, Tick PROVE Good
  OBVIOUS
<1> USE DispatchTimes DEF IInv, Tick, scheduler, ipc, healing
<1>1. Tracked' = Tracked /\ InFlight' = InFlight /\ Scheduler!New' = Scheduler!New
  BY DEF Tracked, InFlight, Scheduler!New
<1>2. TypeOK'
  BY <1>1 DEF TypeOK
<1>3. LateMeansPast'
  BY DEF LateMeansPast, TypeOK
<1> QED
  BY <1>1, <1>2, <1>3 DEF Good, Apart, NothingBeforeArrival, RowsTellTheTruth,
       EverybodyIsWatched, PendingHasAnExecution, TrackedAreKnown, DeadlinesComeFirst,
       ReportsAreFinal, StartsOnlyForWaitingClients

-----------------------------------------------------------------------------

LEMMA NextStep == IInv /\ [Next]_vars => Good
<1> SUFFICES ASSUME IInv, [Next]_vars PROVE Good
  OBVIOUS
<1>1. ASSUME NEW op \in Ops, NEW d \in now..(now + DeadlineMs) \cup {NoDeadline}, Refuse(op, d)
      PROVE  Good
  BY <1>1, RefuseStep
<1>2. ASSUME NEW op \in Ops, NEW d \in now..(now + DeadlineMs) \cup {NoDeadline}, Accept(op, d)
      PROVE  Good
  BY <1>2, AcceptStep
<1>3. ASSUME NEW op \in Ops, Start(op) PROVE Good
  BY <1>3, StartStep
<1>4. ASSUME NEW op \in Ops, Discard(op) PROVE Good
  BY <1>4, DiscardStep
<1>5. ASSUME NEW op \in Ops, RequestDeadline(op) PROVE Good
  BY <1>5, CancelStep DEF RequestDeadline
<1>6. ASSUME NEW op \in Ops, SocketClosed(op) PROVE Good
  BY <1>6, CancelStep DEF SocketClosed
<1>7. ASSUME NEW op \in Ops, ExecutionTimeout(op) PROVE Good
  BY <1>7, ExecutionTimeoutStep
<1>8. ASSUME NEW op \in Ops, NEW status \in {"completed", "failed"}, TaskEnds(op, status)
      PROVE  Good
  BY <1>8, TaskEndsStep
<1>9. CASE WatchdogTick
  BY <1>9, WatchdogStep
<1>10. CASE Tick
  BY <1>10, TickStep
<1>11. CASE UNCHANGED vars
  BY <1>11, StutterStep
<1> QED
  BY <1>1, <1>2, <1>3, <1>4, <1>5, <1>6, <1>7, <1>8, <1>9, <1>10, <1>11 DEF Next

(* The strengthened invariant: the four parts of EverybodyAgrees, and what is *)
(* known of calls that have not arrived, that were declared hung, or that     *)
(* wait although their client has its answer (OperationDispatch).             *)
THEOREM DispatchInvariant == Spec => []IInv
<1>1. IInv /\ [Next]_vars => IInv'
  BY NextStep DEF Good
<1> QED
  BY <1>1, InitStep, PTL DEF Spec

(* The client, its row, the watchdog and the scheduler never disagree about a *)
(* call, for any number of calls and whatever comes first (handleOperation,   *)
(* daemon.execute, SelfHealingExecutor.execute).                              *)
THEOREM EverybodyAlwaysAgrees == Spec => []EverybodyAgrees
<1>1. IInv => EverybodyAgrees
  BY DEF IInv, EverybodyAgrees
<1> QED
  BY <1>1, DispatchInvariant, PTL

(* A request is answered once, its row closed once, and a task with a         *)
(* deadline never starts for a client that is gone (handleOperation, drain).  *)
THEOREM NothingBehindTheClientsBack == Spec => VerdictsStand
<1>1. IInv /\ [Next]_vars => [ReportsAreFinal]_vars /\ [StartsOnlyForWaitingClients]_vars
  BY NextStep DEF Good
<1> QED
  BY <1>1, DispatchInvariant, PTL DEF Spec, VerdictsStand, ReportsStand, NoLateStart
=============================================================================
