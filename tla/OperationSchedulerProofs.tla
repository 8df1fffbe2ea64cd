--------------------- MODULE OperationSchedulerProofs ---------------------
(***************************************************************************)
(* Proofs about OperationScheduler for every set of calls and classes and  *)
(* every choice of limits.  The inductive invariant is the conjunction of  *)
(* the invariants TLC checks: the counters can only be kept if the queues  *)
(* list the waiting calls exactly once, and the limits and the absence of  *)
(* idle slots can only be kept if the counters are right.                  *)
(***************************************************************************)
EXTENDS OperationScheduler, QueueLemmas

WaitingIn(c) == {op \in Ops : ClassOf[op] = c /\ phase[op] = "queued"}
QueueInv == \A c \in Classes : Lists(queues[c], WaitingIn(c))

IInv ==
  /\ TypeOK
  /\ QueueInv
  /\ CountersAgree
  /\ WithinLimits
  /\ WorkConserving
  /\ ArmedWhileWaiting

-----------------------------------------------------------------------------
(***************************************************************************)
(* Facts about a single state.                                             *)
(***************************************************************************)

\* The form of the queue invariant that the proofs use implies the one that the
\* runs check.
LEMMA QueueInvIsQueuesHoldTheWaiting ==
  ASSUME TypeOK, QueueInv
  PROVE  QueuesHoldTheWaiting
<1> SUFFICES ASSUME NEW c \in Classes
             PROVE  /\ \A i \in DOMAIN queues[c] :
                         ClassOf[queues[c][i]] = c /\ phase[queues[c][i]] = "queued"
                    /\ \A i, j \in DOMAIN queues[c] : queues[c][i] = queues[c][j] => i = j
                    /\ \A op \in QueuedOps :
                         ClassOf[op] = c => \E i \in DOMAIN queues[c] : queues[c][i] = op
  BY DEF QueuesHoldTheWaiting
<1> DEFINE q == queues[c]
<1>1. Lists(q, WaitingIn(c))
  BY DEF QueueInv
<1> HIDE DEF q
<1>2. q \in Seq(WaitingIn(c)) /\ DOMAIN q = 1..Len(q)
  BY <1>1 DEF Lists
<1>3. \A i \in DOMAIN q : q[i] \in WaitingIn(c)
  BY <1>2
<1>4. \A i, j \in DOMAIN q : q[i] = q[j] => i = j
  BY <1>1, <1>2 DEF Lists
<1>5. \A op \in WaitingIn(c) : \E i \in DOMAIN q : q[i] = op
  BY <1>1, <1>2 DEF Lists
<1>6. QED
  BY <1>3, <1>4, <1>5 DEF q, WaitingIn, QueuedOps

LEMMA QueuedFinite ==
  /\ IsFiniteSet(QueuedOps)
  /\ Cardinality(QueuedOps) \in Nat
  /\ \A c : IsFiniteSet(Holding(c)) /\ Cardinality(Holding(c)) \in Nat
<1>1. IsFiniteSet(Ops)
  BY OpsAssumption
<1>2. \A S \in SUBSET Ops : IsFiniteSet(S) /\ Cardinality(S) \in Nat
  BY <1>1, FS_Subset, FS_CardinalityType
<1>3. QED
  BY <1>2 DEF QueuedOps, Holding

-----------------------------------------------------------------------------
(***************************************************************************)
(* What leaving a queue, by whichever door, does to the invariant.         *)
(***************************************************************************)

LEMMA LeaveQueue ==
  ASSUME IInv, NEW op \in QueuedOps, NEW outcome \in Phases \ {"queued"}, NEW rest,
         Lists(rest, WaitingIn(ClassOf[op]) \ {op}),
         Len(rest) = Len(queues[ClassOf[op]]) - 1,
         queues' = [queues EXCEPT ![ClassOf[op]] = rest],
         totalQueued' = totalQueued - 1,
         armed' = armed \ {op},
         phase' = [phase EXCEPT ![op] = outcome]
  PROVE  /\ queues' \in [Classes -> Seq(Ops)]
         /\ QueueInv'
         /\ totalQueued' \in Nat
         /\ totalQueued' = Cardinality(QueuedOps')
         /\ totalQueued' <= MaxQueue
         /\ \A c \in Classes : Len(queues'[c]) <= MaxQueueOf[c]
         /\ phase' \in [Ops -> Phases]
         /\ armed' = QueuedOps'
<1> DEFINE c == ClassOf[op]
<1>1. op \in Ops /\ c \in Classes /\ phase[op] = "queued"
  BY OpsAssumption DEF QueuedOps
<1>2. QueuedOps' = QueuedOps \ {op}
  BY <1>1 DEF IInv, TypeOK, QueuedOps
<1>3. WaitingIn(c)' = WaitingIn(c) \ {op}
  BY <1>1 DEF IInv, TypeOK, WaitingIn
<1>4. ASSUME NEW d \in Classes, d # c
      PROVE  WaitingIn(d)' = WaitingIn(d) /\ queues'[d] = queues[d]
  BY <1>1, <1>4 DEF IInv, TypeOK, WaitingIn
<1>5. queues'[c] = rest
  BY <1>1 DEF IInv, TypeOK
<1>6. QueueInv'
  <2> SUFFICES ASSUME NEW d \in Classes
               PROVE  Lists(queues'[d], WaitingIn(d)')
    BY DEF QueueInv
  <2>1. CASE d = c
    BY <2>1, <1>3, <1>5
  <2>2. CASE d # c
    BY <2>2, <1>4 DEF IInv, QueueInv
  <2>3. QED
    BY <2>1, <2>2
<1>7. queues' \in [Classes -> Seq(Ops)]
  <2>1. rest \in Seq(WaitingIn(c) \ {op})
    BY DEF Lists
  <2>2. rest \in Seq(Ops)
    BY <2>1, SeqMonotonic DEF WaitingIn
  <2>3. QED
    BY <2>2, <1>1 DEF IInv, TypeOK
<1>8. totalQueued' = Cardinality(QueuedOps') /\ totalQueued' \in Nat
  <2>1. Cardinality(QueuedOps \ {op}) = Cardinality(QueuedOps) - 1
    BY QueuedFinite, FS_RemoveElement
  <2>2. IsFiniteSet(QueuedOps \ {op})
    BY QueuedFinite, FS_RemoveElement
  <2>3. Cardinality(QueuedOps \ {op}) \in Nat
    BY <2>2, FS_CardinalityType
  <2>4. QED
    BY <2>1, <2>3, <1>2 DEF IInv, CountersAgree
<1>9. totalQueued' <= MaxQueue
  BY <1>8, LimitsAssumption DEF IInv, TypeOK, WithinLimits
<1>10. \A d \in Classes : Len(queues'[d]) <= MaxQueueOf[d]
  <2> SUFFICES ASSUME NEW d \in Classes
               PROVE  Len(queues'[d]) <= MaxQueueOf[d]
    OBVIOUS
  <2>1. CASE d = c
    <3> HIDE DEF c
    <3>0. queues[c] \in Seq(Ops)
      BY <1>1 DEF IInv, TypeOK
    <3>1. Len(queues[c]) \in Nat /\ MaxQueueOf[c] \in Nat /\ Len(queues[c]) <= MaxQueueOf[c]
      BY <1>1, <3>0, LenProperties, LimitsAssumption DEF IInv, WithinLimits
    <3>2. Len(queues'[c]) = Len(queues[c]) - 1
      BY <1>5 DEF c
    <3>3. QED
      BY <3>1, <3>2, <2>1
  <2>2. CASE d # c
    BY <2>2, <1>4 DEF IInv, WithinLimits
  <2>3. QED
    BY <2>1, <2>2
<1>11. phase' \in [Ops -> Phases]
  BY <1>1 DEF IInv, TypeOK
<1>12. armed' = QueuedOps'
  BY <1>2 DEF IInv, ArmedWhileWaiting
<1>13. QED
  BY <1>6, <1>7, <1>8, <1>9, <1>10, <1>11, <1>12
-----------------------------------------------------------------------------
(***************************************************************************)
(* One lemma per action: the step keeps the invariant.                     *)
(***************************************************************************)

\* Steps that move no call into or out of a queue leave the queue facts alone.
LEMMA QueuesUntouched ==
  ASSUME IInv, QueuedOps' = QueuedOps, UNCHANGED <<queues, totalQueued, armed>>
  PROVE  /\ QueueInv'
         /\ totalQueued' = Cardinality(QueuedOps')
         /\ totalQueued' <= MaxQueue
         /\ \A c \in Classes : Len(queues'[c]) <= MaxQueueOf[c]
         /\ armed' = QueuedOps'
<1>1. \A c \in Classes : WaitingIn(c)' = WaitingIn(c)
  BY DEF WaitingIn, QueuedOps
<1>2. QED
  BY <1>1 DEF IInv, QueueInv, CountersAgree, WithinLimits, ArmedWhileWaiting

LEMMA RejectionStep ==
  ASSUME IInv, NEW op \in Ops, NEW d \in Deadlines, RejectEarly(op, d) \/ RejectBusy(op, d)
  PROVE  IInv'
<1>1. /\ phase[op] = "unsubmitted"
      /\ UNCHANGED <<now, active, queues, totalQueued, aborted, armed, draining>>
      /\ deadlineAt' = [deadlineAt EXCEPT ![op] = d]
      /\ \E outcome \in Rejections : phase' = [phase EXCEPT ![op] = outcome]
  BY DEF RejectEarly, RejectBusy, Admissible, Rejections
<1>2. QueuedOps' = QueuedOps /\ \A c : Holding(c)' = Holding(c)
  BY <1>1 DEF IInv, TypeOK, QueuedOps, Holding, Rejections
<1>3. TypeOK'
  BY <1>1 DEF IInv, TypeOK, Phases
<1>4. CountersAgree' /\ WithinLimits' /\ WorkConserving' /\ ArmedWhileWaiting'
  BY <1>1, <1>2 DEF IInv, CountersAgree, WithinLimits, WorkConserving, ArmedWhileWaiting
<1>5. QED
  BY <1>1, <1>2, <1>3, <1>4, QueuesUntouched DEF IInv

\* Starting a call, from outside or from the queue, takes one slot.
LEMMA SlotTaken ==
  ASSUME IInv, NEW op \in Ops, phase[op] \notin {"running", "settled"},
         HasSlot(ClassOf[op]),
         phase' = [phase EXCEPT ![op] = "running"],
         active' = [active EXCEPT ![ClassOf[op]] = @ + 1]
  PROVE  /\ active' \in [Classes -> Nat]
         /\ \A c \in Classes : active'[c] = Cardinality(Holding(c)')
         /\ \A c \in Classes : active'[c] <= Concurrency[c]
<1> SUFFICES ASSUME NEW c \in Classes
             PROVE  /\ active' \in [Classes -> Nat]
                    /\ active'[c] = Cardinality(Holding(c)')
                    /\ active'[c] <= Concurrency[c]
  BY OpsAssumption
<1>1. ClassOf[op] \in Classes
  BY OpsAssumption
<1>2. active' \in [Classes -> Nat]
  BY <1>1 DEF IInv, TypeOK
<1>3. CASE c = ClassOf[op]
  <2>1. Holding(c)' = Holding(c) \cup {op} /\ op \notin Holding(c)
    BY <1>3 DEF IInv, TypeOK, Holding
  <2>2. Cardinality(Holding(c)') = Cardinality(Holding(c)) + 1
    BY <2>1, QueuedFinite, FS_AddElement
  <2>3. active'[c] = active[c] + 1
    BY <1>3 DEF IInv, TypeOK
  <2>4. active[c] \in Nat /\ Concurrency[c] \in Nat /\ active[c] < Concurrency[c]
    BY <1>3, LimitsAssumption DEF IInv, TypeOK, HasSlot
  <2>5. QED
    BY <1>2, <2>2, <2>3, <2>4 DEF IInv, CountersAgree
<1>4. CASE c # ClassOf[op]
  <2>1. Holding(c)' = Holding(c) /\ active'[c] = active[c]
    BY <1>4 DEF IInv, TypeOK, Holding
  <2>2. QED
    BY <1>2, <2>1 DEF IInv, CountersAgree, WithinLimits
<1>5. QED
  BY <1>3, <1>4

LEMMA StartImmediatelyStep ==
  ASSUME IInv, NEW op \in Ops, NEW d \in Deadlines, StartImmediately(op, d)
  PROVE  IInv'
<1>1. /\ phase[op] = "unsubmitted"
      /\ draining = None
      /\ HasSlot(ClassOf[op])
      /\ phase' = [phase EXCEPT ![op] = "running"]
      /\ active' = [active EXCEPT ![ClassOf[op]] = @ + 1]
      /\ deadlineAt' = [deadlineAt EXCEPT ![op] = d]
      /\ UNCHANGED <<now, queues, totalQueued, aborted, armed, draining>>
  BY DEF StartImmediately, Admissible
<1>2. QueuedOps' = QueuedOps
  BY <1>1 DEF IInv, TypeOK, QueuedOps
<1>3. /\ active' \in [Classes -> Nat]
      /\ \A c \in Classes : active'[c] = Cardinality(Holding(c)')
      /\ \A c \in Classes : active'[c] <= Concurrency[c]
  BY <1>1, SlotTaken
<1>4. TypeOK'
  BY <1>1, <1>3 DEF IInv, TypeOK, Phases
<1>5. WorkConserving'
  <2> SUFFICES ASSUME NEW c \in Classes, queues[c] # <<>>
               PROVE  active'[c] = Concurrency[c]
    BY <1>1 DEF WorkConserving
  <2>1. active[c] = Concurrency[c]
    BY <1>1, OpsAssumption DEF IInv, WorkConserving
  <2>2. c # ClassOf[op]
    BY <2>1, <1>1, LimitsAssumption DEF HasSlot
  <2>3. QED
    BY <2>1, <2>2, <1>1, OpsAssumption DEF IInv, TypeOK
<1>6. QED
  BY <1>1, <1>2, <1>3, <1>4, <1>5, QueuesUntouched
  DEF IInv, CountersAgree, WithinLimits, ArmedWhileWaiting

LEMMA EnqueueStep ==
  ASSUME IInv, NEW op \in Ops, NEW d \in Deadlines, Enqueue(op, d)
  PROVE  IInv'
<1> DEFINE c == ClassOf[op]
<1>1. /\ phase[op] = "unsubmitted"
      /\ op \notin aborted
      /\ ~ HasSlot(c)
      /\ totalQueued < MaxQueue
      /\ Len(queues[c]) < MaxQueueOf[c]
      /\ queues' = [queues EXCEPT ![c] = Append(@, op)]
      /\ totalQueued' = totalQueued + 1
      /\ phase' = [phase EXCEPT ![op] = "queued"]
      /\ armed' = armed \cup {op}
      /\ deadlineAt' = [deadlineAt EXCEPT ![op] = d]
      /\ UNCHANGED <<now, active, aborted, draining>>
  <2>1. c \in Classes /\ queues[c] \in Seq(Ops)
    BY OpsAssumption DEF IInv, TypeOK
  <2>2. Len(queues[c]) \in Nat /\ MaxQueueOf[c] \in Nat /\ totalQueued \in Nat /\ MaxQueue \in Nat
    BY <2>1, LenProperties, LimitsAssumption DEF IInv, TypeOK
  <2>3. QED
    BY <2>2 DEF Enqueue, Admissible, QueueIsFull
<1>2. c \in Classes /\ queues[c] \in Seq(Ops) /\ Len(queues[c]) \in Nat
  BY OpsAssumption, LenProperties DEF IInv, TypeOK
<1>3. QueuedOps' = QueuedOps \cup {op} /\ op \notin QueuedOps
  BY <1>1 DEF IInv, TypeOK, QueuedOps
<1>4. /\ Lists(queues'[c], WaitingIn(c)')
      /\ Len(queues'[c]) = Len(queues[c]) + 1
  <2>1. WaitingIn(c)' = WaitingIn(c) \cup {op} /\ op \notin WaitingIn(c)
    BY <1>1 DEF IInv, TypeOK, WaitingIn
  <2>2. queues'[c] = Append(queues[c], op)
    BY <1>1, <1>2 DEF IInv, TypeOK
  <2>3. Lists(queues[c], WaitingIn(c))
    BY <1>2 DEF IInv, QueueInv
  <2>4. QED
    BY <2>1, <2>2, <2>3, ListsAppend
<1>5. ASSUME NEW e \in Classes, e # c
      PROVE  WaitingIn(e)' = WaitingIn(e) /\ queues'[e] = queues[e]
  BY <1>1, <1>5 DEF IInv, TypeOK, WaitingIn
<1>6. QueueInv'
  BY <1>4, <1>5 DEF IInv, QueueInv
<1>7. TypeOK'
  <2>1. queues' \in [Classes -> Seq(Ops)]
    BY <1>1, <1>2, AppendProperties DEF IInv, TypeOK
  <2>2. QED
    BY <1>1, <2>1 DEF IInv, TypeOK, Phases
<1>8. CountersAgree'
  <2>1. \A e : Holding(e)' = Holding(e)
    BY <1>1 DEF IInv, TypeOK, Holding
  <2>2. Cardinality(QueuedOps') = Cardinality(QueuedOps) + 1
    BY <1>3, QueuedFinite, FS_AddElement
  <2>3. QED
    BY <1>1, <2>1, <2>2 DEF IInv, CountersAgree
<1>9. WithinLimits'
  <2>1. totalQueued' <= MaxQueue
    BY <1>1, LimitsAssumption DEF IInv, TypeOK
  <2>2. Len(queues'[c]) <= MaxQueueOf[c]
    BY <1>1, <1>2, <1>4, LimitsAssumption
  <2>3. QED
    BY <1>1, <1>5, <2>1, <2>2 DEF IInv, WithinLimits
<1>10. WorkConserving'
  <2>1. active[c] = Concurrency[c]
    <3> HIDE DEF c
    <3>1. active[c] \in Nat /\ Concurrency[c] \in Nat /\ active[c] <= Concurrency[c]
      BY <1>2, LimitsAssumption DEF IInv, TypeOK, WithinLimits
    <3>2. QED
      BY <1>1, <3>1 DEF HasSlot
  <2>2. QED
    BY <1>1, <1>5, <2>1 DEF IInv, WorkConserving
<1>11. ArmedWhileWaiting'
  BY <1>1, <1>3 DEF IInv, ArmedWhileWaiting
<1>12. QED
  BY <1>6, <1>7, <1>8, <1>9, <1>10, <1>11 DEF IInv

\* removeQueued, whatever calls it: the abort listener or the deadline timer.
LEMMA RemoveQueuedEffect ==
  ASSUME IInv, NEW op \in QueuedOps, NEW outcome \in Rejections, RemoveQueued(op, outcome)
  PROVE  \E rest :
           /\ Lists(rest, WaitingIn(ClassOf[op]) \ {op})
           /\ Len(rest) = Len(queues[ClassOf[op]]) - 1
           /\ queues' = [queues EXCEPT ![ClassOf[op]] = rest]
<1> DEFINE c == ClassOf[op]
           q == queues[c]
<1>1. c \in Classes /\ Lists(q, WaitingIn(c))
  BY OpsAssumption DEF IInv, QueueInv, QueuedOps
<1>2. PICK i \in DOMAIN q :
        q[i] = op /\ queues' = [queues EXCEPT ![c] = RemoveAt(q, i)]
  BY DEF RemoveQueued
<1>3. i \in 1..Len(q)
  BY <1>1, <1>2 DEF Lists
<1>4. /\ Lists(RemoveAt(q, i), WaitingIn(c) \ {op})
      /\ Len(RemoveAt(q, i)) = Len(q) - 1
  BY <1>1, <1>2, <1>3, ListsRemoveAt
<1>5. QED
  BY <1>2, <1>4

LEMMA CancelStep ==
  ASSUME IInv, NEW op \in QueuedOps, NEW outcome \in Rejections, RemoveQueued(op, outcome),
         UNCHANGED <<now, active, deadlineAt, draining>>,
         aborted' \subseteq aborted \cup {op}, aborted' \subseteq Ops
  PROVE  IInv'
<1> DEFINE c == ClassOf[op]
<1>1. PICK rest :
        /\ Lists(rest, WaitingIn(c) \ {op})
        /\ Len(rest) = Len(queues[c]) - 1
        /\ queues' = [queues EXCEPT ![c] = rest]
  BY RemoveQueuedEffect
<1>2. /\ totalQueued' = totalQueued - 1
      /\ armed' = armed \ {op}
      /\ phase' = [phase EXCEPT ![op] = outcome]
  BY DEF RemoveQueued
<1>3. /\ queues' \in [Classes -> Seq(Ops)]
      /\ QueueInv'
      /\ totalQueued' \in Nat
      /\ totalQueued' = Cardinality(QueuedOps')
      /\ totalQueued' <= MaxQueue
      /\ \A e \in Classes : Len(queues'[e]) <= MaxQueueOf[e]
      /\ phase' \in [Ops -> Phases]
      /\ armed' = QueuedOps'
  BY <1>1, <1>2, LeaveQueue DEF Phases, Rejections
<1>4. \A e : Holding(e)' = Holding(e)
  BY <1>2 DEF IInv, TypeOK, Holding, QueuedOps, Rejections
<1>5. WorkConserving'
  <2> SUFFICES ASSUME NEW e \in Classes, draining # e, queues'[e] # <<>>
               PROVE  active[e] = Concurrency[e]
    BY DEF WorkConserving
  <2>1. queues[e] # <<>>
    <3>1. CASE e = c
      <4>1. op \in WaitingIn(c) /\ Lists(queues[c], WaitingIn(c)) /\ c \in Classes
        BY OpsAssumption DEF IInv, QueueInv, QueuedOps, WaitingIn
      <4>2. \E i \in 1..Len(queues[c]) : queues[c][i] = op
        BY <4>1 DEF Lists
      <4>3. QED
        BY <4>2, <3>1, EmptySeq
    <3>2. CASE e # c
      BY <3>2, <1>1 DEF IInv, TypeOK
    <3>3. QED
      BY <3>1, <3>2
  <2>2. QED
    BY <2>1 DEF IInv, WorkConserving
<1>6. TypeOK'
  BY <1>2, <1>3 DEF IInv, TypeOK
<1>7. CountersAgree' /\ WithinLimits'
  BY <1>3, <1>4 DEF IInv, CountersAgree, WithinLimits
<1>8. ArmedWhileWaiting'
  BY <1>2, <1>3 DEF IInv, ArmedWhileWaiting
<1>9. QED
  BY <1>3, <1>5, <1>6, <1>7, <1>8 DEF IInv

LEMMA AbortStep ==
  ASSUME IInv, NEW op \in Ops, Abort(op)
  PROVE  IInv'
<1>1. CASE op \in armed
  <2>1. op \in QueuedOps
    BY <1>1 DEF IInv, ArmedWhileWaiting
  <2>2. /\ RemoveQueued(op, "cancelled")
        /\ aborted' = aborted \cup {op}
        /\ UNCHANGED <<now, active, deadlineAt, draining>>
    BY <1>1 DEF Abort
  <2>3. aborted' \subseteq Ops
    BY <2>2 DEF IInv, TypeOK
  <2>4. QED
    BY <2>1, <2>2, <2>3, CancelStep DEF Rejections
<1>2. CASE op \notin armed
  <2>1. /\ aborted' = aborted \cup {op}
        /\ UNCHANGED <<queues, totalQueued, armed, phase, now, active, deadlineAt, draining>>
    BY <1>2 DEF Abort
  <2>2. QueuedOps' = QueuedOps /\ (\A c : Holding(c)' = Holding(c))
    BY <2>1 DEF QueuedOps, Holding
  <2>3. QueueInv'
    BY <2>1, <2>2, QueuesUntouched
  <2>4. TypeOK' /\ CountersAgree' /\ WithinLimits' /\ WorkConserving' /\ ArmedWhileWaiting'
    BY <1>2, <2>1, <2>2
    DEF IInv, TypeOK, CountersAgree, WithinLimits, WorkConserving, ArmedWhileWaiting
  <2>5. QED
    BY <2>3, <2>4 DEF IInv
<1>3. QED
  BY <1>1, <1>2

LEMMA DeadlineTimerStep ==
  ASSUME IInv, NEW op \in Ops, DeadlineTimer(op)
  PROVE  IInv'
<1>1. op \in QueuedOps
  BY DEF DeadlineTimer, IInv, ArmedWhileWaiting
<1>2. /\ RemoveQueued(op, "expired")
      /\ UNCHANGED <<now, active, deadlineAt, aborted, draining>>
  BY DEF DeadlineTimer
<1>3. aborted \subseteq Ops
  BY DEF IInv, TypeOK
<1>4. QED
  BY <1>1, <1>2, <1>3, CancelStep DEF Rejections

LEMMA SettleStep ==
  ASSUME IInv, NEW op \in Ops, Settle(op)
  PROVE  IInv'
<1>1. /\ phase[op] = "running"
      /\ phase' = [phase EXCEPT ![op] = "settled"]
      /\ UNCHANGED <<now, active, queues, totalQueued, deadlineAt, aborted, armed, draining>>
  BY DEF Settle
<1>2. QueuedOps' = QueuedOps /\ \A c : Holding(c)' = Holding(c)
  BY <1>1 DEF IInv, TypeOK, QueuedOps, Holding
<1>3. TypeOK'
  BY <1>1 DEF IInv, TypeOK, Phases
<1>4. CountersAgree' /\ WithinLimits' /\ WorkConserving' /\ ArmedWhileWaiting'
  BY <1>1, <1>2 DEF IInv, CountersAgree, WithinLimits, WorkConserving, ArmedWhileWaiting
<1>5. QED
  BY <1>1, <1>2, <1>3, <1>4, QueuesUntouched DEF IInv

LEMMA ReleaseStep ==
  ASSUME IInv, NEW op \in Ops, Release(op)
  PROVE  IInv'
<1> DEFINE c == ClassOf[op]
<1>1. /\ phase[op] = "settled"
      /\ draining = None
      /\ phase' = [phase EXCEPT ![op] = "done"]
      /\ active' = [active EXCEPT ![c] = @ - 1]
      /\ draining' = c
      /\ UNCHANGED <<now, queues, totalQueued, deadlineAt, aborted, armed>>
  BY DEF Release
<1>2. c \in Classes
  BY OpsAssumption
<1>3. QueuedOps' = QueuedOps
  BY <1>1 DEF IInv, TypeOK, QueuedOps
<1>4. op \in Holding(c) /\ Holding(c)' = Holding(c) \ {op}
  BY <1>1 DEF IInv, TypeOK, Holding
<1>5. /\ active[c] = Cardinality(Holding(c))
      /\ active'[c] = active[c] - 1
      /\ Cardinality(Holding(c)') = Cardinality(Holding(c)) - 1
      /\ Cardinality(Holding(c)') \in Nat
  <2>1. /\ Cardinality(Holding(c) \ {op}) = Cardinality(Holding(c)) - 1
        /\ IsFiniteSet(Holding(c) \ {op})
    BY <1>4, QueuedFinite, FS_RemoveElement
  <2>2. Cardinality(Holding(c) \ {op}) \in Nat
    BY <2>1, FS_CardinalityType
  <2>3. QED
    BY <1>1, <1>2, <1>4, <2>1, <2>2 DEF IInv, TypeOK, CountersAgree
<1>6. ASSUME NEW e \in Classes, e # c
      PROVE  Holding(e)' = Holding(e) /\ active'[e] = active[e]
  BY <1>1, <1>6 DEF IInv, TypeOK, Holding
<1>7. TypeOK'
  <2>1. active' \in [Classes -> Nat]
    BY <1>1, <1>2, <1>5 DEF IInv, TypeOK
  <2>2. QED
    BY <1>1, <1>2, <2>1 DEF IInv, TypeOK, Phases
<1>8. \A e \in Classes : active'[e] = Cardinality(Holding(e)')
  BY <1>5, <1>6 DEF IInv, CountersAgree
<1>9. \A e \in Classes : active'[e] <= Concurrency[e]
  <2>1. active'[c] <= Concurrency[c]
    <3> HIDE DEF c
    <3>1. active[c] \in Nat /\ Concurrency[c] \in Nat /\ active[c] <= Concurrency[c]
      BY <1>2, LimitsAssumption DEF IInv, TypeOK, WithinLimits
    <3>2. QED
      BY <1>5, <3>1
  <2>2. QED
    BY <2>1, <1>6 DEF IInv, WithinLimits
<1>10. WorkConserving'
  BY <1>1, <1>6, OpsAssumption DEF IInv, WorkConserving
<1>11. QED
  BY <1>1, <1>3, <1>7, <1>8, <1>9, <1>10, QueuesUntouched
  DEF IInv, CountersAgree, WithinLimits, ArmedWhileWaiting

\* queue.shift, for the two turns of the drain loop that take the oldest call.
LEMMA ShiftEffect ==
  ASSUME IInv, DrainContinues, Shift, NEW outcome \in Phases \ {"queued"},
         phase' = [phase EXCEPT ![Head(queues[draining])] = outcome]
  PROVE  /\ draining \in Classes
         /\ Head(queues[draining]) \in QueuedOps
         /\ ClassOf[Head(queues[draining])] = draining
         /\ queues' \in [Classes -> Seq(Ops)]
         /\ QueueInv'
         /\ totalQueued' \in Nat
         /\ totalQueued' = Cardinality(QueuedOps')
         /\ totalQueued' <= MaxQueue
         /\ \A e \in Classes : Len(queues'[e]) <= MaxQueueOf[e]
         /\ \A e \in Classes : e # draining => queues'[e] = queues[e]
         /\ phase' \in [Ops -> Phases]
         /\ armed' = QueuedOps'
         /\ armed' \subseteq armed
<1> DEFINE c == draining
           op == Head(queues[c])
<1>1. c \in Classes /\ queues[c] # <<>>
  BY DEF DrainContinues, IInv, TypeOK
<1>2. Lists(queues[c], WaitingIn(c))
  BY <1>1 DEF IInv, QueueInv
<1>3. /\ op \in WaitingIn(c)
      /\ Lists(Tail(queues[c]), WaitingIn(c) \ {op})
      /\ Len(Tail(queues[c])) = Len(queues[c]) - 1
  BY <1>1, <1>2, ListsTail
<1>4. op \in QueuedOps /\ ClassOf[op] = c
  BY <1>3 DEF WaitingIn, QueuedOps
<1>5. /\ queues' = [queues EXCEPT ![c] = Tail(queues[c])]
      /\ totalQueued' = totalQueued - 1
      /\ armed' = armed \ {op}
  BY DEF Shift
<1>6. \A e \in Classes : e # c => queues'[e] = queues[e]
  BY <1>5 DEF IInv, TypeOK
<1> HIDE DEF op, c
<1>7. /\ queues' \in [Classes -> Seq(Ops)]
      /\ QueueInv'
      /\ totalQueued' \in Nat
      /\ totalQueued' = Cardinality(QueuedOps')
      /\ totalQueued' <= MaxQueue
      /\ \A e \in Classes : Len(queues'[e]) <= MaxQueueOf[e]
      /\ phase' \in [Ops -> Phases]
      /\ armed' = QueuedOps'
  <2>1. phase' = [phase EXCEPT ![op] = outcome]
    BY DEF op, c
  <2>2. QED
    BY <2>1, <1>3, <1>4, <1>5, LeaveQueue
<1>8. QED
  BY <1>1, <1>4, <1>5, <1>6, <1>7 DEF op, c

LEMMA DrainDiscardStep ==
  ASSUME IInv, DrainDiscard
  PROVE  IInv'
<1> DEFINE op == Head(queues[draining])
<1>1. PICK outcome \in Rejections : phase' = [phase EXCEPT ![op] = outcome]
  BY DEF DrainDiscard, Rejections
<1>2. DrainContinues /\ Shift /\ UNCHANGED <<now, active, deadlineAt, aborted, draining>>
  BY DEF DrainDiscard
<1>3. /\ draining \in Classes
      /\ op \in QueuedOps
      /\ queues' \in [Classes -> Seq(Ops)]
      /\ QueueInv'
      /\ totalQueued' \in Nat
      /\ totalQueued' = Cardinality(QueuedOps')
      /\ totalQueued' <= MaxQueue
      /\ \A e \in Classes : Len(queues'[e]) <= MaxQueueOf[e]
      /\ \A e \in Classes : e # draining => queues'[e] = queues[e]
      /\ phase' \in [Ops -> Phases]
      /\ armed' = QueuedOps'
      /\ armed' \subseteq armed
  BY <1>1, <1>2, ShiftEffect DEF Phases, Rejections
<1> HIDE DEF op
<1>4. \A e : Holding(e)' = Holding(e)
  BY <1>1, <1>3 DEF IInv, TypeOK, Holding, QueuedOps, Rejections
<1>5. TypeOK'
  BY <1>2, <1>3 DEF IInv, TypeOK
<1>6. CountersAgree' /\ WithinLimits'
  BY <1>2, <1>3, <1>4 DEF IInv, CountersAgree, WithinLimits
<1>7. WorkConserving' /\ ArmedWhileWaiting'
  BY <1>2, <1>3 DEF IInv, WorkConserving, ArmedWhileWaiting
<1>8. QED
  BY <1>3, <1>5, <1>6, <1>7 DEF IInv

LEMMA DrainStartStep ==
  ASSUME IInv, DrainStart
  PROVE  IInv'
<1> DEFINE op == Head(queues[draining])
<1>1. /\ DrainContinues
      /\ Shift
      /\ phase' = [phase EXCEPT ![op] = "running"]
      /\ active' = [active EXCEPT ![draining] = @ + 1]
      /\ UNCHANGED <<now, deadlineAt, aborted, draining>>
  BY DEF DrainStart
<1>2. /\ draining \in Classes
      /\ op \in QueuedOps
      /\ ClassOf[op] = draining
      /\ queues' \in [Classes -> Seq(Ops)]
      /\ QueueInv'
      /\ totalQueued' \in Nat
      /\ totalQueued' = Cardinality(QueuedOps')
      /\ totalQueued' <= MaxQueue
      /\ \A e \in Classes : Len(queues'[e]) <= MaxQueueOf[e]
      /\ \A e \in Classes : e # draining => queues'[e] = queues[e]
      /\ phase' \in [Ops -> Phases]
      /\ armed' = QueuedOps'
      /\ armed' \subseteq armed
  BY <1>1, ShiftEffect DEF Phases
<1> HIDE DEF op
<1>3. /\ active' \in [Classes -> Nat]
      /\ \A e \in Classes : active'[e] = Cardinality(Holding(e)')
      /\ \A e \in Classes : active'[e] <= Concurrency[e]
  <2>1. op \in Ops /\ phase[op] \notin {"running", "settled"}
    BY <1>2 DEF QueuedOps
  <2>2. HasSlot(ClassOf[op])
    BY <1>1, <1>2 DEF DrainContinues
  <2>3. QED
    BY <1>1, <1>2, <2>1, <2>2, SlotTaken
<1>4. TypeOK'
  BY <1>1, <1>2, <1>3 DEF IInv, TypeOK
<1>5. WorkConserving'
  BY <1>1, <1>2 DEF IInv, TypeOK, WorkConserving
<1>6. QED
  BY <1>1, <1>2, <1>3, <1>4, <1>5 DEF IInv, CountersAgree, WithinLimits, ArmedWhileWaiting

LEMMA DrainExitStep ==
  ASSUME IInv, DrainExit
  PROVE  IInv'
<1>1. /\ draining \in Classes
      /\ ~ HasSlot(draining) \/ queues[draining] = <<>>
      /\ draining' = None
      /\ UNCHANGED <<now, active, queues, totalQueued, phase, deadlineAt, aborted, armed>>
  BY DEF DrainExit, DrainContinues, IInv, TypeOK
<1>2. QueuedOps' = QueuedOps /\ \A c : Holding(c)' = Holding(c)
  BY <1>1 DEF QueuedOps, Holding
<1>3. WorkConserving'
  <2> SUFFICES ASSUME NEW c \in Classes, queues[c] # <<>>
               PROVE  active[c] = Concurrency[c]
    BY <1>1 DEF WorkConserving
  <2>1. CASE c = draining
    <3>1. active[c] \in Nat /\ Concurrency[c] \in Nat /\ active[c] <= Concurrency[c]
      BY LimitsAssumption DEF IInv, TypeOK, WithinLimits
    <3>2. ~ (active[c] < Concurrency[c])
      BY <1>1, <2>1 DEF HasSlot
    <3>3. QED
      BY <3>1, <3>2
  <2>2. CASE c # draining
    BY <2>2 DEF IInv, WorkConserving
  <2>3. QED
    BY <2>1, <2>2
<1>4. TypeOK' /\ CountersAgree' /\ WithinLimits' /\ ArmedWhileWaiting'
  BY <1>1, <1>2 DEF IInv, TypeOK, CountersAgree, WithinLimits, ArmedWhileWaiting
<1>5. QED
  BY <1>1, <1>2, <1>3, <1>4, QueuesUntouched DEF IInv

\* Ticks of the clock and stuttering steps.
LEMMA TickStep ==
  ASSUME IInv, Tick \/ UNCHANGED vars
  PROVE  IInv'
<1>1. /\ now' \in 0..MaxTime
      /\ UNCHANGED <<active, queues, totalQueued, phase, deadlineAt, aborted, armed, draining>>
  BY TimeAssumption DEF Tick, vars, IInv, TypeOK
<1>2. QueuedOps' = QueuedOps /\ \A c : Holding(c)' = Holding(c)
  BY <1>1 DEF QueuedOps, Holding
<1>3. /\ TypeOK' /\ CountersAgree' /\ WithinLimits'
      /\ WorkConserving' /\ ArmedWhileWaiting'
  BY <1>1, <1>2
  DEF IInv, TypeOK, CountersAgree, WithinLimits, WorkConserving, ArmedWhileWaiting
<1>4. QED
  BY <1>1, <1>2, <1>3, QueuesUntouched DEF IInv

-----------------------------------------------------------------------------
(***************************************************************************)
(* The theorems.                                                           *)
(***************************************************************************)

LEMMA InitEstablishesIInv == Init => IInv
<1> SUFFICES ASSUME Init
             PROVE  IInv
  OBVIOUS
<1>1. QueuedOps = {} /\ (\A c : Holding(c) = {}) /\ \A c : WaitingIn(c) = {}
  BY DEF Init, QueuedOps, Holding, WaitingIn
<1>2. TypeOK
  BY TimeAssumption DEF Init, TypeOK, Phases
<1>3. QueueInv
  <2>1. Lists(<<>>, {})
    BY DEF Lists
  <2>2. QED
    BY <2>1, <1>1 DEF Init, QueueInv
<1>4. CountersAgree
  BY <1>1, FS_EmptySet DEF Init, CountersAgree
<1>5. WithinLimits
  BY LimitsAssumption, EmptySeq DEF Init, WithinLimits
<1>6. WorkConserving /\ ArmedWhileWaiting
  BY <1>1 DEF Init, WorkConserving, ArmedWhileWaiting
<1>7. QED
  BY <1>2, <1>3, <1>4, <1>5, <1>6 DEF IInv

LEMMA StepKeepsIInv == IInv /\ [Next]_vars => IInv'
<1> SUFFICES ASSUME IInv, [Next]_vars
             PROVE  IInv'
  OBVIOUS
<1>1. CASE \E op \in Ops, d \in Deadlines : RunCall(op, d)
  BY <1>1, RejectionStep, StartImmediatelyStep, EnqueueStep DEF RunCall
<1>2. CASE \E op \in Ops : Abort(op) \/ DeadlineTimer(op) \/ Settle(op) \/ Release(op)
  BY <1>2, AbortStep, DeadlineTimerStep, SettleStep, ReleaseStep
<1>3. CASE Drain
  BY <1>3, DrainDiscardStep, DrainStartStep, DrainExitStep DEF Drain
<1>4. CASE Tick \/ UNCHANGED vars
  BY <1>4, TickStep
<1>5. QED
  BY <1>1, <1>2, <1>3, <1>4 DEF Next

\* Everything below rests on this: the invariant holds in every reachable state.
THEOREM InductiveInvariant == Spec => []IInv
BY InitEstablishesIInv, StepKeepsIInv, PTL DEF Spec

\* The state of the scheduler is well typed: in particular no counter that the
\* code decrements by hand ever goes below zero.
THEOREM TypeCorrect == Spec => []TypeOK
<1>1. IInv => TypeOK
  BY DEF IInv
<1>2. QED
  BY <1>1, InductiveInvariant, PTL

\* No call waits while its class has a free slot, outside the drain that is
\* about to fill it.
THEOREM NoIdleSlot == Spec => []WorkConserving
<1>1. IInv => WorkConserving
  BY DEF IInv
<1>2. QED
  BY <1>1, InductiveInvariant, PTL

\* The hand-kept counters count exactly the calls that wait and that hold slots.
THEOREM CountersCorrect == Spec => []CountersAgree
<1>1. IInv => CountersAgree
  BY DEF IInv
<1>2. QED
  BY <1>1, InductiveInvariant, PTL

\* Every waiting call is in exactly one place of exactly one queue.
THEOREM QueuesCorrect == Spec => []QueuesHoldTheWaiting
<1>1. IInv => QueuesHoldTheWaiting
  BY QueueInvIsQueuesHoldTheWaiting DEF IInv
<1>2. QED
  BY <1>1, InductiveInvariant, PTL

\* Concurrency and queue limits are never exceeded.
THEOREM LimitsHold == Spec => []WithinLimits
<1>1. IInv => WithinLimits
  BY DEF IInv
<1>2. QED
  BY <1>1, InductiveInvariant, PTL

\* Listeners and timers exist exactly while their call waits.
THEOREM NoLeakedListener == Spec => []ArmedWhileWaiting
<1>1. IInv => ArmedWhileWaiting
  BY DEF IInv
<1>2. QED
  BY <1>1, InductiveInvariant, PTL

\* The scheduler's books balance: everything above at once.
THEOREM BooksBalance == Spec => []Bookkeeping
<1>1. IInv => Bookkeeping
  BY QueueInvIsQueuesHoldTheWaiting DEF IInv, Bookkeeping
<1>2. QED
  BY <1>1, InductiveInvariant, PTL

\* The abstract guards, in terms of the counters and queues of the code.
LEMMA AbstractGuards ==
  ASSUME IInv, NEW c \in Classes
  PROVE  /\ Admission!Full(c) <=> ~ HasSlot(c)
         /\ Admission!RoomToWait(c) <=> ~ QueueIsFull(c)
         /\ Admission!OfClass(QueuedOps, c) = {} <=> queues[c] = <<>>
<1>1. Admission!OfClass(QueuedOps, c) = WaitingIn(c)
  BY DEF Admission!OfClass, QueuedOps, WaitingIn
<1>2. Admission!OfClass(HoldingOps, c) = Holding(c)
  BY DEF Admission!OfClass, HoldingOps, Holding
<1>3. Lists(queues[c], WaitingIn(c))
  BY DEF IInv, QueueInv
<1>4. /\ Cardinality(WaitingIn(c)) = Len(queues[c])
      /\ queues[c] \in Seq(Ops)
      /\ Len(queues[c]) \in Nat
  BY <1>3, ListsCardinality, LenProperties DEF IInv, TypeOK
<1>5. Admission!Full(c) <=> ~ HasSlot(c)
  <2>1. active[c] = Cardinality(Holding(c)) /\ active[c] \in Nat /\ Concurrency[c] \in Nat
    BY LimitsAssumption DEF IInv, TypeOK, CountersAgree
  <2>2. Admission!Full(c) <=> active[c] >= Concurrency[c]
    BY <2>1, <1>2 DEF Admission!Full, Admission!Cardinality, Cardinality
  <2>3. QED
    BY <2>1, <2>2 DEF HasSlot
<1>6. Admission!RoomToWait(c) <=> ~ QueueIsFull(c)
  <2>1. /\ totalQueued = Cardinality(QueuedOps) /\ totalQueued \in Nat
        /\ MaxQueue \in Nat /\ MaxQueueOf[c] \in Nat
    BY LimitsAssumption DEF IInv, TypeOK, CountersAgree
  <2>2. Admission!RoomToWait(c) <=> totalQueued < MaxQueue /\ Len(queues[c]) < MaxQueueOf[c]
    BY <2>1, <1>1, <1>4 DEF Admission!RoomToWait, Admission!Cardinality, Cardinality
  <2>3. QED
    BY <2>1, <2>2, <1>4 DEF QueueIsFull
<1>7. WaitingIn(c) = {} <=> queues[c] = <<>>
  <2>1. ASSUME queues[c] # <<>>
        PROVE  WaitingIn(c) # {}
    BY <2>1, <1>3, ListsTail
  <2>2. ASSUME queues[c] = <<>>
        PROVE  WaitingIn(c) = {}
    <3>1. Len(queues[c]) = 0
      BY <2>2, EmptySeq
    <3>2. QED
      BY <3>1, <1>3 DEF Lists
  <2>3. QED
    BY <2>1, <2>2
<1>8. QED
  BY <1>1, <1>5, <1>6, <1>7

-----------------------------------------------------------------------------
(***************************************************************************)
(* Action properties.                                                      *)
(***************************************************************************)

\* The only ways a step changes the standing of a call, with the line it finds.
LEMMA PhaseChanges ==
  ASSUME IInv, Next, phase' # phase
  PROVE  \E op \in Ops, new \in Phases :
           /\ phase' = [phase EXCEPT ![op] = new]
           /\ \/ phase[op] = "unsubmitted" /\ new \in Rejections \cup {"queued"}
              \/ phase[op] = "unsubmitted" /\ new = "running" /\ queues[ClassOf[op]] = <<>>
              \/ phase[op] = "queued" /\ new \in Rejections
              \/ phase[op] = "queued" /\ new = "running" /\ Head(queues[ClassOf[op]]) = op
              \/ phase[op] = "running" /\ new = "settled"
              \/ phase[op] = "settled" /\ new = "done"
<1>1. CASE \E op \in Ops, d \in Deadlines : RunCall(op, d)
  <2>1. PICK op \in Ops, d \in Deadlines : RunCall(op, d)
    BY <1>1
  <2>2. CASE RejectEarly(op, d) \/ RejectBusy(op, d) \/ Enqueue(op, d)
    BY <2>2 DEF RejectEarly, RejectBusy, Enqueue, Admissible, Phases, Rejections
  <2>3. CASE StartImmediately(op, d)
    <3>1. /\ phase[op] = "unsubmitted"
          /\ phase' = [phase EXCEPT ![op] = "running"]
          /\ draining = None
          /\ HasSlot(ClassOf[op])
      BY <2>3 DEF StartImmediately, Admissible
    <3>2. queues[ClassOf[op]] = <<>>
      <4>1. ClassOf[op] \in Classes /\ Concurrency[ClassOf[op]] \in Nat
        BY OpsAssumption, LimitsAssumption
      <4>2. QED
        BY <3>1, <4>1, OpsAssumption DEF IInv, WorkConserving, HasSlot
    <3>3. QED
      BY <3>1, <3>2 DEF Phases
  <2>4. QED
    BY <2>1, <2>2, <2>3 DEF RunCall
<1>2. CASE \E op \in Ops : Abort(op) \/ DeadlineTimer(op)
  BY <1>2 DEF Abort, DeadlineTimer, RemoveQueued, IInv, ArmedWhileWaiting, QueuedOps,
              Phases, Rejections
<1>3. CASE \E op \in Ops : Settle(op) \/ Release(op)
  BY <1>3 DEF Settle, Release, Phases
<1>4. CASE DrainDiscard \/ DrainStart
  <2> DEFINE op == Head(queues[draining])
  <2>1. PICK outcome \in Phases \ {"queued"} :
          /\ phase' = [phase EXCEPT ![op] = outcome]
          /\ outcome \in Rejections \cup {"running"}
    BY <1>4 DEF DrainDiscard, DrainStart, Phases, Rejections
  <2>2. DrainContinues /\ Shift
    BY <1>4 DEF DrainDiscard, DrainStart
  <2>3. op \in QueuedOps /\ ClassOf[op] = draining
    BY <2>1, <2>2, ShiftEffect
  <2>4. QED
    BY <2>1, <2>3 DEF QueuedOps
<1>5. CASE DrainExit \/ Tick
  BY <1>5 DEF DrainExit, Tick
<1>6. QED
  BY <1>1, <1>2, <1>3, <1>4, <1>5 DEF Next, Drain

LEMMA StepKeepsVerdicts == IInv /\ [Next]_vars => [VerdictsAreFinal]_vars
<1> SUFFICES ASSUME IInv, Next
             PROVE  VerdictsAreFinal
  OBVIOUS
<1>1. CASE phase' = phase
  BY <1>1 DEF VerdictsAreFinal, Over, Rejections
<1>2. CASE phase' # phase
  <2>1. phase \in [Ops -> Phases]
    BY DEF IInv, TypeOK
  <2>2. QED
    BY <1>2, <2>1, PhaseChanges DEF VerdictsAreFinal, Over, Rejections
<1>3. QED
  BY <1>1, <1>2

\* A step that keeps the queues and lets no waiting call in or out keeps the order.
LEMMA OrderUntouched ==
  ASSUME IInv, queues' = queues, NEW x \in Ops, NEW y \in Ops, Ahead(x, y),
         phase'[x] = "queued", phase[y] = "unsubmitted" => phase'[y] \in {"unsubmitted"} \cup Rejections
  PROVE  Ahead(x, y)' \/ phase'[y] \in Rejections
BY DEF Ahead

\* Neither does a call that leaves a queue of which the others keep the order.
LEMMA OrderAfterLeaving ==
  ASSUME IInv, NEW op \in Ops, NEW new \in Phases, NEW rest,
         op \in QueuedOps,
         phase' = [phase EXCEPT ![op] = new],
         new \in Rejections \/ (new = "running" /\ Head(queues[ClassOf[op]]) = op),
         queues' = [queues EXCEPT ![ClassOf[op]] = rest],
         DOMAIN rest = 1..Len(rest),
         \A u, v : u # op /\ v # op /\ Precedes(queues[ClassOf[op]], u, v) => Precedes(rest, u, v),
         NEW x \in Ops, NEW y \in Ops, Ahead(x, y), phase'[x] = "queued"
  PROVE  Ahead(x, y)' \/ phase'[y] \in Rejections
<1> DEFINE c == ClassOf[op]
           q == queues[c]
<1>1. /\ c \in Classes /\ Lists(q, WaitingIn(c))
      /\ queues'[c] = rest /\ DOMAIN q = 1..Len(q)
  <2>1. c \in Classes
    BY OpsAssumption DEF QueuedOps
  <2>2. Lists(q, WaitingIn(c)) /\ queues'[c] = rest
    BY <2>1 DEF IInv, TypeOK, QueueInv
  <2>3. DOMAIN q = 1..Len(q)
    BY <2>2 DEF Lists
  <2>4. QED
    BY <2>1, <2>2, <2>3
<1>2. phase \in [Ops -> Phases]
  BY DEF IInv, TypeOK
<1>3. x # op /\ phase'[x] = phase[x] /\ phase[x] = "queued"
  BY <1>2 DEF Rejections, Ahead
<1>4. CASE y = op
  <2>1. CASE new \in Rejections
    BY <1>2, <1>4, <2>1
  <2>2. CASE new = "running" /\ Head(q) = op
    <3>1. phase[y] = "queued" /\ ClassOf[x] = c
      BY <1>4 DEF QueuedOps, Ahead
    <3>2. PICK i \in DOMAIN q, j \in DOMAIN q : i < j /\ q[i] = x /\ q[j] = op
      BY <1>4, <3>1 DEF Ahead
    <3>3. /\ q \in Seq(WaitingIn(c)) /\ Len(q) \in Nat
          /\ \A m, n \in 1..Len(q) : q[m] = q[n] => m = n
      BY <1>1, LenProperties DEF Lists
    <3>4. j = 1
      <4>1. 1 \in 1..Len(q) /\ j \in 1..Len(q)
        BY <1>1, <3>2, <3>3
      <4>2. Head(q) = q[1]
        BY <3>3, <4>1
      <4>3. QED
        BY <2>2, <3>2, <3>3, <4>1, <4>2
    <3>5. QED
      BY <3>2, <3>4, <1>1
  <2>3. QED
    BY <2>1, <2>2
<1>5. CASE y # op /\ phase[y] = "unsubmitted"
  BY <1>2, <1>3, <1>5 DEF Ahead
<1>6. CASE y # op /\ phase[y] # "unsubmitted" /\ ClassOf[x] = c
  <2>1. PICK i \in DOMAIN q, j \in DOMAIN q : i < j /\ q[i] = x /\ q[j] = y
    BY <1>6 DEF Ahead
  <2>2. Precedes(q, x, y)
    BY <1>1, <2>1 DEF Precedes
  <2> HIDE DEF q
  <2>3. Precedes(rest, x, y)
    BY <1>3, <1>6, <2>2 DEF q
  <2>4. \E m, n \in DOMAIN rest : m < n /\ rest[m] = x /\ rest[n] = y
    BY <2>3 DEF Precedes
  <2>5. QED
    BY <1>1, <1>3, <1>6, <2>4 DEF Ahead
<1>7. CASE y # op /\ phase[y] # "unsubmitted" /\ ClassOf[x] # c
  <2>1. queues'[ClassOf[x]] = queues[ClassOf[x]]
    BY <1>7, OpsAssumption DEF IInv, TypeOK
  <2>2. QED
    BY <1>3, <1>7, <2>1 DEF Ahead
<1>8. QED
  BY <1>4, <1>5, <1>6, <1>7

\* Each promise settles once, and a started call is never taken back.
THEOREM EndsAreFinal == Spec => SettlesOnce
<1>1. IInv /\ [Next]_vars => [VerdictsAreFinal]_vars
  BY StepKeepsVerdicts
<1>2. QED
  BY <1>1, InductiveInvariant, PTL DEF Spec, SettlesOnce

LEMMA CancelKeepsOrder ==
  ASSUME IInv, NEW op \in QueuedOps, NEW outcome \in Rejections, RemoveQueued(op, outcome),
         NEW x \in Ops, NEW y \in Ops, Ahead(x, y), phase'[x] = "queued"
  PROVE  Ahead(x, y)' \/ phase'[y] \in Rejections
<1> DEFINE c == ClassOf[op]
           q == queues[c]
<1>1. op \in Ops /\ c \in Classes /\ Lists(q, WaitingIn(c)) /\ DOMAIN q = 1..Len(q)
  BY OpsAssumption DEF IInv, QueueInv, QueuedOps, Lists
<1>2. PICK i \in DOMAIN q :
        q[i] = op /\ queues' = [queues EXCEPT ![c] = RemoveAt(q, i)]
  BY DEF RemoveQueued
<1> DEFINE rest == RemoveAt(q, i)
<1>3. DOMAIN rest = 1..Len(rest)
  BY <1>1, RemoveAtElements DEF Lists
<1>4. \A u, v : u # op /\ v # op /\ Precedes(q, u, v) => Precedes(rest, u, v)
  BY <1>1, <1>2, OrderAfterRemoveAt
<1>5. outcome \in Phases /\ phase' = [phase EXCEPT ![op] = outcome]
  BY DEF RemoveQueued, Phases
<1> HIDE DEF rest
<1>6. queues' = [queues EXCEPT ![c] = rest]
  BY <1>2 DEF rest
<1>7. QED
  BY <1>1, <1>3, <1>4, <1>5, <1>6, OrderAfterLeaving

LEMMA DrainKeepsOrder ==
  ASSUME IInv, DrainDiscard \/ DrainStart,
         NEW x \in Ops, NEW y \in Ops, Ahead(x, y), phase'[x] = "queued"
  PROVE  Ahead(x, y)' \/ phase'[y] \in Rejections
<1> DEFINE op == Head(queues[draining])
           q == queues[draining]
           rest == Tail(q)
<1>1. PICK new \in Phases \ {"queued"} :
        new \in Rejections \cup {"running"} /\ phase' = [phase EXCEPT ![op] = new]
  BY DEF DrainDiscard, DrainStart, Phases, Rejections
<1>2. DrainContinues /\ Shift
  BY DEF DrainDiscard, DrainStart
<1>3. draining \in Classes /\ op \in QueuedOps /\ op \in Ops /\ ClassOf[op] = draining
  BY <1>1, <1>2, ShiftEffect DEF QueuedOps
<1>4. Lists(q, WaitingIn(draining)) /\ q # <<>>
  BY <1>2, <1>3 DEF IInv, QueueInv, DrainContinues
<1>5. DOMAIN rest = 1..Len(rest)
  BY <1>4, ListsTail DEF Lists
<1>6. \A u, v : u # op /\ v # op /\ Precedes(q, u, v) => Precedes(rest, u, v)
  BY <1>4, OrderAfterTail
<1>7. queues' = [queues EXCEPT ![draining] = rest]
  BY <1>2 DEF Shift
<1> HIDE DEF op, rest
<1>8. /\ q = queues[ClassOf[op]]
      /\ queues' = [queues EXCEPT ![ClassOf[op]] = rest]
      /\ new \in Rejections \/ (new = "running" /\ Head(queues[ClassOf[op]]) = op)
  BY <1>1, <1>3, <1>7 DEF op
<1> HIDE DEF q
<1>9. QED
  BY <1>1, <1>3, <1>5, <1>6, <1>8, OrderAfterLeaving

LEMMA StepKeepsOrder == IInv /\ [Next]_vars => [LinesKeepTheirOrder]_vars
<1> SUFFICES ASSUME IInv, Next, NEW x \in Ops, NEW y \in Ops,
                    Ahead(x, y), phase'[x] = "queued"
             PROVE  Ahead(x, y)' \/ phase'[y] \in Rejections
  BY DEF LinesKeepTheirOrder
<1>0. phase \in [Ops -> Phases] /\ phase[x] = "queued" /\ ClassOf[x] = ClassOf[y]
  BY DEF IInv, TypeOK, Ahead
<1>1. ASSUME NEW op \in Ops, NEW d \in Deadlines, RejectEarly(op, d) \/ RejectBusy(op, d)
      PROVE  Ahead(x, y)' \/ phase'[y] \in Rejections
  <2>1. PICK new \in Rejections : phase' = [phase EXCEPT ![op] = new] /\ queues' = queues
    BY <1>1 DEF RejectEarly, RejectBusy, Rejections
  <2>2. phase[y] = "unsubmitted" => phase'[y] \in {"unsubmitted"} \cup Rejections
    BY <1>0, <2>1
  <2>3. QED
    BY <2>1, <2>2, OrderUntouched
<1>2. ASSUME NEW op \in Ops, NEW d \in Deadlines, StartImmediately(op, d)
      PROVE  Ahead(x, y)' \/ phase'[y] \in Rejections
  <2>1. /\ draining = None
        /\ HasSlot(ClassOf[op])
        /\ phase' = [phase EXCEPT ![op] = "running"]
        /\ queues' = queues
    BY <1>2 DEF StartImmediately, Admissible
  <2>2. queues[ClassOf[op]] = <<>>
    BY <2>1, OpsAssumption, LimitsAssumption DEF IInv, WorkConserving, HasSlot
  <2>3. ClassOf[x] # ClassOf[op]
    <3>1. Admission!OfClass(QueuedOps, ClassOf[op]) = {}
      BY <2>2, AbstractGuards, OpsAssumption
    <3>2. QED
      BY <3>1, <1>0 DEF Admission!OfClass, QueuedOps
  <2>4. phase'[y] = phase[y]
    BY <1>0, <2>1, <2>3
  <2>5. QED
    BY <2>1, <2>4, OrderUntouched
<1>3. ASSUME NEW op \in Ops, NEW d \in Deadlines, Enqueue(op, d)
      PROVE  Ahead(x, y)' \/ phase'[y] \in Rejections
  <2> DEFINE c == ClassOf[op]
             q == queues[c]
  <2>1. /\ phase[op] = "unsubmitted"
        /\ phase' = [phase EXCEPT ![op] = "queued"]
        /\ queues' = [queues EXCEPT ![c] = Append(q, op)]
    BY <1>3 DEF Enqueue, Admissible
  <2>2. c \in Classes /\ Lists(q, WaitingIn(c)) /\ op \notin WaitingIn(c)
    BY <2>1, OpsAssumption DEF IInv, QueueInv, WaitingIn
  <2>3. /\ \A j \in 1..Len(q) : j \in 1..Len(Append(q, op)) /\ Append(q, op)[j] = q[j]
        /\ Len(q) + 1 \in 1..Len(Append(q, op))
        /\ Append(q, op)[Len(q) + 1] = op
        /\ DOMAIN Append(q, op) = 1..Len(Append(q, op))
        /\ DOMAIN q = 1..Len(q)
        /\ Len(q) \in Nat
    BY <2>2, OrderAfterAppend, ListsAppend, LenProperties DEF Lists
  <2>4. x # op
    BY <1>0, <2>1
  <2>5. CASE ClassOf[x] # c
    <3>1. queues'[ClassOf[x]] = queues[ClassOf[x]] /\ phase'[y] = phase[y]
      BY <1>0, <2>1, <2>5, OpsAssumption DEF IInv, TypeOK
    <3>2. QED
      BY <1>0, <3>1 DEF Ahead
  <2>6. CASE ClassOf[x] = c
    <3>1. queues'[c] = Append(q, op)
      BY <2>1, <2>2 DEF IInv, TypeOK
    <3>2. CASE y = op
      <4>1. PICK i \in 1..Len(q) : q[i] = x
        BY <1>0, <2>2, <2>6 DEF Lists, WaitingIn
      <4>2. i < Len(q) + 1
        BY <2>3
      <4>3. QED
        BY <1>0, <2>3, <2>6, <3>1, <3>2, <4>1, <4>2 DEF Ahead
    <3>3. CASE y # op /\ phase[y] = "unsubmitted"
      BY <1>0, <2>1, <3>3 DEF Ahead
    <3>4. CASE y # op /\ phase[y] # "unsubmitted"
      <4>1. PICK i \in DOMAIN q, j \in DOMAIN q : i < j /\ q[i] = x /\ q[j] = y
        BY <2>6, <3>4 DEF Ahead
      <4>2. QED
        BY <1>0, <2>3, <2>6, <3>1, <4>1 DEF Ahead
    <3>5. QED
      BY <3>2, <3>3, <3>4
  <2>7. QED
    BY <2>5, <2>6
<1>4. ASSUME NEW op \in Ops, Abort(op) \/ DeadlineTimer(op)
      PROVE  Ahead(x, y)' \/ phase'[y] \in Rejections
  <2>1. CASE op \in armed
    <3>1. op \in QueuedOps /\ \E outcome \in Rejections : RemoveQueued(op, outcome)
      BY <1>4, <2>1 DEF Abort, DeadlineTimer, IInv, ArmedWhileWaiting, Rejections
    <3>2. QED
      BY <3>1, CancelKeepsOrder
  <2>2. CASE op \notin armed
    <3>1. queues' = queues /\ phase' = phase
      BY <1>4, <2>2 DEF Abort, DeadlineTimer
    <3>2. QED
      BY <3>1, OrderUntouched
  <2>3. QED
    BY <2>1, <2>2
<1>5. ASSUME NEW op \in Ops, Settle(op) \/ Release(op)
      PROVE  Ahead(x, y)' \/ phase'[y] \in Rejections
  <2>1. queues' = queues /\ (phase[y] = "unsubmitted" => phase'[y] = "unsubmitted")
    BY <1>0, <1>5 DEF Settle, Release
  <2>2. QED
    BY <2>1, OrderUntouched
<1>6. CASE DrainDiscard \/ DrainStart
  BY <1>6, DrainKeepsOrder
<1>7. CASE DrainExit \/ Tick
  <2>1. queues' = queues /\ phase' = phase
    BY <1>7 DEF DrainExit, Tick
  <2>2. QED
    BY <2>1, OrderUntouched
<1>8. QED
  BY <1>1, <1>2, <1>3, <1>4, <1>5, <1>6, <1>7 DEF Next, RunCall, Drain

\* Service is first come, first served in every class.
THEOREM FirstComeFirstServed == Spec => NoOvertaking
<1>1. IInv /\ [Next]_vars => [LinesKeepTheirOrder]_vars
  BY StepKeepsOrder
<1>2. QED
  BY <1>1, InductiveInvariant, PTL DEF Spec, NoOvertaking

\* No step takes a verdict back or lets a call be overtaken in its line.
THEOREM NothingIsTakenBack == Spec => VerdictsAndPlacesStand
BY EndsAreFinal, FirstComeFirstServed, PTL DEF VerdictsAndPlacesStand

-----------------------------------------------------------------------------
(***************************************************************************)
(* Refinement: the queues, counters, clock and drain loop implement the    *)
(* three sets of BoundedAdmission.                                         *)
(***************************************************************************)

\* Every step is a step of the abstract specification, or leaves it alone.
LEMMA StepRefines == IInv /\ [Next]_vars => [Admission!Next]_(Admission!avars)
<1> SUFFICES ASSUME IInv, [Next]_vars
             PROVE  Admission!Next \/ UNCHANGED <<QueuedOps, HoldingOps, OverOps>>
  BY DEF Admission!avars
<1>1. CASE \E op \in Ops, d \in Deadlines : RunCall(op, d)
  <2>1. PICK op \in Ops, d \in Deadlines : RunCall(op, d)
    BY <1>1
  <2>2. ClassOf[op] \in Classes
    BY OpsAssumption
  <2>3. CASE RejectEarly(op, d) \/ RejectBusy(op, d)
    <3>1. PICK new \in Rejections :
            phase[op] = "unsubmitted" /\ phase' = [phase EXCEPT ![op] = new]
      BY <2>3 DEF RejectEarly, RejectBusy, Admissible, Rejections
    <3>2. Admission!TurnAway(op)
      <4>1. /\ QueuedOps' = QueuedOps /\ HoldingOps' = HoldingOps
            /\ OverOps' = OverOps \cup {op}
            /\ op \in Ops \ (QueuedOps \cup HoldingOps \cup OverOps)
        BY <3>1 DEF IInv, TypeOK, QueuedOps, HoldingOps, OverOps, Over, Rejections
      <4>2. QED
        BY <4>1 DEF Admission!TurnAway, Admission!New
    <3>3. QED
      BY <3>2 DEF Admission!Next
  <2>4. CASE StartImmediately(op, d)
    <3>1. /\ phase[op] = "unsubmitted"
          /\ phase' = [phase EXCEPT ![op] = "running"]
          /\ draining = None
          /\ HasSlot(ClassOf[op])
      BY <2>4 DEF StartImmediately, Admissible
    <3>2. queues[ClassOf[op]] = <<>>
      BY <2>2, <3>1, OpsAssumption, LimitsAssumption DEF IInv, WorkConserving, HasSlot
    <3>3. Admission!Enter(op)
      <4>1. /\ QueuedOps' = QueuedOps /\ OverOps' = OverOps
            /\ HoldingOps' = HoldingOps \cup {op}
            /\ op \in Ops \ (QueuedOps \cup HoldingOps \cup OverOps)
        BY <3>1 DEF IInv, TypeOK, QueuedOps, HoldingOps, OverOps, Over, Rejections
      <4>2. ~ Admission!Full(ClassOf[op]) /\ Admission!OfClass(QueuedOps, ClassOf[op]) = {}
        BY <3>1, <3>2, <2>2, AbstractGuards
      <4>3. QED
        BY <4>1, <4>2 DEF Admission!Enter, Admission!New
    <3>4. QED
      BY <3>3 DEF Admission!Next
  <2>5. CASE Enqueue(op, d)
    <3>1. /\ phase[op] = "unsubmitted"
          /\ phase' = [phase EXCEPT ![op] = "queued"]
          /\ ~ HasSlot(ClassOf[op])
          /\ ~ QueueIsFull(ClassOf[op])
      BY <2>5 DEF Enqueue, Admissible
    <3>2. Admission!Wait(op)
      <4>1. /\ QueuedOps' = QueuedOps \cup {op}
            /\ HoldingOps' = HoldingOps /\ OverOps' = OverOps
            /\ op \in Ops \ (QueuedOps \cup HoldingOps \cup OverOps)
        BY <3>1 DEF IInv, TypeOK, QueuedOps, HoldingOps, OverOps, Over, Rejections
      <4>2. Admission!Full(ClassOf[op]) /\ Admission!RoomToWait(ClassOf[op])
        BY <3>1, <2>2, AbstractGuards
      <4>3. QED
        BY <4>1, <4>2 DEF Admission!Wait, Admission!New
    <3>3. QED
      BY <3>2 DEF Admission!Next
  <2>6. QED
    BY <2>1, <2>3, <2>4, <2>5 DEF RunCall
<1>2. ASSUME NEW op \in QueuedOps, NEW new \in Rejections,
             phase' = [phase EXCEPT ![op] = new]
      PROVE  Admission!GiveUp(op) /\ op \in Ops
  <2>1. /\ op \in Ops
        /\ QueuedOps' = QueuedOps \ {op}
        /\ HoldingOps' = HoldingOps /\ OverOps' = OverOps \cup {op}
    BY <1>2 DEF IInv, TypeOK, QueuedOps, HoldingOps, OverOps, Over, Rejections
  <2>2. QED
    BY <2>1, <1>2 DEF Admission!GiveUp
<1>3. CASE \E op \in Ops : Abort(op) \/ DeadlineTimer(op)
  <2>1. PICK op \in Ops : Abort(op) \/ DeadlineTimer(op)
    BY <1>3
  <2>2. CASE phase' = phase
    BY <2>2 DEF QueuedOps, HoldingOps, OverOps
  <2>3. CASE phase' # phase
    <3>1. /\ op \in QueuedOps
          /\ \E new \in Rejections : phase' = [phase EXCEPT ![op] = new]
      BY <2>1, <2>3
      DEF Abort, DeadlineTimer, RemoveQueued, IInv, ArmedWhileWaiting, Rejections
    <3>2. QED
      BY <3>1, <1>2 DEF Admission!Next
  <2>4. QED
    BY <2>2, <2>3
<1>4. CASE \E op \in Ops : Settle(op)
  <2>1. PICK op \in Ops : Settle(op)
    BY <1>4
  <2>2. phase[op] = "running" /\ phase' = [phase EXCEPT ![op] = "settled"]
    BY <2>1 DEF Settle
  <2>3. UNCHANGED <<QueuedOps, HoldingOps, OverOps>>
    BY <2>2 DEF IInv, TypeOK, QueuedOps, HoldingOps, OverOps, Over, Rejections
  <2>4. QED
    BY <2>3
<1>5. CASE \E op \in Ops : Release(op)
  <2>1. PICK op \in Ops : Release(op)
    BY <1>5
  <2>2. phase[op] = "settled" /\ phase' = [phase EXCEPT ![op] = "done"]
    BY <2>1 DEF Release
  <2>3. Admission!Leave(op)
    <3>1. /\ op \in HoldingOps
          /\ HoldingOps' = HoldingOps \ {op} /\ OverOps' = OverOps \cup {op}
          /\ QueuedOps' = QueuedOps
      BY <2>2 DEF IInv, TypeOK, QueuedOps, HoldingOps, OverOps, Over, Rejections
    <3>2. QED
      BY <3>1 DEF Admission!Leave
  <2>4. QED
    BY <2>3 DEF Admission!Next
<1>6. CASE DrainDiscard
  <2> DEFINE op == Head(queues[draining])
  <2>1. PICK new \in Rejections : phase' = [phase EXCEPT ![op] = new]
    BY <1>6 DEF DrainDiscard, Rejections
  <2>2. op \in QueuedOps
    BY <1>6, <2>1, ShiftEffect DEF DrainDiscard, Phases, Rejections
  <2>3. QED
    BY <2>1, <2>2, <1>2 DEF Admission!Next
<1>7. CASE DrainStart
  <2> DEFINE op == Head(queues[draining])
  <2>1. DrainContinues /\ Shift /\ phase' = [phase EXCEPT ![Head(queues[draining])] = "running"]
    BY <1>7 DEF DrainStart
  <2>2. op \in QueuedOps /\ ClassOf[op] = draining /\ draining \in Classes
    BY <2>1, ShiftEffect DEF Phases
  <2>3. HasSlot(draining)
    BY <2>1 DEF DrainContinues
  <2> HIDE DEF op
  <2>4. Admission!Serve(op) /\ op \in Ops
    <3>1. /\ op \in Ops
          /\ QueuedOps' = QueuedOps \ {op} /\ HoldingOps' = HoldingOps \cup {op}
          /\ OverOps' = OverOps
      <4>1. phase' = [phase EXCEPT ![op] = "running"]
        BY <2>1 DEF op
      <4>2. QED
        BY <4>1, <2>2 DEF IInv, TypeOK, QueuedOps, HoldingOps, OverOps, Over, Rejections
    <3>2. ~ Admission!Full(ClassOf[op])
      BY <2>2, <2>3, AbstractGuards
    <3>3. QED
      BY <3>1, <3>2, <2>2 DEF Admission!Serve
  <2>5. QED
    BY <2>4 DEF Admission!Next
<1>8. CASE DrainExit \/ Tick \/ UNCHANGED vars
  BY <1>8 DEF DrainExit, Tick, vars, QueuedOps, HoldingOps, OverOps
<1>9. QED
  BY <1>1, <1>3, <1>4, <1>5, <1>6, <1>7, <1>8 DEF Next, Drain

\* The scheduler implements the abstract admission control.
THEOREM SchedulerImplementsAdmission == Spec => ImplementsAdmission
<1>1. Init => Admission!Init
  BY DEF Init, Admission!Init, QueuedOps, HoldingOps, OverOps, Over, Rejections
<1>2. QED
  BY <1>1, StepRefines, InductiveInvariant, PTL
  DEF Spec, ImplementsAdmission, Admission!Spec
=============================================================================
