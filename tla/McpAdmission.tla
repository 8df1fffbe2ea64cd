---------------------------- MODULE McpAdmission ----------------------------
(***************************************************************************)
(* The admission queue of the MCP server (src/mcp/handler.ts): a number of *)
(* slots, a bounded queue, and a choice of the next call that alternates   *)
(* between requesters.                                                     *)
(*                                                                         *)
(* Every action is one synchronous stretch of the handler: the loop of     *)
(* startNextFromQueue is one turn long, because no call waits while a slot *)
(* is free (SlotsAgree); it would otherwise go on.                         *)
(***************************************************************************)
EXTENDS Integers, FiniteSets, SequencesExt

CONSTANTS
  Calls,            \* calls of the handler
  RequesterOf,      \* context.requesterId of each
  Nobody,           \* lastDequeuedRequester === undefined
  MaxConcurrent,    \* maxConcurrent
  MaxQueued         \* maxQueued, may be 0

ASSUME AdmissionAssumption ==
  /\ IsFiniteSet(Calls)
  /\ \A k \in Calls : RequesterOf[k] # Nobody
  /\ MaxConcurrent \in Nat \ {0}
  /\ MaxQueued \in Nat

VARIABLES
  stage,            \* where the handler's promise for each call stands
  queue,            \* waiting calls, oldest first
  active,           \* activeRequests
  lastDequeued,     \* lastDequeuedRequester
  patience          \* history: how often each waiting call may still be passed

admission == <<stage, queue, active, lastDequeued, patience>>

Stages == {"new", "queued", "started", "ended"}
Started == {k \in Calls : stage[k] = "started"}

AdmissionInit ==
  /\ stage = [k \in Calls |-> "new"]
  /\ queue = <<>>
  /\ active = 0
  /\ lastDequeued = Nobody
  /\ patience = [k \in Calls |-> 0]

-----------------------------------------------------------------------------
\* acquireSlot.
StartAtOnce(k) ==
  /\ stage[k] = "new"
  /\ active < MaxConcurrent
  /\ stage' = [stage EXCEPT ![k] = "started"]
  /\ active' = active + 1
  /\ UNCHANGED <<queue, lastDequeued, patience>>

Refuse(k) ==
  /\ stage[k] = "new"
  /\ active >= MaxConcurrent
  /\ Len(queue) >= MaxQueued
  /\ stage' = [stage EXCEPT ![k] = "ended"]
  /\ UNCHANGED <<queue, active, lastDequeued, patience>>

\* The waiting calls of k's requester.
Fellows(k) == {w \in Calls : stage[w] = "queued" /\ RequesterOf[w] = RequesterOf[k]}

Enqueue(k) ==
  /\ stage[k] = "new"
  /\ active >= MaxConcurrent
  /\ Len(queue) < MaxQueued
  /\ stage' = [stage EXCEPT ![k] = "queued"]
  /\ queue' = Append(queue, k)
  /\ patience' = [patience EXCEPT ![k] = 1 + Cardinality(Fellows(k))]
  /\ UNCHANGED <<active, lastDequeued>>

\* The timer of a waiting call; after the call has left the queue it does nothing.
QueueTimeout(k) ==
  /\ stage[k] = "queued"
  /\ stage' = [stage EXCEPT ![k] = "ended"]
  /\ \E i \in DOMAIN queue : queue[i] = k /\ queue' = RemoveAt(queue, i)
  /\ patience' = [patience EXCEPT ![k] = 0]
  /\ UNCHANGED <<active, lastDequeued>>

-----------------------------------------------------------------------------
Alternates(i) == RequesterOf[queue[i]] # lastDequeued

\* Mutant: the newest call of another requester.
NewestOfAnother(i) ==
  /\ i \in DOMAIN queue
  /\ IF \E j \in DOMAIN queue : Alternates(j)
       THEN Alternates(i) /\ \A j \in DOMAIN queue : j > i => ~ Alternates(j)
       ELSE i = 1

\* nextQueueIndex: the oldest call of another requester than the last one, or the
\* oldest call.
IsNext(i) ==
  /\ i \in DOMAIN queue
  /\ IF \E j \in DOMAIN queue : Alternates(j)
       THEN Alternates(i) /\ \A j \in DOMAIN queue : j < i => ~ Alternates(j)
       ELSE i = 1

\* releaseSlot with nobody in the queue.
ReturnSlot(k) ==
  /\ stage[k] = "started"
  /\ queue = <<>>
  /\ stage' = [stage EXCEPT ![k] = "ended"]
  /\ active' = active - 1
  /\ UNCHANGED <<queue, lastDequeued, patience>>

\* releaseSlot and a turn of startNextFromQueue: the slot goes to `next`.
HandOver(k, next) ==
  /\ stage[k] = "started"
  /\ \E i \in DOMAIN queue :
       /\ IsNext(i) /\ queue[i] = next
       /\ queue' = RemoveAt(queue, i)
       /\ patience' = [w \in Calls |->
                          IF w = next THEN 0
                          ELSE IF \E j \in 1..(i - 1) : queue[j] = w THEN patience[w] - 1
                          ELSE patience[w]]
  /\ stage' = [stage EXCEPT ![k] = "ended", ![next] = "started"]
  /\ lastDequeued' = RequesterOf[next]
  /\ UNCHANGED active

AdmissionNext ==
  \E k \in Calls :
    \/ StartAtOnce(k) \/ Refuse(k) \/ Enqueue(k) \/ QueueTimeout(k) \/ ReturnSlot(k)
    \/ \E next \in Calls : HandOver(k, next)

AdmissionSpec == AdmissionInit /\ [][AdmissionNext]_admission

-----------------------------------------------------------------------------
(***************************************************************************)
(* Properties.                                                             *)
(***************************************************************************)
AdmissionTypeOK ==
  /\ stage \in [Calls -> Stages]
  /\ queue \in Seq(Calls)
  /\ active \in Nat
  /\ patience \in [Calls -> Int]

\* The counter of slots is the number of calls that run, whatever they ended by, and
\* it stays within its limit; no call waits while a slot is free.
SlotsAgree ==
  /\ active = Cardinality(Started)
  /\ active <= MaxConcurrent
  /\ queue # <<>> => active = MaxConcurrent

\* The alternation starves nobody: a waiting call is passed by younger calls at most
\* once more often than it found calls of its own requester in front of it,
\* however many calls the others send.
NobodyIsPassedForLong == \A k \in Calls : patience[k] >= 0
=============================================================================
