-------------------------- MODULE McpRequestsProofs --------------------------
(***************************************************************************)
(* Proofs about McpAdmission and McpRequests, for any set of calls and     *)
(* requesters and any limits.                                              *)
(*                                                                         *)
(* The slots are counted right because every step moves one call in or out *)
(* of them or exchanges two.  The bound on being passed rests on           *)
(* PatienceLasts: the patience of a waiting call covers the calls of its   *)
(* own requester still in front of it, and one more as long as its         *)
(* requester was served last, which is when it can be passed.              *)
(***************************************************************************)
EXTENDS McpRequests, QueueLemmas

Queued == {k \in Calls : stage[k] = "queued"}

AheadOf(k) == {w \in Calls : RequesterOf[w] = RequesterOf[k] /\ Precedes(queue, w, k)}

Due(k) == Cardinality(AheadOf(k)) + (IF lastDequeued = RequesterOf[k] THEN 1 ELSE 0)

PatienceLasts ==
  \A k \in Calls : IF stage[k] = "queued" THEN patience[k] >= Due(k) ELSE patience[k] = 0

AInv == AdmissionTypeOK /\ Lists(queue, Queued) /\ SlotsAgree /\ PatienceLasts

-----------------------------------------------------------------------------
LEMMA CallsFinite ==
  /\ IsFiniteSet(Started) /\ Cardinality(Started) \in Nat
  /\ \A k : IsFiniteSet(AheadOf(k)) /\ Cardinality(AheadOf(k)) \in Nat
  /\ \A k : IsFiniteSet(AheadOf(k)') /\ Cardinality(AheadOf(k)') \in Nat
  /\ \A k : IsFiniteSet(Fellows(k)) /\ Cardinality(Fellows(k)) \in Nat
<1>1. \A S : S \subseteq Calls => IsFiniteSet(S) /\ Cardinality(S) \in Nat
  BY AdmissionAssumption, FS_Subset, FS_CardinalityType
<1>2. /\ Started \subseteq Calls
      /\ \A k : AheadOf(k) \subseteq Calls /\ AheadOf(k)' \subseteq Calls /\ Fellows(k) \subseteq Calls
  BY DEF Started, AheadOf, Fellows
<1>3. QED
  BY <1>1, <1>2

LEMMA InitStep == AdmissionInit => AInv
<1> SUFFICES ASSUME AdmissionInit PROVE AInv
  OBVIOUS
<1>1. Queued = {} /\ Started = {}
  BY DEF AdmissionInit, Queued, Started
<1>2. Lists(queue, Queued)
  BY <1>1 DEF AdmissionInit, Lists
<1>3. AdmissionTypeOK
  BY DEF AdmissionInit, AdmissionTypeOK, Stages
<1>4. SlotsAgree
  BY <1>1, FS_EmptySet, AdmissionAssumption DEF AdmissionInit, SlotsAgree
<1>5. PatienceLasts
  BY DEF AdmissionInit, PatienceLasts
<1>6. QED
  BY <1>2, <1>3, <1>4, <1>5 DEF AInv

\* What holds for calls that do not wait holds wherever nothing but them moves.
LEMMA LineUntouched ==
  ASSUME AInv, Queued' = Queued, UNCHANGED <<queue, lastDequeued, patience>>,
         AdmissionTypeOK'
  PROVE  Lists(queue, Queued)' /\ PatienceLasts'
<1>1. \A k : AheadOf(k)' = AheadOf(k)
  BY DEF AheadOf, Precedes
<1>2. \A k : Due(k)' = Due(k)
  BY <1>1 DEF Due
<1>3. \A k \in Calls : stage[k] = "queued" <=> stage'[k] = "queued"
  BY DEF Queued
<1>4. QED
  BY <1>2, <1>3 DEF AInv, PatienceLasts

LEMMA StartAtOnceStep ==
  ASSUME AInv, NEW k \in Calls, StartAtOnce(k)
  PROVE  AInv'
<1>1. AdmissionTypeOK' /\ Queued' = Queued
  BY DEF AInv, AdmissionTypeOK, Stages, StartAtOnce, Queued
<1>2. Started' = Started \cup {k} /\ k \notin Started
  BY DEF AInv, AdmissionTypeOK, StartAtOnce, Started
<1>3. Cardinality(Started') = Cardinality(Started) + 1
  BY <1>2, CallsFinite, FS_AddElement
<1>4. SlotsAgree'
  BY <1>3, AdmissionAssumption DEF AInv, AdmissionTypeOK, SlotsAgree, StartAtOnce
<1>5. QED
  BY <1>1, <1>4, LineUntouched DEF AInv, StartAtOnce

LEMMA RefuseStep ==
  ASSUME AInv, NEW k \in Calls, Refuse(k)
  PROVE  AInv'
<1>1. AdmissionTypeOK' /\ Queued' = Queued /\ Started' = Started
  BY DEF AInv, AdmissionTypeOK, Stages, Refuse, Queued, Started
<1>2. QED
  BY <1>1, LineUntouched DEF AInv, SlotsAgree, Refuse

LEMMA ReturnSlotStep ==
  ASSUME AInv, NEW k \in Calls, ReturnSlot(k)
  PROVE  AInv'
<1>1. Started' = Started \ {k} /\ k \in Started /\ Queued' = Queued
  BY DEF AInv, AdmissionTypeOK, ReturnSlot, Started, Queued
<1>2. Cardinality(Started') = Cardinality(Started) - 1
  BY <1>1, CallsFinite, FS_RemoveElement
<1>3. active \in Nat \ {0}
  <2>1. Cardinality(Started) # 0
    BY <1>1, CallsFinite, FS_EmptySet
  <2>2. QED
    BY <2>1, CallsFinite DEF AInv, SlotsAgree
<1>4. AdmissionTypeOK'
  BY <1>3 DEF AInv, AdmissionTypeOK, Stages, ReturnSlot
<1>5. SlotsAgree'
  BY <1>2, <1>3, AdmissionAssumption DEF AInv, SlotsAgree, ReturnSlot
<1>6. QED
  BY <1>1, <1>4, <1>5, LineUntouched DEF AInv, ReturnSlot

LEMMA EnqueueStep ==
  ASSUME AInv, NEW k \in Calls, Enqueue(k)
  PROVE  AInv'
<1>1. /\ stage[k] = "new" /\ stage' = [stage EXCEPT ![k] = "queued"]
      /\ queue' = Append(queue, k)
      /\ patience' = [patience EXCEPT ![k] = 1 + Cardinality(Fellows(k))]
      /\ UNCHANGED <<active, lastDequeued>>
      /\ active >= MaxConcurrent
  BY DEF Enqueue
<1>2. Queued' = Queued \cup {k} /\ k \notin Queued /\ Started' = Started
  BY <1>1 DEF AInv, AdmissionTypeOK, Queued, Started
<1>3. Lists(queue', Queued')
  BY <1>1, <1>2, ListsAppend DEF AInv
<1>4. AdmissionTypeOK'
  <2>1. queue' \in Seq(Calls)
    BY <1>1, AppendProperties DEF AInv, AdmissionTypeOK
  <2>2. QED
    BY <1>1, <2>1, CallsFinite DEF AInv, AdmissionTypeOK, Stages
<1>5. SlotsAgree'
  BY <1>1, <1>2, AdmissionAssumption DEF AInv, AdmissionTypeOK, SlotsAgree
<1>6. PatienceLasts'
  <2> SUFFICES ASSUME NEW w \in Calls
               PROVE  IF stage'[w] = "queued" THEN patience'[w] >= Due(w)' ELSE patience'[w] = 0
    BY DEF PatienceLasts
  <2>1. CASE w = k
    <3>1. AheadOf(w)' \subseteq Fellows(w)
      <4> SUFFICES ASSUME NEW x \in AheadOf(w)' PROVE x \in Fellows(w)
        OBVIOUS
      <4>1. x \in Calls /\ RequesterOf[x] = RequesterOf[w]
        BY DEF AheadOf
      <4>2. PICK i, j \in 1..Len(queue') : i < j /\ queue'[i] = x /\ queue'[j] = w
        BY DEF AheadOf, Precedes
      <4>3. x \in Queued' /\ x # k
        BY <1>3, <2>1, <4>2 DEF Lists
      <4>4. QED
        BY <1>2, <4>1, <4>3 DEF Queued, Fellows
    <3>2. Cardinality(AheadOf(w)') <= Cardinality(Fellows(w))
      BY <3>1, CallsFinite, FS_Subset
    <3>3. patience'[w] = 1 + Cardinality(Fellows(w)) /\ stage'[w] = "queued"
      BY <1>1, <2>1 DEF AInv, AdmissionTypeOK
    <3>4. QED
      BY <3>2, <3>3, CallsFinite DEF Due
  <2>2. CASE w # k
    <3>1. stage'[w] = stage[w] /\ patience'[w] = patience[w]
      BY <1>1, <2>2 DEF AInv, AdmissionTypeOK
    <3>2. AheadOf(w)' \subseteq AheadOf(w)
      BY <1>1, <2>2, OrderBeforeAppend DEF AheadOf, AInv
    <3>3. Cardinality(AheadOf(w)') <= Cardinality(AheadOf(w))
      BY <3>2, CallsFinite, FS_Subset
    <3>4. Due(w)' <= Due(w) /\ Due(w) \in Int /\ Due(w)' \in Int /\ patience[w] \in Int
      BY <1>1, <3>3, CallsFinite DEF Due, AInv, AdmissionTypeOK
    <3>5. QED
      BY <3>1, <3>4 DEF AInv, PatienceLasts
  <2>3. QED
    BY <2>1, <2>2
<1>7. QED
  BY <1>3, <1>4, <1>5, <1>6 DEF AInv

\* The splice leaves nobody with more fellows in front of him.
LEMMA SpliceShortensTheLine ==
  ASSUME AInv, NEW i \in 1..Len(queue), queue' = RemoveAt(queue, i), NEW w \in Calls
  PROVE  /\ AheadOf(w)' \subseteq AheadOf(w) \ {queue[i]}
         /\ Cardinality(AheadOf(w)') <= Cardinality(AheadOf(w))
<1>1. AheadOf(w)' \subseteq AheadOf(w) \ {queue[i]}
  <2> SUFFICES ASSUME NEW x \in AheadOf(w)' PROVE x \in AheadOf(w) /\ x # queue[i]
    OBVIOUS
  <2>1. x \in Calls /\ RequesterOf[x] = RequesterOf[w] /\ Precedes(RemoveAt(queue, i), x, w)
    BY DEF AheadOf
  <2>2. Precedes(queue, x, w) /\ x # queue[i]
    BY <2>1, OrderBeforeRemoveAt DEF AInv
  <2>3. QED
    BY <2>1, <2>2 DEF AheadOf
<1>2. AheadOf(w)' \subseteq AheadOf(w)
  BY <1>1
<1>3. QED
  BY <1>1, <1>2, CallsFinite, FS_Subset

LEMMA QueueTimeoutStep ==
  ASSUME AInv, NEW k \in Calls, QueueTimeout(k)
  PROVE  AInv'
<1>1. /\ stage[k] = "queued" /\ stage' = [stage EXCEPT ![k] = "ended"]
      /\ patience' = [patience EXCEPT ![k] = 0]
      /\ UNCHANGED <<active, lastDequeued>>
  BY DEF QueueTimeout
<1>2. PICK i \in 1..Len(queue) : queue[i] = k /\ queue' = RemoveAt(queue, i)
  BY DEF QueueTimeout, AInv, Lists
<1>3. Queued' = Queued \ {k} /\ Started' = Started
  BY <1>1 DEF AInv, AdmissionTypeOK, Queued, Started
<1>4. Lists(queue', Queued')
  BY <1>2, <1>3, ListsRemoveAt DEF AInv
<1>5. AdmissionTypeOK'
  <2>1. queue' \in Seq(Calls)
    BY <1>2, RemoveAtElements DEF AInv, AdmissionTypeOK
  <2>2. QED
    BY <1>1, <2>1 DEF AInv, AdmissionTypeOK, Stages
<1>6. SlotsAgree'
  BY <1>1, <1>2, <1>3, EmptySeq DEF AInv, SlotsAgree
<1>7. PatienceLasts'
  <2> SUFFICES ASSUME NEW w \in Calls
               PROVE  IF stage'[w] = "queued" THEN patience'[w] >= Due(w)' ELSE patience'[w] = 0
    BY DEF PatienceLasts
  <2>1. CASE w = k
    BY <1>1, <2>1 DEF AInv, AdmissionTypeOK
  <2>2. CASE w # k
    <3>1. stage'[w] = stage[w] /\ patience'[w] = patience[w]
      BY <1>1, <2>2 DEF AInv, AdmissionTypeOK
    <3>2. Cardinality(AheadOf(w)') <= Cardinality(AheadOf(w))
      BY <1>2, SpliceShortensTheLine
    <3>3. Due(w)' <= Due(w) /\ Due(w) \in Int /\ Due(w)' \in Int /\ patience[w] \in Int
      BY <1>1, <3>2, CallsFinite DEF Due, AInv, AdmissionTypeOK
    <3>4. QED
      BY <3>1, <3>3 DEF AInv, PatienceLasts
  <2>3. QED
    BY <2>1, <2>2
<1>8. QED
  BY <1>4, <1>5, <1>6, <1>7 DEF AInv

\* Whoever is passed is of the requester served last, and the next one is of another.
LEMMA WhoIsPassed ==
  ASSUME NEW i, IsNext(i), NEW j \in 1..Len(queue), j < i, queue \in Seq(Calls)
  PROVE  /\ RequesterOf[queue[j]] = lastDequeued
         /\ RequesterOf[queue[i]] # lastDequeued
<1>1. DOMAIN queue = 1..Len(queue) /\ Len(queue) \in Nat
  BY LenProperties
<1>2. i # 1
  BY <1>1 DEF IsNext
<1>3. QED
  BY <1>1, <1>2 DEF IsNext, Alternates

LEMMA HandOverStep ==
  ASSUME AInv, NEW k \in Calls, NEW next \in Calls, HandOver(k, next)
  PROVE  AInv'
<1>0. queue \in Seq(Calls) /\ DOMAIN queue = 1..Len(queue) /\ Len(queue) \in Nat
  BY LenProperties DEF AInv, AdmissionTypeOK
<1>1. /\ stage[k] = "started"
      /\ stage' = [stage EXCEPT ![k] = "ended", ![next] = "started"]
      /\ lastDequeued' = RequesterOf[next] /\ active' = active
  BY DEF HandOver
<1>2. PICK i \in 1..Len(queue) :
        /\ IsNext(i) /\ queue[i] = next
        /\ queue' = RemoveAt(queue, i)
        /\ patience' = [w \in Calls |->
                           IF w = next THEN 0
                           ELSE IF \E j \in 1..(i - 1) : queue[j] = w THEN patience[w] - 1
                           ELSE patience[w]]
  BY <1>0 DEF HandOver
<1>3. next \in Queued /\ stage[next] = "queued" /\ next # k
  BY <1>1, <1>2, LenProperties DEF AInv, Lists, Queued
<1>4. /\ Queued' = Queued \ {next}
      /\ Started' = (Started \ {k}) \cup {next}
      /\ k \in Started /\ next \notin Started \ {k}
  BY <1>1, <1>3 DEF AInv, AdmissionTypeOK, Queued, Started
<1>5. Lists(queue', Queued')
  BY <1>2, <1>4, ListsRemoveAt DEF AInv
<1>6. AdmissionTypeOK'
  <2>1. queue' \in Seq(Calls)
    BY <1>0, <1>2, RemoveAtElements
  <2>2. patience' \in [Calls -> Int]
    BY <1>2 DEF AInv, AdmissionTypeOK
  <2>3. QED
    BY <1>1, <2>1, <2>2 DEF AInv, AdmissionTypeOK, Stages
<1>7. SlotsAgree'
  <2>1. /\ Cardinality(Started \ {k}) = Cardinality(Started) - 1
        /\ IsFiniteSet(Started \ {k})
    BY <1>4, CallsFinite, FS_RemoveElement
  <2>2. Cardinality(Started') = Cardinality(Started \ {k}) + 1
    BY <1>4, <2>1, FS_AddElement
  <2>3. Cardinality(Started') = Cardinality(Started)
    BY <2>1, <2>2, CallsFinite
  <2>4. queue # <<>>
    BY <1>0, <1>2, EmptySeq
  <2>5. QED
    BY <1>1, <2>3, <2>4 DEF AInv, SlotsAgree
<1>8. PatienceLasts'
  <2> SUFFICES ASSUME NEW w \in Calls
               PROVE  IF stage'[w] = "queued" THEN patience'[w] >= Due(w)' ELSE patience'[w] = 0
    BY DEF PatienceLasts
  <2>1. CASE w = next
    BY <1>1, <1>2, <2>1 DEF AInv, AdmissionTypeOK
  <2>2. CASE w # next /\ stage[w] # "queued"
    <3>1. \A j \in 1..Len(queue) : queue[j] # w
      BY <2>2, LenProperties DEF AInv, Lists, Queued
    <3>2. patience'[w] = patience[w]
      BY <1>0, <1>2, <2>2, <3>1
    <3>3. stage'[w] # "queued"
      BY <1>1, <2>2 DEF AInv, AdmissionTypeOK
    <3>4. QED
      BY <2>2, <3>2, <3>3 DEF AInv, PatienceLasts
  <2>3. CASE w # next /\ stage[w] = "queued"
    <3>1. PICK at \in 1..Len(queue) : queue[at] = w
      BY <2>3 DEF AInv, Lists, Queued
    <3>2. at # i /\ w # k
      BY <1>1, <1>2, <2>3, <3>1
    <3>3. stage'[w] = "queued" /\ patience[w] >= Due(w) /\ patience[w] \in Int
      BY <1>1, <2>3, <3>2 DEF AInv, AdmissionTypeOK, PatienceLasts
    <3>4. /\ AheadOf(w)' \subseteq AheadOf(w) \ {next}
          /\ Cardinality(AheadOf(w)') <= Cardinality(AheadOf(w))
      BY <1>2, SpliceShortensTheLine
    <3>5. CASE at < i
      <4>1. RequesterOf[w] = lastDequeued /\ RequesterOf[next] # lastDequeued
        BY <1>0, <1>2, <3>1, <3>5, WhoIsPassed
      <4>2. patience'[w] = patience[w] - 1
        <5>1. at \in 1..(i - 1)
          BY <1>0, <3>5
        <5>2. QED
          BY <1>2, <2>3, <3>1, <5>1
      <4>3. Due(w) = Cardinality(AheadOf(w)) + 1 /\ Due(w)' = Cardinality(AheadOf(w)')
        BY <1>1, <4>1, CallsFinite DEF Due
      <4>4. QED
        BY <3>3, <3>4, <4>2, <4>3, CallsFinite
    <3>6. CASE at > i
      <4>1. patience'[w] = patience[w]
        <5>1. \A j \in 1..(i - 1) : j \in 1..Len(queue) /\ j # at
          BY <1>0, <3>6
        <5>2. \A j \in 1..(i - 1) : queue[j] # w
          BY <3>1, <5>1 DEF AInv, Lists
        <5>3. QED
          BY <1>2, <2>3, <5>2
      <4>2. CASE RequesterOf[next] = RequesterOf[w]
        <5>1. next \in AheadOf(w)
          BY <1>2, <3>1, <3>6, <4>2 DEF AheadOf, Precedes
        <5>2. /\ Cardinality(AheadOf(w) \ {next}) = Cardinality(AheadOf(w)) - 1
              /\ IsFiniteSet(AheadOf(w) \ {next})
          BY <5>1, CallsFinite, FS_RemoveElement
        <5>3. Cardinality(AheadOf(w)') <= Cardinality(AheadOf(w)) - 1
          BY <3>4, <5>2, FS_Subset
        <5>4. Due(w)' = Cardinality(AheadOf(w)') + 1 /\ Due(w) >= Cardinality(AheadOf(w))
          BY <1>1, <4>2, CallsFinite DEF Due
        <5>5. Due(w) \in Int
          BY CallsFinite DEF Due
        <5>6. QED
          BY <3>3, <4>1, <5>3, <5>4, <5>5, CallsFinite
      <4>3. CASE RequesterOf[next] # RequesterOf[w]
        <5>1. Due(w)' = Cardinality(AheadOf(w)') /\ Due(w) >= Cardinality(AheadOf(w))
          BY <1>1, <4>3, CallsFinite DEF Due
        <5>2. Due(w) \in Int
          BY CallsFinite DEF Due
        <5>3. QED
          BY <3>3, <3>4, <4>1, <5>1, <5>2, CallsFinite
      <4>4. QED
        BY <4>2, <4>3
    <3>7. QED
      BY <1>0, <3>2, <3>5, <3>6
  <2>4. QED
    BY <2>1, <2>2, <2>3
<1>9. QED
  BY <1>5, <1>6, <1>7, <1>8 DEF AInv

LEMMA AdmissionStep == AInv /\ [AdmissionNext]_admission => AInv'
<1> SUFFICES ASSUME AInv, [AdmissionNext]_admission PROVE AInv'
  OBVIOUS
<1>1. CASE AdmissionNext
  BY <1>1, StartAtOnceStep, RefuseStep, EnqueueStep, QueueTimeoutStep, ReturnSlotStep,
     HandOverStep DEF AdmissionNext
<1>2. CASE UNCHANGED admission
  <2>1. Queued' = Queued /\ AdmissionTypeOK' /\ SlotsAgree'
    BY <1>2 DEF admission, Queued, AInv, AdmissionTypeOK, SlotsAgree, Started
  <2>2. QED
    BY <1>2, <2>1, LineUntouched DEF AInv, admission
<1>3. QED
  BY <1>1, <1>2

LEMMA AdmissionInvariant == AdmissionSpec => []AInv
<1>1. AdmissionInit => AInv
  BY InitStep
<1>2. AInv /\ [AdmissionNext]_admission => AInv'
  BY AdmissionStep
<1>3. QED
  BY <1>1, <1>2, PTL DEF AdmissionSpec

\* The handler counts its slots right, and no call waits while one is free.
THEOREM SlotsCounted == AdmissionSpec => []SlotsAgree
<1>1. AInv => SlotsAgree
  BY DEF AInv
<1>2. QED
  BY <1>1, AdmissionInvariant, PTL

\* A waiting call is passed no more often than it may be: the alternation of
\* nextQueueIndex starves no requester, whoever sends how many calls.
THEOREM NobodyStarves == AdmissionSpec => []NobodyIsPassedForLong
<1>1. AInv => NobodyIsPassedForLong
  <2> SUFFICES ASSUME AInv, NEW k \in Calls PROVE patience[k] >= 0
    BY DEF NobodyIsPassedForLong
  <2>1. Due(k) \in Nat
    BY CallsFinite DEF Due
  <2>2. QED
    BY <2>1 DEF AInv, PatienceLasts, AdmissionTypeOK
<1>2. QED
  BY <1>1, AdmissionInvariant, PTL

-----------------------------------------------------------------------------
(***************************************************************************)
(* The calls with their client.                                            *)
(***************************************************************************)

Settled(cl) == cl \in Client /\ (\A k \in Calls : cl.waits[k] = "answer" => cl.validated)

Agree(cl, st) == \A k \in Calls : cl.waits[k] # "nothing" <=> st[k] = "started"

CInv == Settled(client) /\ Agree(client, stage)

LEMMA BeginKeeps ==
  ASSUME NEW cl, Settled(cl), NEW k \in Calls
  PROVE  /\ Settled(Begin(cl, k))
         /\ Begin(cl, k).waits[k] # "nothing"
         /\ \A j \in Calls \ {k} : Begin(cl, k).waits[j] = cl.waits[j]
<1>1. CASE cl.validated
  BY <1>1 DEF Settled, Begin, Client, Waits
<1>2. CASE ~ cl.validated
  BY <1>2 DEF Settled, Begin, Client, Waits, Sockets
<1>3. QED
  BY <1>1, <1>2

LEMMA CleanupKeeps ==
  ASSUME NEW cl, Settled(cl)
  PROVE  Settled(Cleanup(cl)) /\ Cleanup(cl).waits = cl.waits
BY DEF Settled, Cleanup, Client, Sockets

LEMMA FinishKeeps ==
  ASSUME AInv, NEW cl, Settled(cl), Agree(cl, stage), NEW k \in Calls, Finish(k, cl)
  PROVE  AdmissionNext /\ CInv'
<1> DEFINE settled == [cl EXCEPT !.waits[k] = "nothing"]
<1>1. Settled(settled) /\ settled.waits[k] = "nothing"
      /\ \A j \in Calls \ {k} : settled.waits[j] = cl.waits[j]
  BY DEF Settled, Client, Waits
<1>2. CASE ReturnSlot(k) /\ client' = settled
  <2>1. stage' = [stage EXCEPT ![k] = "ended"]
    BY <1>2 DEF ReturnSlot
  <2>2. Agree(client', stage')
    BY <1>1, <1>2, <2>1 DEF AInv, AdmissionTypeOK, Agree
  <2>3. QED
    BY <1>1, <1>2, <2>2 DEF AdmissionNext, CInv
<1>3. ASSUME NEW next \in Calls, HandOver(k, next), client' = Begin(settled, next)
      PROVE  AdmissionNext /\ CInv'
  <2>1. stage' = [stage EXCEPT ![k] = "ended", ![next] = "started"] /\ next # k
    <3>1. next \in Queued
      BY <1>3, LenProperties DEF HandOver, AInv, Lists
    <3>2. QED
      BY <1>3, <3>1 DEF HandOver, Queued
  <2>2. /\ Settled(client') /\ client'.waits[next] # "nothing"
        /\ \A j \in Calls \ {next} : client'.waits[j] = settled.waits[j]
    <3> HIDE DEF settled
    <3> QED BY <1>1, <1>3, BeginKeeps
  <2> HIDE DEF settled
  <2>3. Agree(client', stage')
    BY <1>1, <2>1, <2>2 DEF AInv, AdmissionTypeOK, Agree
  <2>4. QED
    BY <1>3, <2>2, <2>3 DEF AdmissionNext, CInv
<1>4. QED
  BY <1>2, <1>3 DEF Finish

LEMMA RejectKeeps ==
  ASSUME AInv, NEW cl, Settled(cl), Agree(cl, stage), NEW k \in Calls, Reject(k, cl)
  PROVE  [AdmissionNext]_admission /\ CInv'
<1>1. CASE cl.waits[k] = "validation"
  BY <1>1, FinishKeeps DEF Reject
<1>2. CASE cl.waits[k] # "validation"
  BY <1>2 DEF Reject, CInv, Agree, admission
<1>3. QED
  BY <1>1, <1>2

LEMMA FailKeeps ==
  ASSUME AInv, NEW cl, Settled(cl), Agree(cl, stage), NEW k \in Calls, Fail(k, cl)
  PROVE  [AdmissionNext]_admission /\ CInv'
<1>1. Settled(Cleanup(cl)) /\ Agree(Cleanup(cl), stage)
  BY CleanupKeeps DEF Agree
<1>2. QED
  BY <1>1, RejectKeeps DEF Fail

LEMMA ResolveKeeps ==
  ASSUME NEW cl, Settled(cl), Agree(cl, stage), cl.validated, NEW k \in Calls, Resolve(k, cl)
  PROVE  [AdmissionNext]_admission /\ CInv'
<1>1. Settled(client') /\ \A j \in Calls : client'.waits[j] # "nothing" <=> cl.waits[j] # "nothing"
  BY DEF Resolve, Settled, Client, Waits
<1>2. QED
  BY <1>1 DEF Resolve, CInv, Agree, admission

LEMMA CallArrivesStep ==
  ASSUME AInv, CInv, NEW k \in Calls, CallArrives(k)
  PROVE  [AdmissionNext]_admission /\ CInv'
<1>1. CASE StartAtOnce(k) /\ client' = Begin(client, k)
  <2>1. stage' = [stage EXCEPT ![k] = "started"]
    BY <1>1 DEF StartAtOnce
  <2>2. /\ Settled(client') /\ client'.waits[k] # "nothing"
        /\ \A j \in Calls \ {k} : client'.waits[j] = client.waits[j]
    BY <1>1, BeginKeeps DEF CInv
  <2>3. Agree(client', stage')
    BY <2>1, <2>2 DEF CInv, Agree, AInv, AdmissionTypeOK
  <2>4. QED
    BY <1>1, <2>2, <2>3 DEF CInv, AdmissionNext
<1>2. CASE Refuse(k) /\ UNCHANGED client
  BY <1>2 DEF Refuse, CInv, Agree, AInv, AdmissionTypeOK, AdmissionNext
<1>3. CASE Enqueue(k) /\ UNCHANGED client
  BY <1>3 DEF Enqueue, CInv, Agree, AInv, AdmissionTypeOK, AdmissionNext
<1>4. QED
  BY <1>1, <1>2, <1>3 DEF CallArrives

LEMMA StatusArrivesStep ==
  ASSUME AInv, CInv, NEW k \in Calls, StatusArrives(k)
  PROVE  [AdmissionNext]_admission /\ CInv'
<1> DEFINE heard == [client EXCEPT !.sockets[k] = "answered"]
           cleared == [heard EXCEPT !.timers = @ \ {k}]
           confirmed == [cleared EXCEPT !.validated = TRUE]
<1>1. /\ Settled(heard) /\ Agree(heard, stage)
      /\ Settled(cleared) /\ Agree(cleared, stage)
  BY DEF CInv, Settled, Agree, Client, Sockets
<1>2. /\ Settled(confirmed) /\ Agree(confirmed, stage) /\ confirmed.validated
      /\ Cleanup(confirmed).validated
  BY DEF CInv, Settled, Agree, Client, Sockets, Cleanup
<1>3. client.pending \in Calls \cup {None}
  BY DEF CInv, Settled, Client
<1>4. CASE client.pending = None
  BY <1>1, <1>4 DEF StatusArrives, CInv, Agree, admission
<1>5. CASE client.pending # None /\ Resolve(client.pending, Cleanup(confirmed))
  <2> HIDE DEF confirmed
  <2> QED BY <1>2, <1>3, <1>5, CleanupKeeps, ResolveKeeps DEF Agree
<1>6. CASE client.pending # None /\ Reject(client.pending, Cleanup(cleared))
  <2> HIDE DEF cleared
  <2> QED BY <1>1, <1>3, <1>6, CleanupKeeps, RejectKeeps DEF Agree
<1>7. QED
  BY <1>4, <1>5, <1>6 DEF StatusArrives

LEMMA SocketStep ==
  ASSUME AInv, CInv, NEW k \in Calls,
         \/ Connects(k) \/ AnswerIsUnreadable(k) \/ ValidationTimeout(k)
         \/ SocketError(k) \/ DaemonHangsUp(k) \/ SocketCloses(k)
  PROVE  [AdmissionNext]_admission /\ CInv'
<1>1. CASE Connects(k)
  BY <1>1 DEF Connects, CInv, Settled, Agree, Client, Sockets, admission
<1>2. CASE DaemonHangsUp(k)
  BY <1>2 DEF DaemonHangsUp, CInv, Settled, Agree, Client, Sockets, admission
<1>3. CASE ValidationTimeout(k)
  <2> DEFINE fired == [client EXCEPT !.timers = @ \ {k}]
  <2>1. Settled(fired) /\ Agree(fired, stage)
    BY DEF CInv, Settled, Agree, Client
  <2> HIDE DEF fired
  <2>2. Fail(k, fired)
    BY <1>3 DEF ValidationTimeout, fired
  <2>3. QED
    BY <2>1, <2>2, FailKeeps
<1>4. CASE SocketError(k)
  <2> DEFINE broken == [client EXCEPT !.sockets[k] = "closing"]
  <2>1. Settled(broken) /\ Agree(broken, stage)
    BY DEF CInv, Settled, Agree, Client, Sockets
  <2> HIDE DEF broken
  <2>2. Fail(k, broken)
    BY <1>4 DEF SocketError, broken
  <2>3. QED
    BY <2>1, <2>2, FailKeeps
<1>5. CASE SocketCloses(k)
  <2> DEFINE closed == [client EXCEPT !.sockets[k] = "closed"]
  <2>1. Settled(closed) /\ Agree(closed, stage)
    BY DEF CInv, Settled, Agree, Client, Sockets
  <2>2. CASE client.pending # None
    <3> HIDE DEF closed
    <3>1. Fail(k, closed)
      BY <1>5, <2>2 DEF SocketCloses, closed
    <3>2. QED
      BY <2>1, <3>1, FailKeeps
  <2>3. CASE client.pending = None
    BY <1>5, <2>1, <2>3 DEF SocketCloses, CInv, Agree, admission
  <2>4. QED
    BY <2>2, <2>3
<1>6. CASE AnswerIsUnreadable(k)
  <2> DEFINE answered == [client EXCEPT !.sockets[k] = "answered"]
  <2>1. Settled(answered) /\ Agree(answered, stage)
    BY DEF CInv, Settled, Agree, Client, Sockets
  <2> HIDE DEF answered
  <2>2. Fail(k, answered)
    BY <1>6 DEF AnswerIsUnreadable, answered
  <2>3. QED
    BY <2>1, <2>2, FailKeeps
<1>7. QED
  BY <1>1, <1>2, <1>3, <1>4, <1>5, <1>6

LEMMA RequestsStep == AInv /\ CInv /\ [Next]_vars => [AdmissionNext]_admission /\ CInv'
<1> SUFFICES ASSUME AInv, CInv, [Next]_vars PROVE [AdmissionNext]_admission /\ CInv'
  OBVIOUS
<1>1. ASSUME NEW k \in Calls, CallTimesOut(k)
      PROVE  [AdmissionNext]_admission /\ CInv'
  BY <1>1 DEF CallTimesOut, QueueTimeout, CInv, Agree, AInv, AdmissionTypeOK, AdmissionNext
<1>2. ASSUME NEW k \in Calls, OperationEnds(k)
      PROVE  [AdmissionNext]_admission /\ CInv'
  BY <1>2, FinishKeeps DEF OperationEnds, CInv
<1>3. CASE UNCHANGED vars
  BY <1>3 DEF vars, admission, CInv, Agree, Settled
<1>4. QED
  BY <1>1, <1>2, <1>3, CallArrivesStep, StatusArrivesStep, SocketStep DEF Next

LEMMA RequestsInvariant == Spec => [](AInv /\ CInv)
<1>1. Init => AInv /\ CInv
  <2> SUFFICES ASSUME Init PROVE AInv /\ CInv
    OBVIOUS
  <2>1. CInv
    BY DEF Init, AdmissionInit, CInv, Settled, Agree, Client, Sockets, Waits
  <2>2. QED
    BY <2>1, InitStep DEF Init
<1>2. AInv /\ CInv /\ [Next]_vars => (AInv /\ CInv)'
  BY RequestsStep, AdmissionStep
<1>3. QED
  BY <1>1, <1>2, PTL DEF Spec

\* The client never does to a call of the handler what the admission queue does not
\* do by itself: whichever socket, timer or answer settles a call, its slot is given
\* back once and to the right one.
THEOREM RequestsImplementAdmission == Spec => AdmissionSpec
<1>1. Init => AdmissionInit
  BY DEF Init
<1>2. AInv /\ CInv /\ [Next]_vars => [AdmissionNext]_admission
  BY RequestsStep
<1>3. QED
  BY <1>1, <1>2, RequestsInvariant, PTL DEF Spec, AdmissionSpec

\* Each call that holds a slot waits for exactly one thing, and no other call does.
THEOREM TypeCorrect == Spec => []TypeOK
<1>1. AInv /\ CInv => TypeOK
  BY DEF AInv, CInv, Settled, Agree, TypeOK
<1>2. QED
  BY <1>1, RequestsInvariant, PTL

\* No operation is sent before the daemon has confirmed the contract.
THEOREM ContractFirst == Spec => []OnlyValidatedCallsAsk
<1>1. AInv /\ CInv => OnlyValidatedCallsAsk
  BY DEF CInv, Settled, OnlyValidatedCallsAsk
<1>2. QED
  BY <1>1, RequestsInvariant, PTL

\* The slots are counted right with the client at work.
THEOREM SlotsCountedForRequests == Spec => []SlotsAgree
BY RequestsImplementAdmission, SlotsCounted, PTL

\* Everything that the runs check of the requests in one state.
THEOREM RequestsCorrect == Spec => []RequestsAreSound
BY TypeCorrect, ContractFirst, SlotsCountedForRequests, PTL DEF RequestsAreSound

\* The alternation starves nobody with the client at work.
THEOREM NobodyStarvesForRequests == Spec => []NobodyIsPassedForLong
BY RequestsImplementAdmission, NobodyStarves, PTL
=============================================================================
