------------------------- MODULE BoundedAdmission -------------------------
(***************************************************************************)
(* What OperationScheduler promises, without queues, counters, clock,      *)
(* timers or drain loops: three disjoint sets of calls.  A call is turned  *)
(* away, enters at once, or waits; it may enter at once only when its class*)
(* has a free slot and nobody of its class waits; it may wait only when its*)
(* class is full and there is room to wait; a waiting call takes a free    *)
(* slot of its class or gives up.                                          *)
(***************************************************************************)
EXTENDS Naturals, FiniteSets

CONSTANTS Ops, Classes, ClassOf, Concurrency, MaxQueue, MaxQueueOf

VARIABLES
  waiting,          \* calls admitted but not started
  holding,          \* calls that hold a slot
  over              \* calls whose promise is settled

avars == <<waiting, holding, over>>

New == Ops \ (waiting \cup holding \cup over)
OfClass(S, c) == {op \in S : ClassOf[op] = c}
Full(c) == Cardinality(OfClass(holding, c)) >= Concurrency[c]
RoomToWait(c) ==
  /\ Cardinality(waiting) < MaxQueue
  /\ Cardinality(OfClass(waiting, c)) < MaxQueueOf[c]

Init == waiting = {} /\ holding = {} /\ over = {}

TurnAway(op) ==
  /\ op \in New
  /\ over' = over \cup {op}
  /\ UNCHANGED <<waiting, holding>>

Enter(op) ==
  /\ op \in New
  /\ ~ Full(ClassOf[op])
  /\ OfClass(waiting, ClassOf[op]) = {}
  /\ holding' = holding \cup {op}
  /\ UNCHANGED <<waiting, over>>

Wait(op) ==
  /\ op \in New
  /\ Full(ClassOf[op])
  /\ RoomToWait(ClassOf[op])
  /\ waiting' = waiting \cup {op}
  /\ UNCHANGED <<holding, over>>

Serve(op) ==
  /\ op \in waiting
  /\ ~ Full(ClassOf[op])
  /\ waiting' = waiting \ {op}
  /\ holding' = holding \cup {op}
  /\ UNCHANGED over

GiveUp(op) ==
  /\ op \in waiting
  /\ waiting' = waiting \ {op}
  /\ over' = over \cup {op}
  /\ UNCHANGED holding

Leave(op) ==
  /\ op \in holding
  /\ holding' = holding \ {op}
  /\ over' = over \cup {op}
  /\ UNCHANGED waiting

Next ==
  \E op \in Ops :
    TurnAway(op) \/ Enter(op) \/ Wait(op) \/ Serve(op) \/ GiveUp(op) \/ Leave(op)

Spec == Init /\ [][Next]_avars
=============================================================================
