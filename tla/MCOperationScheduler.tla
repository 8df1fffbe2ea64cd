----------------------- MODULE MCOperationScheduler -----------------------
(***************************************************************************)
(* Four calls of one class compete for one slot and two places in the      *)
(* queue: one runs, two wait, one is refused, so that a removal from the   *)
(* head and the end of the queue and a drain that discards before it       *)
(* starts all happen.  No symmetry, because liveness is checked.  The      *)
(* second class is idle, with a queue limit of zero, which the code        *)
(* allows; several busy classes are left to the proofs.                    *)
(***************************************************************************)
EXTENDS OperationScheduler

CONSTANTS h1, h2, h3, h4, heavy, light

MCOps == {h1, h2, h3, h4}
MCClasses == {heavy, light}
MCClassOf == [op \in Ops |-> heavy]
MCConcurrency == [c \in MCClasses |-> 1]
MCMaxQueueOf == [c \in MCClasses |-> IF c = heavy THEN 2 ELSE 0]
MCDeadlines == {1, NoDeadline}
=============================================================================
