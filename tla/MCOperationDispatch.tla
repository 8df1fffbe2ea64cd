------------------------ MODULE MCOperationDispatch ------------------------
(***************************************************************************)
(* Three heavy requests for one slot and one place in the line, so that one*)
(* runs, one waits and one is refused; the clock runs long enough for the  *)
(* timeout of the last arrival to pass.                                    *)
(***************************************************************************)
EXTENDS OperationDispatch

CONSTANTS a, b, c, heavy

MCOps == {a, b, c}
CancelOps == {a, b}
MCClasses == {heavy}
MCClassOf == [op \in MCOps |-> heavy]
MCConcurrency == [k \in MCClasses |-> 1]
MCMaxQueueOf == [k \in MCClasses |-> 1]
=============================================================================
