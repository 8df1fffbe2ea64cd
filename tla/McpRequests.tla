----------------------------- MODULE McpRequests -----------------------------
(***************************************************************************)
(* The MCP server as a client of the daemon: the calls that McpAdmission   *)
(* lets in go through OperationIpcClient                                   *)
(* (src/client/operation-ipc-client.ts).  As long as no answer of the      *)
(* daemon has confirmed the contract, each call validates it over a socket *)
(* of its own, with a timer of its own; what they share is the one pending *)
(* promise, the one reference to a socket, and cleanupValidation.          *)
(*                                                                         *)
(* Every action is one callback with the promise reactions it sets off: a  *)
(* call whose execution settles gives its slot to the next one, which      *)
(* begins its own execution.  A timer may fire at any time.                *)
(***************************************************************************)
EXTENDS McpAdmission

CONSTANT None

ASSUME NoneIsNoCall == None \notin Calls

VARIABLE client     \* the fields of OperationIpcClient and what the calls wait for

vars == <<admission, client>>

(***************************************************************************)
(* validated, pending, latest: contractValidated, pendingValidation (the   *)
(*   call whose promise it settles) and validationSocket (the call that    *)
(*   created it);                                                          *)
(* sockets: the validation socket of each call, which stays open after the *)
(*   answer unless somebody destroys it;                                   *)
(* timers: calls whose validation timer is set;                            *)
(* waits: what the promise of execute() of each started call waits for.    *)
(***************************************************************************)
Sockets == {"none", "dialling", "open", "answered", "closing", "closed"}
Alive == {"dialling", "open", "answered"}
Waits == {"nothing", "validation", "answer"}

Client == [validated : BOOLEAN, pending : Calls \cup {None}, latest : Calls \cup {None},
           sockets : [Calls -> Sockets], timers : SUBSET Calls, waits : [Calls -> Waits]]

Init ==
  /\ AdmissionInit
  /\ client = [validated |-> FALSE, pending |-> None, latest |-> None,
               sockets |-> [k \in Calls |-> "none"], timers |-> {},
               waits |-> [k \in Calls |-> "nothing"]]

-----------------------------------------------------------------------------
\* execute(): validateContract, or the operation at once.
Begin(cl, k) ==
  IF cl.validated
    THEN [cl EXCEPT !.waits[k] = "answer"]
    ELSE [cl EXCEPT !.waits[k] = "validation", !.sockets[k] = "dialling",
                    !.latest = k, !.timers = @ \cup {k}]

\* cleanupValidation destroys the newest socket, whoever calls it.
Cleanup(cl) ==
  [cl EXCEPT !.sockets = [k \in Calls |-> IF k = cl.latest /\ @[k] \in Alive
                                            THEN "closing" ELSE @[k]],
             !.latest = None, !.pending = None]

\* The promise of execute() for k settles, with the client in state cl: the finally
\* clause of the handler.
Finish(k, cl) ==
  LET settled == [cl EXCEPT !.waits[k] = "nothing"] IN
  \/ ReturnSlot(k) /\ client' = settled
  \/ \E next \in Calls : HandOver(k, next) /\ client' = Begin(settled, next)

\* A promise settles once.
Resolve(k, cl) ==
  /\ client' = IF cl.waits[k] = "validation" THEN [cl EXCEPT !.waits[k] = "answer"] ELSE cl
  /\ UNCHANGED admission

\* Mutant: the error of the validation is caught and forgotten.
SwallowError(k, cl) == Resolve(k, cl)

Reject(k, cl) ==
  IF cl.waits[k] = "validation" THEN Finish(k, cl) ELSE client' = cl /\ UNCHANGED admission

\* fail(): what the timer, the error listener and the close listener share.
Fail(k, cl) == Reject(k, Cleanup(cl))

-----------------------------------------------------------------------------
CallArrives(k) ==
  \/ StartAtOnce(k) /\ client' = Begin(client, k)
  \/ (Refuse(k) \/ Enqueue(k)) /\ UNCHANGED client

CallTimesOut(k) == QueueTimeout(k) /\ UNCHANGED client

Connects(k) ==
  /\ client.sockets[k] = "dialling"
  /\ client' = [client EXCEPT !.sockets[k] = "open", !.pending = k]
  /\ UNCHANGED admission

\* The status comes on k's socket and settles the pending promise, whose ever that
\* is; the timer that is cleared is k's.
StatusArrives(k) ==
  /\ client.sockets[k] = "open"
  /\ LET heard == [client EXCEPT !.sockets[k] = "answered"] IN
     IF client.pending = None
       THEN client' = heard /\ UNCHANGED admission
       ELSE LET cleared == [heard EXCEPT !.timers = @ \ {k}] IN
            \/ Resolve(client.pending, Cleanup([cleared EXCEPT !.validated = TRUE]))
            \/ Reject(client.pending, Cleanup(cleared))

\* An answer that does not parse, from a daemon of another version.
AnswerIsUnreadable(k) ==
  /\ client.sockets[k] = "open"
  /\ Fail(k, [client EXCEPT !.sockets[k] = "answered"])

ValidationTimeout(k) ==
  /\ k \in client.timers
  /\ Fail(k, [client EXCEPT !.timers = @ \ {k}])

\* The daemon is not there, or its end of the socket breaks.
SocketError(k) ==
  /\ client.sockets[k] \in Alive
  /\ Fail(k, [client EXCEPT !.sockets[k] = "closing"])

\* The daemon closes its end in good order.
DaemonHangsUp(k) ==
  /\ client.sockets[k] \in {"open", "answered"}
  /\ client' = [client EXCEPT !.sockets[k] = "closing"]
  /\ UNCHANGED admission

SocketCloses(k) ==
  /\ client.sockets[k] = "closing"
  /\ LET closed == [client EXCEPT !.sockets[k] = "closed"] IN
     IF client.pending # None
       THEN Fail(k, closed)
       ELSE client' = closed /\ UNCHANGED admission

\* executeOperation settles: an answer, its own timer, or the loss of its socket.
OperationEnds(k) ==
  /\ client.waits[k] = "answer"
  /\ Finish(k, client)

Next ==
  \E k \in Calls :
    \/ CallArrives(k) \/ CallTimesOut(k) \/ Connects(k) \/ StatusArrives(k)
    \/ AnswerIsUnreadable(k) \/ ValidationTimeout(k) \/ SocketError(k) \/ DaemonHangsUp(k) \/ SocketCloses(k)
    \/ OperationEnds(k)

(***************************************************************************)
(* Fairness: timers fire (every operation has one too) and a destroyed     *)
(* socket reports its close.  The daemon need not answer.                  *)
(***************************************************************************)
TimersFire ==
  \A k \in Calls :
    /\ WF_vars(CallTimesOut(k)) /\ WF_vars(ValidationTimeout(k))
    /\ WF_vars(OperationEnds(k)) /\ WF_vars(SocketCloses(k))

Spec == Init /\ [][Next]_vars
FairSpec == Spec /\ TimersFire

-----------------------------------------------------------------------------
(***************************************************************************)
(* Properties.                                                             *)
(***************************************************************************)
TypeOK ==
  /\ AdmissionTypeOK
  /\ client \in Client
  /\ \A k \in Calls : client.waits[k] # "nothing" <=> stage[k] = "started"

\* No operation goes out before an answer of the daemon has confirmed the contract,
\* although the answer to one call settles the promise of another.
OnlyValidatedCallsAsk == \A k \in Calls : client.waits[k] = "answer" => client.validated

\* Slots, promises and the validation agree, whichever socket or timer settles a call.
RequestsAreSound == TypeOK /\ SlotsAgree /\ OnlyValidatedCallsAsk

-----------------------------------------------------------------------------
\* The design document says that a timeout is scoped to one operation: every call
\* that is let in ends, by its own timer if nothing else.
EveryCallEnds == \A k \in Calls : stage[k] \in {"queued", "started"} ~> stage[k] = "ended"
=============================================================================
