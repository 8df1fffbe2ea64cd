--------------------------- MODULE RuntimeSession ---------------------------
(***************************************************************************)
(* RuntimeSessionStore (src/session/runtime-store.ts): the newest          *)
(* HistoryLimit tool calls in the order they were first heard of.  The     *)
(* daemon has one, every TUI has one, and the history file is replayed     *)
(* into one.  A call is abstracted to its status, and an event to the row  *)
(* it writes; the connection, the device and the texts are left out.       *)
(***************************************************************************)
EXTENDS Naturals, Sequences

CONSTANTS
  Calls,          \* tool calls
  HistoryLimit    \* SESSION_HISTORY_LIMIT

ASSUME HistoryLimitAssumption == HistoryLimit \in Nat \ {0}

Row == [call : Calls, status : {"running", "done"}]

IsSession(rows) == rows \in Seq(Row) /\ Len(rows) <= HistoryLimit

Has(session, k) == \E i \in DOMAIN session : session[i].call = k

\* setCall: a row is replaced where it is; a new one pushes the oldest out.
Consume(session, row) ==
  IF Has(session, row.call)
    THEN [i \in DOMAIN session |-> IF session[i].call = row.call THEN row ELSE session[i]]
  ELSE IF Len(session) < HistoryLimit THEN Append(session, row)
  ELSE Append(Tail(session), row)

ConsumeAll(session, events) ==
  LET after[n \in 0..Len(events)] == IF n = 0 THEN session ELSE Consume(after[n - 1], events[n])
  IN after[Len(events)]
=============================================================================
