----------------------------- MODULE ActivityView -----------------------------
(* What the user of the TUI sees and does: the session it mirrors with the    *)
(* filter, the search and the selection over it (src/src/session/store.ts),   *)
(* the modes (tui/interaction.ts, tui/app.tsx) and the follow state that      *)
(* takes the selection to the newest call.                                    *)
(*                                                                            *)
(* Everything runs on one thread: an event, a key or a click changes the      *)
(* store and refreshes, and the effect of the refresh is part of the step.    *)
EXTENDS RuntimeSession, Integers, FiniteSets, Functions, Subsequences

CONSTANTS Matching,       \* the calls the search text is found in
          None,
          MaxReconnects   \* bound: how often the connection is lost

VARIABLES progress,       \* what has become of each call in the daemon
          session,        \* the daemon's session
          online,
          reconnects,
          rows,           \* the TUI's session
          statusFilter, searching,   \* searching: there is a search text
          selected,
          mode,
          following, pendingNew, lastTotalCalls

ViewAssumption ==
  /\ HistoryLimit \in Nat \ {0}
  /\ IsFiniteSet(Calls) /\ None \notin Calls

vars == <<progress, session, online, reconnects, rows, statusFilter, searching, selected,
          mode, following, pendingNew, lastTotalCalls>>

Modes == {"activity", "detail", "search", "help"}
Filters == <<"all", "running", "done">>

Init ==
  /\ progress = [k \in Calls |-> "new"]
  /\ session = <<>> /\ online = TRUE /\ reconnects = 0
  /\ rows = <<>> /\ statusFilter = "all" /\ searching = FALSE /\ selected = None
  /\ mode = "activity" /\ following = TRUE /\ pendingNew = 0 /\ lastTotalCalls = 0

-----------------------------------------------------------------------------

(* filterRows.                                                                *)
Filtered(someRows, filter, search) ==
  LET passes == Keep(someRows, {i \in DOMAIN someRows :
                                  /\ filter \in {"all", someRows[i].status}
                                  /\ search => someRows[i].call \in Matching})
  IN [i \in DOMAIN passes |-> passes[i].call]

Visible == Filtered(rows, statusFilter, searching)

(* selectLastFiltered.                                                        *)
NewestOf(calls) == IF calls = <<>> THEN None ELSE calls[Len(calls)]

(* ensureSelection: what is not visible is not selected.                      *)
Ensured(call, calls) ==
  IF call \in Range(calls) THEN call ELSE IF calls = <<>> THEN None ELSE Head(calls)

(* updateFollowForTotalCalls: it is the total that says whether there are     *)
(* new calls.                                                                 *)
NewCalls(total) == IF total > lastTotalCalls THEN total - lastTotalCalls ELSE 0

(* The store has other rows: refresh, and the effect it has.                  *)
Refreshed(newRows) ==
  LET calls == Filtered(newRows, statusFilter, searching)
      new == NewCalls(Len(newRows)) IN
  /\ rows' = newRows
  /\ lastTotalCalls' = Len(newRows)
  /\ pendingNew' = IF following THEN pendingNew ELSE pendingNew + new
  /\ selected' = IF new > 0 /\ following THEN NewestOf(calls) ELSE Ensured(selected, calls)
  /\ UNCHANGED <<statusFilter, searching, mode, following>>

(* An event of the daemon, which the TUI hears of while it is connected.      *)
Happens(k, status) ==
  /\ progress' = [progress EXCEPT ![k] = status]
  /\ session' = Consume(session, [call |-> k, status |-> status])
  /\ IF online THEN Refreshed(Consume(rows, [call |-> k, status |-> status]))
     ELSE UNCHANGED <<rows, statusFilter, searching, selected, mode, following, pendingNew,
                      lastTotalCalls>>
  /\ UNCHANGED <<online, reconnects>>

CallStarts(k) == progress[k] = "new" /\ Happens(k, "running")
CallEnds(k) == progress[k] = "running" /\ Happens(k, "done")

ConnectionLost ==
  /\ online /\ reconnects < MaxReconnects
  /\ online' = FALSE /\ reconnects' = reconnects + 1
  /\ UNCHANGED <<progress, session, rows, statusFilter, searching, selected, mode, following,
                 pendingNew, lastTotalCalls>>

(* replaceRuntime with the snapshot.                                          *)
Resynchronized ==
  /\ ~online
  /\ online' = TRUE
  /\ Refreshed(session)
  /\ UNCHANGED <<progress, session, reconnects>>

-----------------------------------------------------------------------------

daemonVars == <<progress, session, online, reconnects, rows, lastTotalCalls>>

(* move: moveSelection stays within the visible calls.                        *)
Move(delta) ==
  /\ mode = "activity"
  /\ LET at == IF selected = None THEN 1
               ELSE CHOOSE i \in DOMAIN Visible : Visible[i] = selected
         to == IF at + delta < 1 THEN 1
               ELSE IF at + delta > Len(Visible) THEN Len(Visible) ELSE at + delta
     IN selected' = IF Visible = <<>> THEN None ELSE Visible[to]
  /\ UNCHANGED <<daemonVars, statusFilter, searching, mode, following, pendingNew>>

CycleFilter ==
  /\ mode = "activity"
  /\ LET i == CHOOSE j \in DOMAIN Filters : Filters[j] = statusFilter IN
     statusFilter' = Filters[(i % Len(Filters)) + 1]
  /\ selected' = NewestOf(Filtered(rows, statusFilter', searching))
  /\ UNCHANGED <<daemonVars, searching, mode, following, pendingNew>>

(* The text in the search box changes.                                        *)
SetQuery ==
  /\ mode = "search"
  /\ searching' \in BOOLEAN
  /\ selected' = NewestOf(Filtered(rows, statusFilter, searching'))
  /\ UNCHANGED <<daemonVars, statusFilter, mode, following, pendingNew>>

(* A click on a call of the feed, which Detail hides.                         *)
Click ==
  /\ mode # "detail"
  /\ \E k \in Range(Visible) : selected' = k
  /\ UNCHANGED <<daemonVars, statusFilter, searching, mode, following, pendingNew>>

\* Mutant: Detail goes on following.
OpenDetailFollowing ==
  /\ \/ mode = "activity" /\ selected # None /\ UNCHANGED selected
     \/ mode # "detail" /\ \E k \in Range(Visible) : selected' = k
  /\ mode' = "detail"
  /\ UNCHANGED <<daemonVars, statusFilter, searching, following, pendingNew>>

(* openDetail, by key or by a double click: the inspection is frozen.         *)
OpenDetail ==
  /\ \/ mode = "activity" /\ selected # None /\ UNCHANGED selected
     \/ mode # "detail" /\ \E k \in Range(Visible) : selected' = k
  /\ mode' = "detail"
  /\ following' = FALSE /\ pendingNew' = 0
  /\ UNCHANGED <<daemonVars, statusFilter, searching>>

Resumed == following' = TRUE /\ pendingNew' = 0 /\ selected' = NewestOf(Visible)

(* backToActivity, by escape, by the left arrow or by submitting the search;  *)
(* jumpToNewest does the same without a change of mode.                       *)
BackToActivity ==
  /\ mode \in {"activity", "search", "detail"}
  /\ mode' = "activity"
  /\ Resumed
  /\ UNCHANGED <<daemonVars, statusFilter, searching>>

(* transitionMode and the keys of the help.                                   *)
ChangeMode ==
  /\ \/ mode = "activity" /\ mode' \in {"search", "help"}
     \/ mode = "help" /\ mode' = "activity"
  /\ UNCHANGED <<daemonVars, statusFilter, searching, selected, following, pendingNew>>

Next ==
  \/ \E k \in Calls : CallStarts(k) \/ CallEnds(k)
  \/ ConnectionLost \/ Resynchronized
  \/ Move(1) \/ Move(-1) \/ CycleFilter \/ SetQuery \/ Click
  \/ OpenDetail \/ BackToActivity \/ ChangeMode

Spec == Init /\ [][Next]_vars

-----------------------------------------------------------------------------

TypeOK ==
  /\ IsSession(rows) /\ IsSession(session)
  /\ mode \in Modes /\ following \in BOOLEAN /\ pendingNew \in 0..Cardinality(Calls)
  /\ lastTotalCalls = Len(rows)

NewRow == \E k \in Calls : Has(rows', k) /\ ~Has(rows, k)

(* Type invariant, and the selection stays with the user: something visible   *)
(* is selected as soon as there is something, the call inspected in Detail is *)
(* replaced only when it is not visible any more, and a call that starts      *)
(* takes the selection exactly if Activity follows, as long as the session is *)
(* not full (ensureSelection, freeze, updateFollowForTotalCalls).             *)
SelectionStays ==
  /\ TypeOK'
  /\ selected' = None <=> Visible' = <<>>
  /\ selected' # None => selected' \in Range(Visible')
  /\ mode = "detail" /\ mode' = "detail" /\ selected # None /\ selected' # selected =>
       selected \notin Range(Visible')
  /\ rows # rows' /\ online /\ NewRow /\ Len(rows) < HistoryLimit =>
       selected' = IF following THEN NewestOf(Visible') ELSE Ensured(selected, Visible')
SelectionIsTheUsers == [][SelectionStays]_vars

(* Violated: while Activity follows, every call that starts is selected if it *)
(* is visible.  The total does not grow any more once the session is full     *)
(* (src/README.md:88).                                                        *)
NewCallsAreSelected ==
  [][\A k \in Calls : following /\ online /\ progress[k] = "new" /\ progress'[k] = "running"
                      /\ k \in Range(Visible') => selected' = k]_vars

(* Violated: a call that is inspected is not replaced by another.             *)
InspectionIsFrozen ==
  [][mode = "detail" /\ mode' = "detail" => selected' = selected]_vars
=============================================================================
