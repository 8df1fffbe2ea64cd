------------------------------ MODULE SearchJob -------------------------------
(* SearchManager (src/src/search/manager.ts): a search that walks a tree in   *)
(* the background while its session is paged, stopped and expired.  The       *)
(* sessions of a manager share nothing but the map that lists them, so the    *)
(* module follows one.  Every event of the line reader (a line, its end, an   *)
(* error) is one step: it may close the reader, and the reader's close event  *)
(* runs inside that call.                                                     *)
EXTENDS Integers, Sequences

CONSTANTS Tree,        \* the files in the order they are walked: the matches per line
          Named,       \* the files whose name matches
          Contexts,    \* the values of contextLines
          Limits,      \* the values of maxResults
          PageSizes    \* the lengths that getMore is asked for

VARIABLES status,      \* job.status, "none" before the search
          listed,      \* the session is in the map
          task,        \* where run() is
          options,
          overtime,    \* timeoutMs have passed since the start
          results, truncated,
          file,        \* the file that is walked or read
          line,        \* lineNumber
          pending,     \* matches that wait for their lines behind
          before,      \* how many lines are kept in front of the next
          unread,      \* files that could not be read to their end
          pages,       \* what a client has got, page after page
          done,        \* its last page said done
          stopper      \* what the client of stop() sees

SearchAssumption ==
  /\ Tree \in Seq(Seq(Nat))
  /\ Contexts \subseteq Nat /\ Limits \subseteq Nat /\ PageSizes \subseteq Nat

vars == <<status, listed, task, options, overtime, results, truncated, file,
          line, pending, before, unread, pages, done, stopper>>

jobVars == <<status, results, truncated, task, file, line, pending, before>>
clientVars == <<pages, done, stopper>>

AllOptions == [content : BOOLEAN, context : Contexts, max : Limits, early : BOOLEAN]

Min2(a, b) == IF a < b THEN a ELSE b

(* The part of the job that its own steps change.                             *)
Job == [status |-> status, results |-> results, truncated |-> truncated,
        task |-> task, file |-> file, line |-> line, pending |-> pending,
        before |-> before]

Becomes(job) ==
  \E j \in {job} :
    /\ status' = j.status /\ results' = j.results /\ truncated' = j.truncated
    /\ task' = j.task /\ file' = j.file /\ line' = j.line
    /\ pending' = j.pending /\ before' = j.before

Init ==
  /\ status = "none" /\ listed = FALSE /\ task = "none"
  /\ options = [content |-> TRUE, context |-> 0, max |-> 0, early |-> FALSE]
  /\ overtime = FALSE
  /\ results = <<>> /\ truncated = FALSE
  /\ file = 1 /\ line = 0 /\ pending = <<>> /\ before = 0
  /\ unread = {}
  /\ pages = <<>> /\ done = FALSE /\ stopper = "idle"

-----------------------------------------------------------------------------

(* addResult for each of new in turn, until one finds no room.                *)
AddAll(j, new) ==
  LET room == options.max - Len(j.results)
      taken == SubSeq(new, 1, Min2(room, Len(new)))
  IN [j EXCEPT !.results = @ \o taken,
               !.truncated = \/ @
                             \/ Len(new) > room
                             \/ taken # <<>> /\ Len(taken) = room]

\* Mutant: the close event does not force what is pending.
EmitNothing(j) == [j EXCEPT !.pending = <<>>]

(* emitReady(true) in the close event, once the reader is closed: everything  *)
(* that is pending, or just the first of it with earlyTermination.            *)
EmitAll(j) ==
  LET n == IF options.early THEN Min2(1, Len(j.pending)) ELSE Len(j.pending)
  IN [AddAll(j, SubSeq(j.pending, 1, n)) EXCEPT !.pending = <<>>]

\* Mutant: the promise of the file is not settled when the search is not running.
OnwardIfRunning(j) ==
  IF j.status # "running" THEN j
  ELSE IF j.truncated \/ (options.early /\ j.results # <<>>)
  THEN [j EXCEPT !.task = "ended", !.status = "completed"]
  ELSE [j EXCEPT !.task = "walking", !.file = @ + 1]

(* What follows the end of a file in the loop of run.                         *)
Onward(j) ==
  IF j.status # "running" \/ j.truncated \/ (options.early /\ j.results # <<>>)
  THEN [j EXCEPT !.task = "ended",
                 !.status = IF @ = "running" THEN "completed" ELSE @]
  ELSE [j EXCEPT !.task = "walking", !.file = @ + 1]

(* rl.close(): the close event emits what is pending and resolves the file.   *)
Close(j) == Onward(EmitAll(j))

(* How many of what is pending have all their lines behind them: up to the    *)
(* first that has not.                                                        *)
HowManyDue(j) ==
  LET due(i) == j.line >= j.pending[i].line + options.context IN
  CHOOSE n \in 0..Len(j.pending) :
    /\ \A i \in 1..n : due(i)
    /\ n < Len(j.pending) => ~due(n + 1)

(* emitReady(false): the matches with all their lines behind them are added;  *)
(* one too many, or the first with earlyTermination, closes the reader.       *)
EmitReady(j) ==
  LET due == HowManyDue(j)
      n == IF options.early THEN Min2(1, due) ELSE due
      room == options.max - Len(j.results)
      emitted == AddAll(j, SubSeq(j.pending, 1, n))
      left == SubSeq(j.pending, Min2(n, room + 1) + 1, Len(j.pending))
      k == [emitted EXCEPT !.pending = left]
  IN IF n > room \/ (options.early /\ n > 0) THEN Close(k) ELSE k

-----------------------------------------------------------------------------

(* start, with run() up to its first wait.                                    *)
Start(o) ==
  /\ status = "none"
  /\ listed' = TRUE
  /\ options' = o
  /\ status' = IF o.max = 0 THEN "completed" ELSE "running"
  /\ truncated' = (o.max = 0)
  /\ task' = IF o.max = 0 THEN "ended" ELSE "walking"
  /\ UNCHANGED <<overtime, results, file, line, pending, before, unread, clientVars>>

(* The time limit passes; whoever looks next finds it.                        *)
TimePasses ==
  /\ task \in {"walking", "reading"}
  /\ ~overtime
  /\ overtime' = TRUE
  /\ UNCHANGED <<jobVars, listed, options, unread, clientVars>>

Ended(j) == [j EXCEPT !.task = "ended",
                      !.status = IF @ = "running" THEN "completed" ELSE @]

(* The walk brings the next file, or its end.                                 *)
Walk ==
  /\ task = "walking"
  /\ Becomes(
       IF file > Len(Tree) \/ status # "running" THEN Ended(Job)
       ELSE IF overtime THEN Ended([Job EXCEPT !.truncated = TRUE])
       ELSE IF options.content
            THEN [Job EXCEPT !.task = "reading", !.line = 0, !.before = 0,
                             !.pending = <<>>]
            ELSE Onward(IF file \in Named THEN AddAll(Job, <<[file |-> file]>>)
                                          ELSE Job))
  /\ UNCHANGED <<listed, options, overtime, unread, clientVars>>

\* Mutant: one line more is kept in front of a match.
OneMoreBefore(n) == IF options.context = 0 THEN n ELSE Min2(n, options.context + 1)

(* before.slice(-contextLines): with contextLines zero, slice(-0), all of it.  *)
KeptBefore(n) == IF options.context = 0 THEN n ELSE Min2(n, options.context)

(* rl.on("line"): the line is context behind the pending matches and, after   *)
(* its own matches are pending, context in front of the next.                 *)
LineBehind(n) ==
  [Job EXCEPT !.line = n,
              !.pending = [i \in DOMAIN pending |->
                 IF n <= pending[i].line + options.context
                 THEN [pending[i] EXCEPT !.after = @ + 1] ELSE pending[i]]]

MatchesIn(n) ==
  [i \in 1..(IF options.early THEN Min2(1, Tree[file][n]) ELSE Tree[file][n]) |->
     [file |-> file, line |-> n, nth |-> i, before |-> before, after |-> 0]]

ReadLine(n) ==
  \E first \in {EmitReady(LineBehind(n))} :
    IF first.task # "reading" THEN Becomes(first)
    ELSE \E second \in {EmitReady([first EXCEPT !.pending = @ \o MatchesIn(n)])} :
           IF second.task # "reading" THEN Becomes(second)
           ELSE IF options.early /\ second.results # <<>> THEN Becomes(Close(second))
           ELSE Becomes([second EXCEPT !.before = KeptBefore(@ + 1)])

Line ==
  /\ task = "reading"
  /\ line < Len(Tree[file])
  /\ IF status # "running" THEN Becomes(Close(Job))
     ELSE IF overtime THEN Becomes(Close([Job EXCEPT !.truncated = TRUE]))
     ELSE ReadLine(line + 1)
  /\ UNCHANGED <<listed, options, overtime, unread, clientVars>>

EndOfFile ==
  /\ task = "reading"
  /\ line = Len(Tree[file])
  /\ Becomes(Close(Job))
  /\ UNCHANGED <<listed, options, overtime, unread, clientVars>>

(* A file that cannot be opened or read on: what was pending is dropped.      *)
ReadError ==
  /\ task = "reading"
  /\ Becomes(Onward(Job))
  /\ unread' = unread \cup {file}
  /\ UNCHANGED <<listed, options, overtime, clientVars>>

-----------------------------------------------------------------------------

(* getMore at the place where the client's last page ended.                   *)
GetMore(n) ==
  LET end == Min2(Len(pages) + n, Len(results)) IN
  /\ listed
  /\ pages' = pages \o SubSeq(results, Len(pages) + 1, end)
  /\ done' = (status # "running" /\ end >= Len(results))
  /\ UNCHANGED <<jobVars, listed, options, overtime, unread, stopper>>

(* stop, and its return when the task has ended.                              *)
Stop ==
  /\ listed
  /\ stopper = "idle"
  /\ status' = "stopped"
  /\ stopper' = "waiting"
  /\ UNCHANGED <<listed, task, options, overtime, results, truncated, file, line,
                 pending, before, unread, pages, done>>

\* Mutant: stop does not wait for the task.
StopReturnsAtOnce ==
  /\ stopper = "waiting"
  /\ stopper' = "returned"
  /\ UNCHANGED <<jobVars, listed, options, overtime, unread, pages, done>>

StopReturns ==
  /\ stopper = "waiting"
  /\ task = "ended"
  /\ stopper' = "returned"
  /\ UNCHANGED <<jobVars, listed, options, overtime, unread, pages, done>>

(* cleanupExpired, by its timer or on behalf of any call.                     *)
Expire ==
  /\ listed
  /\ listed' = FALSE
  /\ status' = IF status = "running" THEN "stopped" ELSE status
  /\ UNCHANGED <<task, options, overtime, results, truncated, file, line, pending,
                 before, unread, clientVars>>

Next ==
  \/ \E o \in AllOptions : Start(o)
  \/ TimePasses \/ Walk \/ Line \/ EndOfFile \/ ReadError
  \/ \E n \in PageSizes : GetMore(n)
  \/ Stop \/ StopReturns \/ Expire

(* The file system answers, and a settled task resumes who awaits it.         *)
Fairness ==
  WF_vars(Walk) /\ WF_vars(Line \/ EndOfFile \/ ReadError) /\ WF_vars(StopReturns)

Spec == Init /\ [][Next]_vars
LiveSpec == Spec /\ Fairness

-----------------------------------------------------------------------------

TypeOK ==
  /\ status \in {"none", "running", "completed", "stopped"}
  /\ task \in {"none", "walking", "reading", "ended"}
  /\ stopper \in {"idle", "waiting", "returned"}
  /\ {listed, overtime, truncated, done} \subseteq BOOLEAN
  /\ file \in 1..(Len(Tree) + 1)
  /\ line \in Nat /\ before \in Nat

Comes(r, s) == \/ r.file < s.file
               \/ r.file = s.file /\ r.line < s.line
               \/ r.file = s.file /\ r.line = s.line /\ r.nth < s.nth

(* The results are in the order of the tree, each once, with the context that *)
(* was asked for, never more than maxResults, and at most two with            *)
(* earlyTermination: the one that ends the search and the one that the close  *)
(* event still emits (addResult, emitReady).                                  *)
ResultsAreInOrder ==
  /\ Len(results) <= options.max
  /\ options.early => Len(results) <= 2
  /\ options.content =>
       /\ \A i, k \in DOMAIN results : i < k => Comes(results[i], results[k])
       /\ \A i \in DOMAIN results :
            /\ results[i].after <= options.context
            /\ options.context > 0 =>
                 results[i].before = Min2(options.context, results[i].line - 1)

(* A search that ends by itself and does not call itself truncated has found  *)
(* every match of every file that can be read, each with all the lines behind *)
(* it that the file has (run, matchFileContent).                              *)
CompleteUnlessCut ==
  status = "completed" /\ ~truncated /\ ~options.early /\ options.content =>
    \A f \in DOMAIN Tree \ unread : \A l \in DOMAIN Tree[f] : \A k \in 1..Tree[f][l] :
        \E i \in DOMAIN results :
          /\ results[i].file = f /\ results[i].line = l /\ results[i].nth = k
          /\ results[i].after = Min2(options.context, Len(Tree[f]) - l)

(* Pages that are read one behind the other make up the results, and the page *)
(* that says done is the last, unless a stop was asked for that had not       *)
(* reached the reader yet (getMore, stop).                                    *)
PagesMakeTheResults ==
  /\ Len(pages) <= Len(results) /\ pages = SubSeq(results, 1, Len(pages))
  /\ done /\ pages # results => stopper # "idle"

(* Type invariant, and the results are right, all there and paged as they are. *)
ResultsAreSound ==
  TypeOK /\ ResultsAreInOrder /\ CompleteUnlessCut /\ PagesMakeTheResults

(* When stop has returned, or a search has ended by itself, nothing is added. *)
StoppedIsFinal ==
  [][stopper = "returned" \/ status = "completed" => results' = results]_vars

(* Every search ends and every stop returns, also if the time limit, an       *)
(* unreadable file or an expiry comes in between (run, stop).                 *)
SearchesEnd ==
  /\ task \in {"walking", "reading"} ~> task = "ended"
  /\ stopper = "waiting" ~> stopper = "returned"

(* No match has more lines around it than contextLines says.                  *)
ContextIsBounded ==
  \A i \in DOMAIN results :
    options.content => results[i].before <= options.context /\ results[i].after <= options.context
=============================================================================
