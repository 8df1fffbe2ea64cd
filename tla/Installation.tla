----------------------------- MODULE Installation -----------------------------
(* Promoting a build and going back to the one before (promoteInstalledBuild, *)
(* rollbackInstalledBuild in src/src/platform/install.ts).  A build is a few  *)
(* files that are put in place one by one, by renames: each may fail, and the *)
(* process may be killed between any two.                                     *)
(*                                                                            *)
(* The content of a file is the build it belongs to.  An operation goes       *)
(* through a list of files, with the same few renames for each; a failure     *)
(* makes it go back through those that were done.                             *)
EXTENDS Integers, Sequences, SequencesExt, Subsequences

CONSTANTS MaxBuilds,       \* bound: how many builds are promoted
          MaxRollbacks, MaxFaults, MaxCrashes,  \* bounds
          Layouts          \* the layouts that a build may come out with

InstallationAssumption == MaxBuilds \in Nat

VARIABLES current, previous, next, aside,   \* file -> build
          layoutOf,        \* build -> its layout
          builds,          \* builds promoted so far: 1..builds
          doing,           \* idle, promote, rollback or undo
          toMove,          \* the files it has yet to go through, in order
          turn,            \* which rename of the first of them comes next
          done,            \* the files that are through, in order
          before,          \* current as the operation found it
          answer,          \* of the last operation
          rollbacks, faults, crashes,
          spoilt           \* an undo failed, or a crash cut an operation off

vars == <<current, previous, next, aside, layoutOf, builds, doing, toMove, turn,
          done, before, answer, rollbacks, faults, crashes, spoilt>>

None == 0
Builds == 1..MaxBuilds
Files == {"cli", "daemon", "layout", "schema"}

(* artifactNames, in the order in which a Set of them is walked.              *)
Artifacts(layout) == IF layout = "split" THEN <<"cli", "daemon">> ELSE <<"cli">>

(* readInstalledBuildLayout: a layout that cannot be read counts as single.   *)
LayoutIn(files) == IF files["layout"] = None THEN "single" ELSE layoutOf[files["layout"]]

Nothing == [f \in Files |-> None]

Init ==
  /\ current = Nothing /\ previous = Nothing /\ next = Nothing /\ aside = Nothing
  /\ layoutOf = [b \in Builds |-> "single"]
  /\ builds = 0
  /\ doing = "idle" /\ toMove = <<>> /\ turn = 1 /\ done = <<>>
  /\ before = Nothing /\ answer = "none"
  /\ rollbacks = 0 /\ faults = 0 /\ crashes = 0
  /\ spoilt = FALSE

counters == <<rollbacks, faults, crashes>>

-----------------------------------------------------------------------------

\* Mutant: the file that is replaced is not kept.
PlaceOver == <<"drop", "place">>

(* promoteStagedFile and swapCurrentAndPrevious, file by file.                *)
Place == <<"drop", "keep", "place">>
Swap == <<"leave", "back", "store">>

Renames == IF doing = "promote" THEN Place ELSE Swap

(* What an earlier crash left aside has a name that nobody looks for.         *)
Begin(what, files) ==
  /\ doing' = what
  /\ aside' = Nothing
  /\ toMove' = files /\ turn' = 1
  /\ done' = <<>>
  /\ before' = current

(* promoteInstalledBuild: everything is staged next to its destination before *)
(* the first rename.  The schema hash may not be there to stage.              *)
Promote(layout, withSchema) ==
  LET b == builds + 1
      files == Artifacts(layout) \o <<"layout">> \o (IF withSchema THEN <<"schema">> ELSE <<>>)
  IN
  /\ doing = "idle"
  /\ b \in Builds
  /\ builds' = b
  /\ layoutOf' = [layoutOf EXCEPT ![b] = layout]
  /\ next' = [f \in Files |-> IF f \in ToSet(files) THEN b ELSE None]
  /\ Begin("promote", files)
  /\ answer' = "none"
  /\ UNCHANGED <<current, previous, counters, spoilt>>

(* rollbackInstalledBuild: every artifact of both layouts that has a previous *)
(* file, then the schema hash and the layout.                                 *)
Rollback ==
  LET names == Artifacts(IF "split" \in {LayoutIn(current), LayoutIn(previous)}
                         THEN "split" ELSE "single")
                \o <<"schema">>
      there == {i \in DOMAIN names : previous[names[i]] # None}
  IN
  /\ doing = "idle"
  /\ rollbacks < MaxRollbacks
  /\ previous["layout"] # None
  /\ rollbacks' = rollbacks + 1
  /\ Begin("rollback", Append(Keep(names, there), "layout"))
  /\ answer' = "none"
  /\ UNCHANGED <<current, previous, next, layoutOf, builds, faults, crashes, spoilt>>

-----------------------------------------------------------------------------

(* One rename; a file that is not there is not moved.                         *)
Moved(from, to, f) == [to EXCEPT ![f] = IF from[f] = None THEN @ ELSE from[f]]
Gone(from, f) == [from EXCEPT ![f] = None]

Rename(what, f) ==
  CASE what = "drop" ->
         /\ previous' = Gone(previous, f)
         /\ UNCHANGED <<current, next, aside>>
    [] what = "keep" ->
         /\ previous' = Moved(current, previous, f) /\ current' = Gone(current, f)
         /\ UNCHANGED <<next, aside>>
    [] what = "place" ->
         /\ current' = Moved(next, current, f) /\ next' = Gone(next, f)
         /\ UNCHANGED <<previous, aside>>
    [] what = "leave" ->
         /\ aside' = Moved(current, aside, f) /\ current' = Gone(current, f)
         /\ UNCHANGED <<previous, next>>
    [] what = "back" ->
         /\ current' = Moved(previous, current, f) /\ previous' = Gone(previous, f)
         /\ UNCHANGED <<next, aside>>
    [] what = "store" ->
         /\ previous' = Moved(aside, previous, f) /\ aside' = Gone(aside, f)
         /\ UNCHANGED <<current, next>>

(* A swap of a file without a previous one throws before it moves anything.   *)
NothingToSwap == Renames[turn] = "leave" /\ previous[Head(toMove)] = None

(* What was not there is not put in the place of the previous file.           *)
NothingToStore == Renames[turn] = "store" /\ aside[Head(toMove)] = None

Step ==
  LET f == Head(toMove) IN
  /\ toMove # <<>>
  /\ ~NothingToSwap
  /\ Rename(Renames[turn], f)
  /\ IF turn < Len(Renames)
     THEN turn' = turn + 1 /\ UNCHANGED <<toMove, done>>
     ELSE turn' = 1 /\ toMove' = Tail(toMove) /\ done' = Append(done, f)
  /\ UNCHANGED <<layoutOf, builds, doing, before, answer, counters, spoilt>>

\* Mutant: what was moved of the file that failed stays moved.
PutNothingBack(f) == UNCHANGED <<current, previous, aside>>

(* The rename at hand fails: what has been moved of this file is moved back   *)
(* (these renames are taken to succeed), and the files that are through are   *)
(* swapped back, the last one first.                                          *)
PutBack(f) ==
  CASE Renames[turn] = "place" ->
         /\ current' = Moved(previous, current, f)
         /\ previous' = IF previous[f] = None THEN previous ELSE Gone(previous, f)
         /\ UNCHANGED aside
    [] Renames[turn] = "back" ->
         /\ current' = Moved(aside, current, f) /\ aside' = Gone(aside, f)
         /\ UNCHANGED previous
    [] Renames[turn] = "store" ->
         /\ previous' = Moved(current, previous, f)
         /\ current' = [current EXCEPT ![f] = aside[f]] /\ aside' = Gone(aside, f)
    [] OTHER -> UNCHANGED <<current, previous, aside>>

StepFails ==
  LET f == Head(toMove) IN
  /\ toMove # <<>>
  /\ NothingToSwap \/ (faults < MaxFaults /\ ~NothingToStore)
  /\ PutBack(f)
  /\ IF doing = "undo"
     THEN /\ toMove' = Tail(toMove)
          /\ spoilt' = (spoilt \/ ~NothingToSwap)
          /\ UNCHANGED doing
     ELSE /\ doing' = "undo"
          /\ toMove' = Reverse(done)
          /\ UNCHANGED spoilt
  /\ turn' = 1
  /\ faults' = IF NothingToSwap THEN faults ELSE faults + 1
  /\ done' = <<>>
  /\ UNCHANGED <<next, layoutOf, builds, before, answer, rollbacks, crashes>>

(* finally: what is still staged goes.                                        *)
End ==
  /\ doing # "idle"
  /\ toMove = <<>>
  /\ next' = Nothing
  /\ doing' = "idle"
  /\ answer' = IF doing = "undo" THEN "failed" ELSE "ok"
  /\ UNCHANGED <<current, previous, aside, layoutOf, builds, toMove, turn, done, before,
                 counters, spoilt>>

(* The process is killed; nothing looks at the leftovers when it is started   *)
(* again.                                                                     *)
Crash ==
  /\ doing # "idle"
  /\ crashes < MaxCrashes
  /\ crashes' = crashes + 1
  /\ doing' = "idle" /\ toMove' = <<>> /\ turn' = 1 /\ done' = <<>>
  /\ answer' = "none"
  /\ spoilt' = TRUE
  /\ UNCHANGED <<current, previous, next, aside, layoutOf, builds, before, rollbacks, faults>>

Next ==
  \/ \E layout \in Layouts, withSchema \in BOOLEAN : Promote(layout, withSchema)
  \/ Rollback
  \/ Step \/ StepFails \/ End
  \/ Crash

Spec == Init /\ [][Next]_vars

-----------------------------------------------------------------------------

TypeOK ==
  /\ {current, previous, next, aside} \subseteq [Files -> 0..MaxBuilds]
  /\ doing \in {"idle", "promote", "rollback", "undo"}
  /\ answer \in {"none", "ok", "failed"}
  /\ builds \in 0..MaxBuilds

(* Whatever is killed or fails, the files that were there when the operation  *)
(* began are all still somewhere, and at most one of them is out of its place *)
(* at any moment (promoteStagedFile, swapCurrentAndPrevious).                 *)
NothingIsLost ==
  /\ \A f \in Files : before[f] \in {current[f], previous[f], aside[f], None}
  /\ crashes = 0 =>
       \A f, g \in Files : /\ before[f] # None /\ current[f] = None
                           /\ before[g] # None /\ current[g] = None
                           => f = g

(* An operation that fails leaves every file that was there as it found it,   *)
(* unless its undo failed too or something had been cut off before.           *)
FailureChangesNothing ==
  [][doing = "undo" /\ doing' = "idle" /\ ~spoilt' =>
       \A f \in Files : before[f] # None => current'[f] = before[f]]_vars

(* What is installed is of one build.                                         *)
OneBuild ==
  \A i \in DOMAIN Artifacts(LayoutIn(current)) :
    current["layout"] # None => current[Artifacts(LayoutIn(current))[i]] = current["layout"]

(* An operation that succeeds leaves one build in place if none before it     *)
(* failed and all builds have the same layout.                                *)
SuccessIsOneBuild ==
  doing = "idle" /\ answer = "ok" /\ faults = 0 /\ ~spoilt
  /\ (\A a, b \in 1..builds : layoutOf[a] = layoutOf[b])
    => OneBuild

(* Type invariant, nothing is lost, and an operation that says it succeeded   *)
(* has installed one build.                                                   *)
InstallationIsSound == TypeOK /\ NothingIsLost /\ SuccessIsOneBuild

(* Violated if a rollback follows a change of layout: one that succeeds puts  *)
(* the former executable and its layout back in one piece.                    *)
RollbackRestoresOneBuild ==
  doing = "idle" /\ answer = "ok" /\ faults = 0 /\ crashes = 0 => OneBuild
=============================================================================
