---------------------------- MODULE SessionHistory ----------------------------
(***************************************************************************)
(* HistoryStore (src/daemon/history-store.ts) under the daemon             *)
(* (src/daemon/daemon.ts): every event is consumed by the session in       *)
(* memory and queued for the history file, which is replaced by a          *)
(* checkpoint of the session when it has grown too large, and replayed     *)
(* when the daemon starts.  The process may die between any two steps and  *)
(* in the middle of an append; writes may fail.                            *)
(*                                                                         *)
(* Sizes are counted in rows: an event is one, a checkpoint as many as it  *)
(* holds.                                                                  *)
(***************************************************************************)
EXTENDS RuntimeSession

CONSTANTS
  CompactAt,      \* compactAtBytes; a checkpoint of HistoryLimit rows fits below maxBytes
  MaxFaults       \* bound on crashes and failed writes together

VARIABLES
  up,             \* the daemon runs
  progress,       \* what has become of each call
  rows,           \* the session in memory
  chain,          \* writeChain: appends whose operation has not ended
  writing,        \* the first of them has a checkpoint in its temporary file
  file,           \* the lines of the history file
  written,        \* history: the session that what was written should give back
  damaged,        \* history: a write failed, and no checkpoint has replaced the file since
  faults

vars == <<up, progress, rows, chain, writing, file, written, damaged, faults>>

(***************************************************************************)
(* A line is whole, or it was cut when the process died or the disk was    *)
(* full: in its middle, or just before its newline.                        *)
(***************************************************************************)
Ends == {"whole", "unended", "cut"}
Event(row, end) == [kind |-> "event", row |-> row, end |-> end]
Checkpoint(session) == [kind |-> "checkpoint", rows |-> session, end |-> "whole"]

Size(lines) ==
  LET size[n \in 0..Len(lines)] ==
        IF n = 0 THEN 0
        ELSE size[n - 1] + IF lines[n].kind = "checkpoint" THEN Len(lines[n].rows) ELSE 1
  IN size[Len(lines)]

\* A line that lacks its newline runs into the one that follows.
Corrupt(lines, i) == lines[i].end = "cut" \/ (lines[i].end = "unended" /\ i < Len(lines))

\* loadInto stops at the first line that does not parse.
Readable(lines, i) == \A j \in 1..i : ~ Corrupt(lines, j)

Replay(session, line) ==
  IF line.kind = "checkpoint" THEN ConsumeAll(<<>>, line.rows) ELSE Consume(session, line.row)

Loaded(lines) ==
  LET after[n \in 0..Len(lines)] ==
        IF n = 0 THEN <<>>
        ELSE IF Readable(lines, n) THEN Replay(after[n - 1], lines[n]) ELSE after[n - 1]
  IN after[Len(lines)]

\* Sizes and bounds are counts.
HistoryAssumption ==
  HistoryLimit \in Nat \ {0} /\ CompactAt \in Nat /\ MaxFaults \in Nat

Init ==
  /\ up = TRUE
  /\ progress = [k \in Calls |-> "new"]
  /\ rows = <<>>
  /\ chain = <<>>
  /\ writing = FALSE
  /\ file = <<>>
  /\ written = <<>>
  /\ damaged = FALSE
  /\ faults = 0

-----------------------------------------------------------------------------
\* DesktopRemoteDaemon.consume: the append takes its snapshot now and its turn later.
Record(row) ==
  /\ up
  /\ rows' = Consume(rows, row)
  /\ chain' = Append(chain, [row |-> row, snapshot |-> rows'])
  /\ UNCHANGED <<up, writing, file, written, damaged, faults>>

CallStarts(k) ==
  /\ progress[k] = "new"
  /\ progress' = [progress EXCEPT ![k] = "running"]
  /\ Record([call |-> k, status |-> "running"])

CallEnds(k) ==
  /\ progress[k] = "running"
  /\ progress' = [progress EXCEPT ![k] = "done"]
  /\ Record([call |-> k, status |-> "done"])

\* The first append of the chain has its turn.
Turn == up /\ chain # <<>> /\ ~ writing

TooLarge == Size(file) >= CompactAt

AppendLine ==
  /\ Turn /\ ~ TooLarge
  /\ file' = Append(file, Event(Head(chain).row, "whole"))
  /\ written' = Consume(written, Head(chain).row)
  /\ chain' = Tail(chain)
  /\ UNCHANGED <<up, progress, rows, writing, damaged, faults>>

\* Mutant: the history file itself is opened for the checkpoint.
WriteInPlace ==
  /\ Turn /\ TooLarge
  /\ writing' = TRUE
  /\ file' = <<>>
  /\ UNCHANGED <<up, progress, rows, chain, written, damaged, faults>>

\* writeCheckpoint: the temporary file is written and synced.
WriteTemporary ==
  /\ Turn /\ TooLarge
  /\ writing' = TRUE
  /\ UNCHANGED <<up, progress, rows, chain, file, written, damaged, faults>>

\* Mutant: the checkpoint holds the session as it is now.
RenameCurrent ==
  /\ up /\ writing
  /\ writing' = FALSE
  /\ file' = <<Checkpoint(rows)>>
  /\ written' = rows
  /\ chain' = Tail(chain)
  /\ damaged' = FALSE
  /\ UNCHANGED <<up, progress, rows, faults>>

\* It becomes the history file, with the session as it was when its event came.
Rename ==
  /\ up /\ writing
  /\ writing' = FALSE
  /\ file' = <<Checkpoint(Head(chain).snapshot)>>
  /\ written' = Head(chain).snapshot
  /\ chain' = Tail(chain)
  /\ damaged' = FALSE
  /\ UNCHANGED <<up, progress, rows, faults>>

Fault == faults < MaxFaults /\ faults' = faults + 1

\* What an append that does not succeed leaves in the file.
PartOf(row) == {<<>>, <<Event(row, "cut")>>, <<Event(row, "unended")>>}

LeavesPart(appending) ==
  \E part \in IF appending THEN PartOf(Head(chain).row) ELSE {<<>>} :
    /\ file' = file \o part
    /\ written' = IF part # <<>> /\ part[1].end = "unended"
                    THEN Consume(written, part[1].row) ELSE written

\* A write fails: the chain goes on with the next append.  Of an append some part
\* may have been written, of a checkpoint the temporary file is removed.
WriteFails ==
  /\ Turn \/ (up /\ writing)
  /\ Fault
  /\ LeavesPart(~ TooLarge)
  /\ writing' = FALSE
  /\ chain' = Tail(chain)
  /\ damaged' = TRUE
  /\ UNCHANGED <<up, progress, rows>>

\* The process dies, its calls with it, at any moment of an append.
Crash ==
  /\ up
  /\ Fault
  /\ up' = FALSE
  /\ LeavesPart(Turn /\ ~ TooLarge)
  /\ progress' = [k \in Calls |-> IF progress[k] = "running" THEN "done" ELSE progress[k]]
  /\ rows' = <<>>
  /\ chain' = <<>>
  /\ writing' = FALSE
  /\ UNCHANGED damaged

\* start: the history is loaded before anything else runs.
Restart ==
  /\ ~ up
  /\ up' = TRUE
  /\ rows' = Loaded(file)
  /\ written' = Loaded(file)
  /\ damaged' = \E i \in DOMAIN file : file[i].end # "whole"
  /\ UNCHANGED <<progress, chain, writing, file, faults>>

Next ==
  \/ \E k \in Calls : CallStarts(k) \/ CallEnds(k)
  \/ AppendLine \/ WriteTemporary \/ Rename \/ WriteFails \/ Crash \/ Restart

Spec == Init /\ [][Next]_vars

-----------------------------------------------------------------------------
(***************************************************************************)
(* Properties.                                                             *)
(***************************************************************************)
TypeOK ==
  /\ progress \in [Calls -> {"new", "running", "done"}]
  /\ IsSession(rows) /\ IsSession(written)
  /\ \A i \in DOMAIN chain : chain[i].row \in Row /\ IsSession(chain[i].snapshot)
  /\ writing => up /\ chain # <<>>
  /\ \A i \in DOMAIN file : file[i].end \in Ends
  /\ faults \in 0..MaxFaults

Queued == [i \in DOMAIN chain |-> chain[i].row]

\* Nothing falls between the file and the queue: at every moment, in the middle of a
\* compaction too, the file and the appends still waiting give back the session in
\* memory.  A failed write breaks this, and the next checkpoint mends it.
FileAndQueueMakeTheSession ==
  up /\ ~ damaged => ConsumeAll(Loaded(file), Queued) = rows

\* Compaction keeps the file within its ceiling.
FileIsBounded == Size(file) <= CompactAt \/ Size(file) <= HistoryLimit

\* Nothing is lost between memory, queue and file, and the file does not grow.
FileIsSound == TypeOK /\ FileAndQueueMakeTheSession /\ FileIsBounded

\* What is loaded is replaced by what it is after the next event.
LoadsOn ==
  ~ damaged /\ Loaded(file') # Loaded(file) =>
    chain # <<>> /\ Loaded(file') \in {Consume(Loaded(file), Head(chain).row), Head(chain).snapshot}

\* What a restart would read back is only ever replaced by what it would be after the
\* next event: no crash, in a compaction or elsewhere, takes an earlier row away.
LoadsForward == [][LoadsOn]_vars

\* What was written is what the next start loads.
WrittenIsLoaded == Loaded(file) = written
=============================================================================
