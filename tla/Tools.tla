-------------------------------- MODULE Tools --------------------------------
(***************************************************************************)
(* What the tools keep between calls, and what they do to files: the       *)
(* processes, their output, a search, the writes to one file, the reading  *)
(* by pages, and the decoder of the frames in which calls come.  These     *)
(* components share no state, so a behaviour moves one of them (focus) and *)
(* leaves the others where they begin.                                     *)
(***************************************************************************)
EXTENDS ManagedProcesses, Sequences

CONSTANTS
  MaxOutput, Texts, MaxWritten,                          \* a process's output
  Tree, Named, Contexts, Limits, PageSizes,              \* a search
  Writes, BlockEdits, Expecting, Appends, Moves,         \* writes to a file
  MaxMs, Base, NoFile, Rest,
  ItemSizes, Takes, MaxUrlBytes, MaxRemovals, MaxInsertions,   \* reading by pages
  FrameSizes, MaxFrameBytes, MaxFrames                   \* a connection

VARIABLES
  focus,
  chunks, totalBytes, retainedBytes, truncated, written,               \* a process's output
  status, listed, task, options, overtime, results, cut, file, line,   \* a search
  pending, before, unread, pages, done, stopper,
  ms, at, disk, stage, fd, temp, seen, base, staged,                   \* writes to a file
  kind, source, removed, inserted, offset, take, phase, bytesRead,     \* reading by pages
  position, page, more, guard, total, got,
  frames, wire, remainder, handled, open                               \* a connection

Output == INSTANCE BoundedBuffer WITH MaxBytes <- MaxOutput
Search == INSTANCE SearchJob WITH truncated <- cut
Edits == INSTANCE FileWrites WITH Edits <- BlockEdits, MaxTime <- MaxMs, None <- NoFile
Paging == INSTANCE PagedReads WITH Sizes <- ItemSizes, MaxBytes <- MaxUrlBytes
Connection == INSTANCE FrameStream WITH Sizes <- FrameSizes

\* What is appended to an output are whole characters.
ASSUME TextsAreWhole == Output!BufferAssumption

\* Every operation on the file is of one kind, and an inode of its own.
ASSUME OperationsAreApart == Edits!FileAssumption

\* Sizes and limits are numbers.
ASSUME FramesHaveSizes == Connection!FrameAssumption

\* A tree has files, a file has lines with matches, and what is asked for are numbers.
ASSUME SearchIsInATree == Search!SearchAssumption

\* Items and pages have sizes, and a URL a limit.
ASSUME ItemsHaveSizes == Paging!PagesAssumption

processVars == vars
outputVars == <<chunks, totalBytes, retainedBytes, truncated, written>>
searchVars == <<status, listed, task, options, overtime, results, cut, file, line,
                pending, before, unread, pages, done, stopper>>
fileVars == <<ms, at, disk, stage, fd, temp, seen, base, staged>>
pagingVars == <<kind, source, removed, inserted, offset, take, phase, bytesRead,
                position, page, more, guard, total, got>>
frameVars == <<frames, wire, remainder, handled, open>>

toolVars == <<focus, processVars, outputVars, searchVars, fileVars, pagingVars, frameVars>>

ToolsInit ==
  /\ focus \in {"processes", "output", "search", "files", "paging", "frames"}
  /\ Init /\ Output!Init /\ Search!Init /\ Edits!Init /\ Connection!Init
  /\ Paging!Init
  /\ focus # "paging" => kind = "directory" /\ take = 1

Processes ==
  /\ focus = "processes" /\ Next
  /\ UNCHANGED <<focus, outputVars, searchVars, fileVars, pagingVars, frameVars>>
OutputComes ==
  /\ focus = "output" /\ Output!Next
  /\ UNCHANGED <<focus, processVars, searchVars, fileVars, pagingVars, frameVars>>
SearchGoesOn ==
  /\ focus = "search" /\ Search!Next
  /\ UNCHANGED <<focus, processVars, outputVars, fileVars, pagingVars, frameVars>>
FilesChange ==
  /\ focus = "files" /\ Edits!Next
  /\ UNCHANGED <<focus, processVars, outputVars, searchVars, pagingVars, frameVars>>
PagesAreRead ==
  /\ focus = "paging" /\ Paging!Next
  /\ UNCHANGED <<focus, processVars, outputVars, searchVars, fileVars, frameVars>>
FramesCome ==
  /\ focus = "frames" /\ Connection!Next
  /\ UNCHANGED <<focus, processVars, outputVars, searchVars, fileVars, pagingVars>>

ToolsNext ==
  \/ Processes \/ OutputComes \/ SearchGoesOn
  \/ FilesChange \/ PagesAreRead \/ FramesCome

ToolsSpec == ToolsInit /\ [][ToolsNext]_toolVars /\ Fairness /\ Search!Fairness

\* A component that is not in focus is where it began.
BufferIsSound == focus = "output" => Output!BufferIsSound
ResultsAreSound == focus = "search" => Search!ResultsAreSound
StoppedIsFinal == Search!StoppedIsFinal
SearchesEnd == Search!SearchesEnd
TargetIsMeant == focus = "files" => Edits!TargetIsMeant
PagesAreTrue == focus = "paging" => Paging!PagesAreTrue
ChunksDoNotMatter == focus = "frames" => Connection!ChunksDoNotMatter
=============================================================================
