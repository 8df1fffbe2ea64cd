------------------------------ MODULE RotatingLog ------------------------------
(* RotatingDaemonLog (src/src/logging/rotating-log.ts): lines that are        *)
(* appended to a file, which is renamed out of the way when the next line     *)
(* would make it too large.  The daemon has a log of its own; the MCP         *)
(* processes share one and each has only its own chain of writes.             *)
EXTENDS Integers, Sequences, FiniteSets, FiniteSetsExt

CONSTANTS Writers,        \* the processes that log to the file
          FileCount,      \* fileCount
          MaxBytes,       \* maxBytes
          LineSizes,      \* sizes of encoded lines, none above MaxBytes (encodeBoundedRecord)
          MaxLines        \* bound: lines written

VARIABLES files,          \* the lines of path, path.1, path.2, ...; oldest first in each
          doing,          \* what each writer is at, of the first operation of its chain
          line,           \* the line it writes
          written,        \* how many lines were begun
          log,            \* history: all lines in the order they were appended
          overlapped      \* history: two processes rotated at the same time

vars == <<files, doing, line, written, log, overlapped>>

(* FileCount and MaxBytes are bounded from below by the constructor, a line   *)
(* from above by encodeBoundedRecord.                                         *)
LogAssumption ==
  /\ IsFiniteSet(Writers)
  /\ FileCount \in Nat \ {0} /\ MaxBytes \in Nat /\ MaxLines \in Nat
  /\ LineSizes # {} /\ LineSizes \subseteq 1..MaxBytes

Newest == 0
Oldest == FileCount - 1

Size(lines) ==
  LET size[n \in 0..Len(lines)] == IF n = 0 THEN 0 ELSE size[n - 1] + lines[n][2]
  IN size[Len(lines)]

\* Mutant: the newest file stays where it is.
NewestStays == [i \in 1..FileCount - 1 |-> FileCount - i]

(* rotate: remove the oldest, rename the others from the oldest to the        *)
(* newest; a log of one file is only removed.                                 *)
Rotation == [i \in 1..FileCount |-> FileCount - i]

Init ==
  /\ files = [i \in Newest..Oldest |-> <<>>]
  /\ doing = [w \in Writers |-> <<>>]
  /\ line = [w \in Writers |-> <<0, 0>>]
  /\ written = 0 /\ log = <<>> /\ overlapped = FALSE

Busy(w) == line[w] # <<0, 0>>
Rotates(w) == doing[w] # <<>>

Ends(w) ==
  /\ doing' = [doing EXCEPT ![w] = <<>>]
  /\ line' = [line EXCEPT ![w] = <<0, 0>>]

(* The next operation of the chain: the size decides, once, whether to rotate *)
Write(w) ==
  /\ ~Busy(w) /\ written < MaxLines
  /\ written' = written + 1
  /\ \E size \in LineSizes :
       /\ line' = [line EXCEPT ![w] = <<written + 1, size>>]
       /\ doing' = [doing EXCEPT ![w] =
            IF Size(files[Newest]) + size > MaxBytes THEN Rotation ELSE <<>>]
       /\ overlapped' = (overlapped \/
            (Size(files[Newest]) + size > MaxBytes /\ \E other \in Writers \ {w} : Busy(other)))
  /\ UNCHANGED <<files, log>>

(* rm or renameIfPresent of the next file of the rotation; a file that is not *)
(* there (any more) is passed over.                                           *)
RotateOne(w) ==
  /\ Rotates(w)
  /\ LET i == Head(doing[w]) IN
     files' = IF i = Oldest THEN [files EXCEPT ![i] = <<>>]
              ELSE IF files[i] = <<>> THEN files
              ELSE [files EXCEPT ![i + 1] = files[i], ![i] = <<>>]
  /\ doing' = [doing EXCEPT ![w] = Tail(@)]
  /\ overlapped' = (overlapped \/ \E other \in Writers \ {w} : Busy(other))
  /\ UNCHANGED <<line, written, log>>

(* appendAndSync.                                                             *)
AppendLine(w) ==
  /\ Busy(w) /\ ~Rotates(w)
  /\ files' = [files EXCEPT ![Newest] = Append(@, line[w])]
  /\ log' = Append(log, line[w])
  /\ Ends(w)
  /\ UNCHANGED <<written, overlapped>>

(* A step fails, and the chain goes on with the next operation; or the        *)
(* process dies and another one is started.                                   *)
Fails(w) ==
  /\ Busy(w)
  /\ Ends(w)
  /\ UNCHANGED <<files, written, log, overlapped>>

Next == \E w \in Writers : Write(w) \/ RotateOne(w) \/ AppendLine(w) \/ Fails(w)

Spec == Init /\ [][Next]_vars

-----------------------------------------------------------------------------

OldestFirst(contents) ==
  LET kept[n \in 0..FileCount] ==       \* what the n oldest files hold
        IF n = 0 THEN <<>> ELSE kept[n - 1] \o contents[FileCount - n]
  IN kept[FileCount]
Longest == Max(LineSizes)

TypeOK ==
  /\ written \in 0..MaxLines /\ Len(log) <= written
  /\ DOMAIN files = Newest..Oldest
  /\ \A w \in Writers : Rotates(w) => Busy(w)

(* Type invariant; every file stays within its bound, but for one line of     *)
(* every other process that had looked at its size before; and what the files *)
(* hold, oldest first, is the newest of what was appended, in order, whatever *)
(* step of a rotation fails or is the last of its process: only a rotation    *)
(* that overlaps the work of another process may lose lines in the middle     *)
(* (write, rotate).                                                           *)
LogKeepsTheNewest ==
  /\ TypeOK
  /\ \A i \in DOMAIN files :
       Size(files[i]) <= MaxBytes + (Cardinality(Writers) - 1) * Longest
  /\ ~overlapped => \E n \in 0..Len(log) : OldestFirst(files) = SubSeq(log, n + 1, Len(log))
=============================================================================
