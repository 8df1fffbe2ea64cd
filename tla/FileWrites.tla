------------------------------ MODULE FileWrites ------------------------------
(* The tools that change a file (src/src/filesystem/edit.ts, files.ts and     *)
(* directories.ts: edit_block, write_file, write_file in append mode,         *)
(* move_file), several of them under way on the same path.  Nothing           *)
(* serialises them: the scheduler admits several heavy calls at a time.       *)
(*                                                                            *)
(* An operation makes at most one inode and gives it its own name.  A content *)
(* is the sequence of the operations that made it: a write begins a new one,  *)
(* an edit and an append add themselves to what they were applied to.         *)
EXTENDS Integers, Sequences

CONSTANTS Writes, Edits, Appends, Moves,
          Expecting,       \* the edits that give expected_sha256
          MaxTime,         \* bound of the clock
          Base, None, Rest

VARIABLES ms,              \* Date.now()
          at,              \* path -> inode, None for no file
          disk,            \* inode -> content
          stage,           \* how far each operation is
          fd,              \* write or append -> the inode it has open
          temp,            \* write -> its temporary path
          seen,            \* edit -> the content its client knew (expected_sha256)
          base,            \* edit -> the content it read
          staged           \* the edits whose temporary file exists

vars == <<ms, at, disk, stage, fd, temp, seen, base, staged>>

Ops == Writes \cup Edits \cup Appends \cup Moves
Inodes == {Base} \cup Writes \cup Edits \cup Appends
Target == <<"target">>
Other == <<"other">>

\* Mutant: the file is written where it is.
InPlace(t) == Target

(* `${target}.desktop-remote-${pid}-${Date.now()}.tmp`                        *)
TempAt(t) == <<"tmp", t>>
Paths == {Target, Other} \cup {TempAt(t) : t \in 0..MaxTime}

Init ==
  /\ ms = 0
  /\ at = [p \in Paths |-> IF p = Target THEN Base ELSE None]
  /\ disk = [i \in Inodes |-> IF i = Base THEN <<Base>> ELSE <<>>]
  /\ stage = [o \in Ops |-> "idle"]
  /\ fd = [o \in Writes \cup Appends |-> None]
  /\ temp = [w \in Writes |-> None]
  /\ seen = [e \in Edits |-> <<>>]
  /\ base = [e \in Edits |-> <<>>]
  /\ staged = {}

\* An operation is of one kind and not the file that was there; a time is counted.
FileAssumption ==
  /\ Writes \cap Edits = {} /\ Writes \cap Appends = {} /\ Writes \cap Moves = {}
  /\ Edits \cap Appends = {} /\ Edits \cap Moves = {} /\ Appends \cap Moves = {}
  /\ Base \notin Ops
  /\ None \notin Inodes
  /\ MaxTime \in Nat

To(o, s) == stage' = [stage EXCEPT ![o] = s]

-----------------------------------------------------------------------------

(* writeTextFile: writeFile opens the temporary path and truncates what it    *)
(* finds there, be it the file of another write of the same millisecond.      *)
OpenTemp(w) ==
  LET path == TempAt(ms)
      inode == IF at[path] = None THEN w ELSE at[path]
  IN
  /\ stage[w] = "idle"
  /\ temp' = [temp EXCEPT ![w] = path]
  /\ fd' = [fd EXCEPT ![w] = inode]
  /\ at' = [at EXCEPT ![path] = inode]
  /\ disk' = [disk EXCEPT ![inode] = <<>>]
  /\ To(w, "open")
  /\ UNCHANGED <<ms, seen, base, staged>>

(* The bytes of w go over what the inode has; a longer content stands out.    *)
Fill(w) ==
  LET i == fd[w] IN
  /\ stage[w] = "open"
  /\ \E rest \in IF disk[i] = <<>> THEN {<<>>} ELSE {<<>>, <<Rest>>} :
       disk' = [disk EXCEPT ![i] = <<w>> \o rest]
  /\ To(w, "full")
  /\ UNCHANGED <<ms, at, fd, temp, seen, base, staged>>

(* writeFile fails: the temporary file stays.                                 *)
FillFails(w) ==
  /\ stage[w] = "open"
  /\ To(w, "failed")
  /\ UNCHANGED <<ms, at, disk, fd, temp, seen, base, staged>>

RenameTemp(w) ==
  /\ stage[w] = "full"
  /\ at[temp[w]] # None
  /\ at' = [at EXCEPT ![Target] = at[temp[w]], ![temp[w]] = None]
  /\ To(w, "ok")
  /\ UNCHANGED <<ms, disk, fd, temp, seen, base, staged>>

(* The rename fails, for one because the path is gone: unlink, and throw.     *)
RenameFails(w) ==
  /\ stage[w] = "full"
  /\ at' = [at EXCEPT ![temp[w]] = None]
  /\ To(w, "failed")
  /\ UNCHANGED <<ms, disk, fd, temp, seen, base, staged>>

-----------------------------------------------------------------------------

(* The client reads the file and hashes it.                                   *)
ClientReads(e) ==
  /\ stage[e] = "idle"
  /\ at[Target] # None
  /\ seen' = [seen EXCEPT ![e] = disk[at[Target]]]
  /\ To(e, "seen")
  /\ UNCHANGED <<ms, at, disk, fd, temp, base, staged>>

(* editBlock up to its replacement: no file, a conflict, or a text in which   *)
(* the old string is not found as often as expected, end it here.             *)
EditReads(e) ==
  /\ stage[e] = "seen"
  /\ \/ /\ at[Target] # None
        /\ e \in Expecting => disk[at[Target]] = seen[e]
        /\ base' = [base EXCEPT ![e] = disk[at[Target]]]
        /\ To(e, "read")
     \/ /\ To(e, "failed")
        /\ UNCHANGED base
  /\ UNCHANGED <<ms, at, disk, fd, temp, seen, staged>>

(* stat of the target, and the temporary file of atomicReplace, whose name is *)
(* its own, up to its sync.                                                   *)
StageEdit(e) ==
  /\ stage[e] = "read"
  /\ at[Target] # None
  /\ disk' = [disk EXCEPT ![e] = base[e] \o <<e>>]
  /\ staged' = staged \cup {e}
  /\ To(e, "synced")
  /\ UNCHANGED <<ms, at, fd, temp, seen, base>>

RenameEdit(e) ==
  /\ stage[e] = "synced"
  /\ at' = [at EXCEPT ![Target] = e]
  /\ staged' = staged \ {e}
  /\ To(e, "ok")
  /\ UNCHANGED <<ms, disk, fd, temp, seen, base>>

(* Any of its calls fails: finally, the temporary file is unlinked.           *)
EditFails(e) ==
  /\ stage[e] \in {"read", "synced"}
  /\ staged' = staged \ {e}
  /\ To(e, "failed")
  /\ UNCHANGED <<ms, at, disk, fd, temp, seen, base>>

-----------------------------------------------------------------------------

(* appendTextFile: the file is opened for appending, made if there is none,   *)
(* and written, wherever it is by then.                                       *)
AppendOpens(a) ==
  LET inode == IF at[Target] = None THEN a ELSE at[Target] IN
  /\ stage[a] = "idle"
  /\ fd' = [fd EXCEPT ![a] = inode]
  /\ at' = [at EXCEPT ![Target] = inode]
  /\ To(a, "open")
  /\ UNCHANGED <<ms, disk, temp, seen, base, staged>>

AppendWrites(a) ==
  /\ stage[a] = "open"
  /\ \/ /\ disk' = [disk EXCEPT ![fd[a]] = Append(@, a)]
        /\ To(a, "ok")
     \/ /\ To(a, "failed")
        /\ UNCHANGED disk
  /\ UNCHANGED <<ms, at, fd, temp, seen, base, staged>>

(* moveFile: a rename of the target to another path.                          *)
MoveAway(m) ==
  /\ stage[m] = "idle"
  /\ IF at[Target] = None
     THEN /\ To(m, "failed")
          /\ UNCHANGED at
     ELSE /\ To(m, "ok")
          /\ at' = [at EXCEPT ![Other] = at[Target], ![Target] = None]
  /\ UNCHANGED <<ms, disk, fd, temp, seen, base, staged>>

Tick ==
  /\ ms < MaxTime
  /\ ms' = ms + 1
  /\ UNCHANGED <<at, disk, stage, fd, temp, seen, base, staged>>

Next ==
  \/ \E w \in Writes : OpenTemp(w) \/ Fill(w) \/ FillFails(w) \/ RenameTemp(w) \/ RenameFails(w)
  \/ \E e \in Edits : \/ ClientReads(e) \/ EditReads(e) \/ StageEdit(e)
                      \/ RenameEdit(e) \/ EditFails(e)
  \/ \E a \in Appends : AppendOpens(a) \/ AppendWrites(a)
  \/ \E m \in Moves : MoveAway(m)
  \/ Tick

Spec == Init /\ [][Next]_vars

-----------------------------------------------------------------------------

(* Two writes have the same temporary file open, or had.                      *)
Collided == \E v, w \in Writes : v # w /\ fd[v] # None /\ fd[v] = fd[w]

Meant(i) == CASE i \in Writes -> <<i>>
              [] i \in Edits -> base[i] \o <<i>>
              [] i = Base -> <<Base>>
              [] OTHER -> <<>>

Whole(i) ==
  /\ Len(Meant(i)) <= Len(disk[i]) /\ SubSeq(disk[i], 1, Len(Meant(i))) = Meant(i)
  /\ \A k \in DOMAIN disk[i] : k > Len(Meant(i)) => disk[i][k] \in Appends

(* Unless two writes fell into the same millisecond: what is at a path that   *)
(* clients use is whole, the content that one operation meant to leave there  *)
(* and the appends to it, and has nothing of an operation that was answered   *)
(* with a failure; when all have been answered, the only temporary files left *)
(* are those of writes whose writeFile failed (atomicReplace, writeTextFile). *)
TargetIsMeant ==
  ~Collided =>
    /\ \A p \in {Target, Other} : at[p] # None =>
         /\ Whole(at[p])
         /\ \A k \in DOMAIN disk[at[p]] :
              disk[at[p]][k] \in Ops => stage[disk[at[p]][k]] # "failed"
    /\ \A p \in Paths \ {Target, Other} : at[p] # None =>
         \E w \in Writes : /\ temp[w] = p
                           /\ fd[w] = at[p]
                           /\ stage[w] # "ok"
    /\ \A e \in staged : stage[e] = "synced"

(* Violated: an edit that says what it expects overwrites nothing else, were  *)
(* the file changed since the client read it (verifyExpectedHash).            *)
EditsWhatItExpected ==
  [][\A e \in Expecting : stage[e] = "synced" /\ stage'[e] = "ok" /\ at[Target] # None =>
       disk[at[Target]] = seen[e]]_vars
=============================================================================
