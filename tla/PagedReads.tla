------------------------------ MODULE PagedReads ------------------------------
(* Reading by pages (src/src/filesystem/files.ts: readTextFile, readUrl;      *)
(* directories.ts: listDirectory): the client asks for a page, and for the    *)
(* one behind it as long as it is told that there is more.  Every page walks  *)
(* the source from its beginning, which may have changed since the page       *)
(* before.                                                                    *)
(*                                                                            *)
(* A source is a sequence of items (lines, or directory entries in the order  *)
(* of the walk), an item its name and its size in bytes.                      *)
EXTENDS Integers, Sequences, FiniteSetsExt

CONSTANTS Sizes,           \* the sizes of the items of the source
          Takes,           \* the page lengths that are asked for
          MaxBytes,        \* maxBytes of a URL
          MaxRemovals, MaxInsertions   \* bounds: how often the source changes

VARIABLES kind,            \* which of the readers
          source,
          removed, inserted,           \* the items that went and came
          offset, take,    \* what the page is asked for
          phase,           \* idle, reading, finished
          bytesRead,       \* of a URL
          position,        \* items that the walk has passed
          page,            \* the items collected
          more,            \* hasMore
          guard,           \* hitByteGuard
          total,           \* totalLines, None if it is left out
          got              \* the pages a client has, one behind the other

vars == <<kind, source, removed, inserted, offset, take, phase, bytesRead,
          position, page, more, guard, total, got>>

PagesAssumption ==
  /\ Sizes \in Seq(Nat \ {0})
  /\ Takes \subseteq Nat
  /\ MaxBytes \in Nat

Kinds == {"small text", "large text", "url", "directory"}
None == -1

Item(name, size) == [name |-> name, size |-> size]

(* Where the n-th item of the source ends.                                    *)
EndOf[n \in 0..Len(source)] == IF n = 0 THEN 0 ELSE EndOf[n - 1] + source[n].size

Init ==
  /\ kind \in Kinds
  /\ source = [i \in 1..Len(Sizes) |-> Item(i, Sizes[i])]
  /\ removed = {} /\ inserted = {}
  /\ offset = 0 /\ take \in Takes
  /\ phase = "reading"
  /\ bytesRead = 0 /\ position = 0
  /\ page = <<>> /\ more = FALSE /\ guard = FALSE /\ total = None
  /\ got = <<>>

sourceVars == <<kind, source, removed, inserted>>

-----------------------------------------------------------------------------

\* Mutant: the walk ends with the page, without looking for an item behind it.
NextItemUpToThePage ==
  /\ phase = "reading" /\ kind # "url"
  /\ position < Len(source)
  /\ LET inPage == position >= offset
         full == inPage /\ Len(page) + 1 >= take
     IN /\ page' = IF inPage THEN Append(page, source[position + 1]) ELSE page
        /\ more' = (more \/ full)
        /\ position' = position + 1
        /\ IF full THEN phase' = "finished" ELSE UNCHANGED phase
  /\ UNCHANGED <<sourceVars, offset, take, bytesRead, guard, total, got>>

(* streamReadLines and listDirectoryPage: one item of the walk.  A short text *)
(* is read to its end to count it.                                            *)
NextItem ==
  /\ phase = "reading" /\ kind # "url"
  /\ position < Len(source)
  /\ LET inPage == position >= offset
         full == Len(page) >= take
     IN /\ page' = IF inPage /\ ~full THEN Append(page, source[position + 1]) ELSE page
        /\ more' = (more \/ (inPage /\ full))
        /\ position' = position + 1
        /\ IF inPage /\ full /\ kind # "small text"
           THEN phase' = "finished" ELSE UNCHANGED phase
  /\ UNCHANGED <<sourceVars, offset, take, bytesRead, guard, total, got>>

EndOfWalk ==
  /\ phase = "reading" /\ kind # "url"
  /\ position >= Len(source)
  /\ phase' = "finished"
  /\ total' = IF kind = "directory" THEN None ELSE position
  /\ UNCHANGED <<sourceVars, offset, take, bytesRead, position, page, more, guard, got>>

-----------------------------------------------------------------------------

(* consumePendingLines: the lines that the bytes complete, up to the one      *)
(* behind the page.                                                           *)
Consume(lines) ==
  LET last == IF lines > offset + take THEN offset + take ELSE lines IN
  /\ page' = SubSeq(source, offset + 1, last)
  /\ position' = IF lines > offset + take THEN last + 1 ELSE last

(* streamUrlLines: the next n bytes arrive.                                   *)
Chunk(n) ==
  LET remaining == MaxBytes - bytesRead
      taken == IF n > remaining THEN remaining ELSE n
      read == bytesRead + taken
      lines == Max({k \in 0..Len(source) : EndOf[k] <= read})
      beyond == lines > offset + take
      cut == taken < n
      pending == read > EndOf[IF beyond THEN offset + take + 1 ELSE lines]
  IN
  /\ phase = "reading" /\ kind = "url"
  /\ bytesRead + n <= EndOf[Len(source)]
  /\ bytesRead' = read
  /\ Consume(lines)
  /\ guard' = cut
  /\ more' = (beyond \/ (cut /\ (pending \/ Len(page') >= take)))
  /\ phase' = IF beyond \/ cut THEN "finished" ELSE "reading"
  /\ UNCHANGED <<sourceVars, offset, take, total, got>>

(* The body ends, and with it its last line.                                  *)
EndOfBody ==
  /\ phase = "reading" /\ kind = "url"
  /\ bytesRead = EndOf[Len(source)]
  /\ phase' = "finished"
  /\ total' = position
  /\ UNCHANGED <<sourceVars, offset, take, bytesRead, position, page, more, guard, got>>

-----------------------------------------------------------------------------

(* The page is answered; the client asks for the next one if there is more,   *)
(* at offset plus length, which is what the cursor of a directory says.       *)
Truncated == more \/ guard

NextPage ==
  /\ phase = "finished"
  /\ Truncated
  /\ got' = got \o page
  /\ offset' = offset + Len(page)
  /\ take' \in Takes
  /\ phase' = "reading"
  /\ bytesRead' = 0 /\ position' = 0
  /\ page' = <<>> /\ more' = FALSE /\ guard' = FALSE /\ total' = None
  /\ UNCHANGED sourceVars

(* The signal aborts the read: the client has what it had.                    *)
Abort ==
  /\ phase = "reading"
  /\ phase' = "aborted"
  /\ UNCHANGED <<sourceVars, offset, take, bytesRead, position, page, more, guard, total, got>>

(* Somebody changes the source between two pages.                             *)
RemoveItem(i) ==
  /\ phase = "finished"
  /\ Cardinality(removed) < MaxRemovals
  /\ removed' = removed \cup {source[i].name}
  /\ source' = SubSeq(source, 1, i - 1) \o SubSeq(source, i + 1, Len(source))
  /\ UNCHANGED <<kind, inserted, offset, take, phase, bytesRead, position, page,
                 more, guard, total, got>>

InsertItem(i) ==
  LET name == Len(Sizes) + 1 + Cardinality(inserted) IN
  /\ phase = "finished"
  /\ Cardinality(inserted) < MaxInsertions
  /\ inserted' = inserted \cup {name}
  /\ source' = SubSeq(source, 1, i - 1) \o <<Item(name, 1)>> \o SubSeq(source, i, Len(source))
  /\ UNCHANGED <<kind, removed, offset, take, phase, bytesRead, position, page,
                 more, guard, total, got>>

Next ==
  \/ NextItem \/ EndOfWalk \/ EndOfBody \/ NextPage \/ Abort
  \/ \E n \in 1..(MaxBytes + 1) : Chunk(n)
  \/ \E i \in 1..Len(source) : RemoveItem(i)
  \/ \E i \in 1..(Len(source) + 1) : InsertItem(i)

Spec == Init /\ [][Next]_vars

-----------------------------------------------------------------------------

Names(items) == {items[i].name : i \in DOMAIN items}
Repeated(items) == Len(items) - Cardinality(Names(items))

Unchanged == removed = {} /\ inserted = {}

(* What a page says is so, whatever the chunks in which a body arrives: a     *)
(* page without more is the end of the source, a page with more is full (the  *)
(* byte guard may cut a URL's), and a count is that of all the items.  While  *)
(* nobody changes the source the pages are its items in order; somebody who   *)
(* does makes the client miss at most as many items as were removed and see   *)
(* at most as many twice as were inserted (streamReadLines, streamUrlLines,   *)
(* listDirectoryPage).                                                        *)
PagesAreTrue ==
  /\ Len(page) <= take
  /\ Unchanged => got \o page = SubSeq(source, 1, Len(got \o page))
  /\ Repeated(got \o page) <= Cardinality(inserted)
  /\ phase = "finished" /\ Unchanged =>
       /\ ~Truncated => got \o page = source
       /\ more => Len(got \o page) < Len(source)
       /\ Truncated => Len(page) = take \/ guard
       /\ total # None => total = Len(source)
  /\ phase = "finished" /\ ~Truncated =>
       Cardinality((1..Len(Sizes)) \ Names(got \o page)) <= Cardinality(removed)
=============================================================================
