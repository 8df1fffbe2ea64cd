---------------------------- MODULE BoundedBuffer -----------------------------
(* BoundedUtf8Buffer (src/src/process/manager.ts): what is kept of the output *)
(* of a process, and how a client reads it by byte offsets.                   *)
(*                                                                            *)
(* A text is its sequence of bytes.  The first byte of a character is the     *)
(* number of its bytes, the others are Cont: all that the code looks at.      *)
EXTENDS Integers, Sequences, FiniteSetsExt

CONSTANTS MaxBytes,        \* maxOutputBytes
          Texts,           \* the texts that one append may bring
          MaxWritten       \* bound: how many bytes are written at all

VARIABLES chunks, totalBytes, retainedBytes, truncated,
          written          \* everything that was ever appended

vars == <<chunks, totalBytes, retainedBytes, truncated, written>>

Cont == 0

Max2(a, b) == IF a > b THEN a ELSE b
Min2(a, b) == IF a < b THEN a ELSE b

(* Buffer.concat, of the first k chunks and of all.                           *)
Joined(cs) ==
  LET upTo[k \in 0..Len(cs)] == IF k = 0 THEN <<>> ELSE upTo[k - 1] \o cs[k]
  IN upTo
Bytes(cs) == Joined(cs)[Len(cs)]

(* A text of whole characters: each is followed by another one or by nothing. *)
Whole(bytes) ==
  /\ bytes \in Seq(0..4)
  /\ bytes # <<>> => bytes[1] # Cont
  /\ \A i \in 0..(Len(bytes) - 1) :
       LET end == i + bytes[i + 1] IN
       bytes[i + 1] # Cont => end = Len(bytes) \/ (end < Len(bytes) /\ bytes[end + 1] # Cont)

BufferAssumption ==
  /\ MaxBytes \in Nat /\ MaxWritten \in Nat
  /\ \A text \in Texts : Whole(text)

Init ==
  /\ chunks = <<>>
  /\ totalBytes = 0 /\ retainedBytes = 0
  /\ truncated = FALSE
  /\ written = <<>>

-----------------------------------------------------------------------------

(* The first offset from start on (offsets count from zero) that does not lie *)
(* inside a character, or end.                                                *)
SafeStart(bytes, start, end) ==
  Min({i \in start..(end - 1) : bytes[i + 1] # Cont} \cup {Max2(start, end)})

\* Mutant: the tail begins where the limit falls, inside a character too.
TailAnywhere(bytes, max) == SubSeq(bytes, Max2(0, Len(bytes) - max) + 1, Len(bytes))

(* safeTail: the last max bytes, from the first whole character on.           *)
SafeTail(bytes, max) ==
  LET from == SafeStart(bytes, Max2(0, Len(bytes) - max), Len(bytes))
  IN SubSeq(bytes, from + 1, Len(bytes))

(* safeUtf8End: the end, or where the character begins that the end cuts.     *)
SafeEnd(bytes, start, end) ==
  LET lead == Max({start} \cup {i \in start..(end - 1) : bytes[i + 1] # Cont})
  IN IF end <= start \/ lead + bytes[lead + 1] = end THEN end ELSE lead

(* The trimming loop of append, with the count it keeps: n whole chunks go    *)
(* from the front, then the front of the first one that is left.              *)
Trim(cs, kept) ==
  LET left(k) == kept - Len(Joined(cs)[k])
      n == Min({k \in 0..Len(cs) : \/ left(k) <= MaxBytes \/ k = Len(cs)
                                  \/ Len(cs[k + 1]) > left(k) - MaxBytes})
      rest == SubSeq(cs, n + 1, Len(cs))
      cut == SafeTail(rest[1], Len(rest[1]) - (left(n) - MaxBytes))
  IN IF left(n) <= MaxBytes \/ rest = <<>>
     THEN [chunks |-> rest, kept |-> left(n)]
     ELSE [chunks |-> [rest EXCEPT ![1] = cut],
           kept |-> left(n) - (Len(rest[1]) - Len(cut))]

AppendText(text) ==
  LET kept == retainedBytes + Len(text)
      trimmed == Trim(Append(chunks, text), kept)
      tail == SafeTail(text, MaxBytes)
      large == Len(text) >= MaxBytes
  IN
  /\ text # <<>>
  /\ Len(written) + Len(text) <= MaxWritten
  /\ written' = written \o text
  /\ totalBytes' = totalBytes + Len(text)
  /\ chunks' = CASE large /\ tail = <<>> -> <<>>
                  [] large /\ tail # <<>> -> <<tail>>
                  [] OTHER -> trimmed.chunks
  /\ retainedBytes' = IF large THEN Len(tail) ELSE trimmed.kept
  /\ truncated' = (truncated \/ large \/ kept > MaxBytes)

Next == \E text \in Texts : AppendText(text)

Spec == Init /\ [][Next]_vars

-----------------------------------------------------------------------------

None == -1

(* read(offset, length), None for an argument that is left out.               *)
ReadBytes(offset, length) ==
  LET buffer == Bytes(chunks)
      retainedStart == totalBytes - retainedBytes
      requestedStart == IF offset = None THEN retainedStart ELSE offset
      start == Min2(totalBytes, Max2(requestedStart, retainedStart))
      requestedEnd == IF length = None THEN totalBytes ELSE Min2(totalBytes, start + length)
      relativeStart == Max2(0, start - retainedStart)
      relativeEnd == Max2(relativeStart, Min2(Len(buffer), requestedEnd - retainedStart))
      safeStart == SafeStart(buffer, relativeStart, relativeEnd)
      safeEnd == SafeEnd(buffer, safeStart, relativeEnd)
  IN [text |-> SubSeq(buffer, safeStart + 1, safeEnd),
      offset |-> retainedStart + safeStart,
      end |-> retainedStart + safeEnd,
      nextOffset |-> totalBytes,
      truncated |-> truncated \/ requestedStart < retainedStart]

-----------------------------------------------------------------------------

Boundary(i) == i = Len(written) \/ written[i + 1] # Cont

(* What is kept is the longest end of the output that fits and begins with a  *)
(* whole character, and the counters say so, however the chunks came: a limit *)
(* in the middle of a character or a chunk, a chunk as large as the limit     *)
(* (append, safeTail).                                                        *)
KeepsTheEnd ==
  LET from == Min({i \in 0..Len(written) : Len(written) - i <= MaxBytes /\ Boundary(i)})
  IN /\ Bytes(chunks) = SubSeq(written, from + 1, Len(written))
     /\ totalBytes = Len(written)
     /\ retainedBytes = Len(written) - from
     /\ retainedBytes < totalBytes => truncated

Offsets == {None} \cup 0..(MaxWritten + 1)
Lengths == {None} \cup 1..(MaxWritten + 1)

(* Whatever range is asked for, the cursor names whole characters of the      *)
(* output and the text is what is there; a client that goes on where the last *)
(* text ended misses nothing that was retained, and gets on as long as he     *)
(* asks for as many bytes as a character can have (read, safeUtf8Start,       *)
(* safeUtf8End).                                                              *)
ReadsAreTrue ==
  \A offset \in Offsets, length \in Lengths :
    LET r == ReadBytes(offset, length)
        first == totalBytes - retainedBytes
    IN /\ r.text = SubSeq(written, r.offset + 1, r.end)
       /\ r.offset <= r.end /\ r.end <= totalBytes
       /\ r.text # <<>> => Boundary(r.offset) /\ Boundary(r.end)
       /\ offset \in first..(totalBytes - 1) /\ Boundary(offset) =>
            /\ r.offset = offset
            /\ length = None => r.end = totalBytes
            /\ length >= 4 => r.end > offset

BufferIsSound == KeepsTheEnd /\ ReadsAreTrue
=============================================================================
