------------------------------ MODULE FrameStream ------------------------------
(* One direction of an IPC connection (src/src/ipc/framing.ts, protocol.ts):  *)
(* frames are written as lines and read from chunks that are cut anywhere.    *)
(* The reader is the daemon (ipc-server.ts) or a client (ipc-client.ts): it   *)
(* decodes a chunk, then parses and handles its messages one by one, and      *)
(* drops the connection at the first error.                                   *)
(*                                                                            *)
(* A frame is its size and what it is: a valid message, JSON that is none, or *)
(* no JSON at all.  A byte is the number of its frame, 0 the newline.         *)
EXTENDS Integers, Sequences, FiniteSetsExt

CONSTANTS Sizes,          \* sizes of frames without the newline
          MaxFrameBytes,  \* MAX_IPC_FRAME_BYTES
          MaxFrames       \* bound: frames written

VARIABLES frames,         \* what has been written so far
          wire,           \* bytes that have not been delivered yet
          remainder,      \* of the decoder
          handled,        \* the frames that were handled, by number
          open

vars == <<frames, wire, remainder, handled, open>>

FrameAssumption ==
  /\ Sizes \subseteq Nat
  /\ MaxFrameBytes \in Nat /\ MaxFrames \in Nat

Newline == 0
Whats == {"message", "no message", "no json"}

Bytes(i, size) == Append([j \in 1..size |-> i], Newline)

Init ==
  /\ frames = <<>> /\ wire = <<>> /\ remainder = <<>>
  /\ handled = <<>> /\ open = TRUE

(* encodeFrame refuses what is too large; another writer may not.             *)
WriteFrame(size, what) ==
  /\ open /\ Len(frames) < MaxFrames
  /\ frames' = Append(frames, [size |-> size, what |-> what])
  /\ wire' = wire \o Bytes(Len(frames) + 1, size)
  /\ UNCHANGED <<remainder, handled, open>>

\* Mutant: a chunk begins with an empty remainder.
FreshDecoder == [remainder |-> <<>>, decoded |-> <<>>, failed |-> FALSE]

Decoder == [remainder |-> remainder, decoded |-> <<>>, failed |-> FALSE]

(* parseCurrent: the bytes of one frame, all of them, and only if it is JSON. *)
IsJson(bytes) ==
  /\ \A j \in DOMAIN bytes : bytes[j] = bytes[1]
  /\ Len(bytes) = frames[bytes[1]].size
  /\ frames[bytes[1]].what # "no json"

(* push, a byte at a time: an empty line is passed over, a line that is too   *)
(* long or no JSON fails the whole chunk.                                     *)
Push(d, byte) ==
  IF d.failed THEN d
  ELSE IF byte # Newline THEN
    IF Len(d.remainder) = MaxFrameBytes THEN [d EXCEPT !.failed = TRUE, !.remainder = <<>>]
    ELSE [remainder |-> Append(d.remainder, byte), decoded |-> d.decoded, failed |-> FALSE]
  ELSE IF d.remainder = <<>> THEN d
  ELSE IF IsJson(d.remainder)
       THEN [remainder |-> <<>>, decoded |-> Append(d.decoded, d.remainder[1]), failed |-> FALSE]
  ELSE [d EXCEPT !.failed = TRUE, !.remainder = <<>>]

(* parseClientMessage and parseServerMessage.                                 *)
IsMessage(i) == frames[i].what = "message"

(* The decoder behind the first k bytes of what is on the wire.               *)
Decoded[k \in 0..Len(wire)] == IF k = 0 THEN Decoder ELSE Push(Decoded[k - 1], wire[k])

(* A chunk arrives.                                                           *)
Deliver(n) ==
  /\ open /\ n \in 1..Len(wire)
  /\ wire' = SubSeq(wire, n + 1, Len(wire))
  /\ LET d == Decoded[n]
         bad == {i \in DOMAIN d.decoded : ~IsMessage(d.decoded[i])} IN
     /\ remainder' = d.remainder
     /\ IF d.failed THEN open' = FALSE /\ UNCHANGED handled
        ELSE IF bad # {}
             THEN open' = FALSE /\ handled' = handled \o SubSeq(d.decoded, 1, Min(bad) - 1)
        ELSE UNCHANGED open /\ handled' = handled \o d.decoded
  /\ UNCHANGED frames

Next ==
  \/ \E size \in Sizes, what \in Whats : WriteFrame(size, what)
  \/ \E n \in 1..Len(wire) : Deliver(n)

Spec == Init /\ [][Next]_vars

-----------------------------------------------------------------------------

Good(i) == frames[i].size \in 1..MaxFrameBytes /\ frames[i].what = "message"
Blank(i) == frames[i].size = 0

(* How many frames were delivered with their newline.                         *)
Complete == Len(frames) - Cardinality({k \in DOMAIN wire : wire[k] = Newline})

TypeOK ==
  /\ Len(frames) <= MaxFrames /\ open \in BOOLEAN
  /\ Len(remainder) <= MaxFrameBytes

(* Type invariant, and what is handled does not depend on how the bytes were  *)
(* cut: on an open connection exactly the frames that have arrived whole, in  *)
(* order; on one that was dropped none behind the first bad one, and it was   *)
(* dropped for a bad one.  In particular a stream of good frames is never     *)
(* dropped, and no line is kept that will be too long (JsonLineDecoder).      *)
ChunksDoNotMatter ==
  /\ TypeOK
  /\ \A i \in DOMAIN handled : Good(handled[i])
  /\ \A i \in 1..(Len(handled) - 1) : handled[i] < handled[i + 1]
  /\ open => /\ Range(handled) = {i \in 1..Complete : ~Blank(i)}
             /\ \A i \in 1..Complete : Blank(i) \/ Good(i)
  /\ ~open => \E bad \in DOMAIN frames : /\ ~Good(bad) /\ ~Blank(bad)
                                         /\ \A i \in Range(handled) : i < bad
=============================================================================
