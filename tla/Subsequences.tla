---------------------------- MODULE Subsequences ----------------------------
(* The part of a sequence at some of its places, in the same order: what      *)
(* Array.filter keeps.  The places are a set, so that provers, which know     *)
(* nothing of SelectSeq, can reason about it.                                 *)
EXTENDS Naturals, Sequences

Keep(s, places) ==
  LET kept[n \in 0..Len(s)] ==
        IF n = 0 THEN <<>>
        ELSE IF n \in places THEN Append(kept[n - 1], s[n]) ELSE kept[n - 1]
  IN kept[Len(s)]
=============================================================================
