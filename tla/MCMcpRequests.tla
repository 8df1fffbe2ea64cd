--------------------------- MODULE MCMcpRequests ---------------------------
(***************************************************************************)
(* Five calls of three requesters for two slots and two places in the      *)
(* queue: while one of alice's calls waits, bob and carol may pass it.     *)
(* Two calls alone for the first validation.                               *)
(***************************************************************************)
EXTENDS McpRequests, TLC

CONSTANTS a1, a2, a3, b1, c1, alice, bob, carol

MCCalls == {a1, a2, a3, b1, c1}
FirstCalls == {a1, a2}
MCRequesterOf ==
  [k \in MCCalls |-> IF k = b1 THEN bob ELSE IF k = c1 THEN carol ELSE alice]

\* Alice's calls are alike, and so are bob and carol with their calls.
BobIsCarol == b1 :> c1 @@ c1 :> b1 @@ bob :> carol @@ carol :> bob
BobIsBob == [x \in {b1, c1, bob, carol} |-> x]
Alike == {p @@ q : p \in Permutations({a1, a2, a3}), q \in {BobIsCarol, BobIsBob}}
=============================================================================
