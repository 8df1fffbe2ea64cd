-------------------------- MODULE MCSessionHistory --------------------------
(***************************************************************************)
(* Three calls for a session of two, so that rows are pushed out; the file *)
(* is compacted after every second event.                                  *)
(***************************************************************************)
EXTENDS SessionHistory, TLC

CONSTANTS k1, k2, k3

ThreeCalls == {k1, k2, k3}
Interchangeable == Permutations(ThreeCalls)
=============================================================================
