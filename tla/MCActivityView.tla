--------------------------- MODULE MCActivityView ---------------------------
(***************************************************************************)
(* Three calls for a session that keeps two, two of which match the search.*)
(***************************************************************************)
EXTENDS ActivityView

CONSTANTS k1, k2, k3
=============================================================================
