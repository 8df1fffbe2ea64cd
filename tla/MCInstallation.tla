--------------------------- MODULE MCInstallation ---------------------------
(***************************************************************************)
(* Three builds, each of one file or of two, and rollbacks between them.   *)
(***************************************************************************)
EXTENDS Installation
=============================================================================
