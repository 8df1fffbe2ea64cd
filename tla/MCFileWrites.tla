---------------------------- MODULE MCFileWrites ----------------------------
(***************************************************************************)
(* One file of two writes, two edits of which one says what it expects to  *)
(* find, an append and a move, within two milliseconds.                    *)
(***************************************************************************)
EXTENDS FileWrites

CONSTANTS w1, w2, e1, e2, a1, m1
=============================================================================
