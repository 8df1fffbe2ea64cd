--------------------------- MODULE MCVisualSession ---------------------------
(***************************************************************************)
(* Two TUIs that compete for the lease over one call; one TUI over two or  *)
(* three calls.                                                            *)
(***************************************************************************)
EXTENDS VisualSession, TLC

CONSTANTS c1, c2, c3, t1, t2, k1, k2, k3

TwoTuis == {t1, t2}
OneTui == {t1}
ThreeConns == {c1, c2, c3}
TwoConns == {c1, c2}
ThreeCalls == {k1, k2, k3}
TwoCalls == {k1, k2}
OneCall == {k1}
NoCalls == {}

Interchangeable == Permutations(TwoTuis) \cup Permutations(ThreeConns)
=============================================================================
