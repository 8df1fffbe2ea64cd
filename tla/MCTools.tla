------------------------------- MODULE MCTools -------------------------------
(***************************************************************************)
(* Two processes of which one may run; texts of which the longest does not *)
(* fit into the output; a search over two files; two writes, an edit, an   *)
(* append and a move of one file; four items read by pages of one or two;  *)
(* and three frames, blank, short, as long as a frame may be or too long.  *)
(***************************************************************************)
EXTENDS Tools

CONSTANTS w1, w2, e1, a1, m1

\* A character of w bytes, and what is appended at a time: one or two of them, and a
\* text that does not fit into the buffer.
Char(w) == [i \in 1..w |-> IF i = 1 THEN w ELSE 0]
OutputTexts ==
  {Char(1), Char(3)}
    \cup {Char(v) \o Char(w) : v \in {1, 2}, w \in {1, 2, 4}}
    \cup {Char(1) \o Char(1) \o Char(3)}

\* Two files, of three lines with three matches, and of two lines with two.
FoundIn == << <<1, 0, 2>>, <<1, 1>> >>
BothNamed == {1, 2}
NoneOrOne == {0, 1}
NoneSomeAll == {0, 2, 9}
OneOrTwo == {1, 2}

TwoWrites == {w1, w2}
OneEdit == {e1}
OneAppend == {a1}
OneMove == {m1}

FourItems == <<1, 3, 2, 1>>
SomeFrames == {0, 1, 3, 4}
=============================================================================
