------------------------------ MODULE MCService ------------------------------
(***************************************************************************)
(* Three builds of two layouts, two commands over two builds, two repairs, *)
(* two settings and a call that records itself, three calls of which two   *)
(* are kept, and two processes that share a log of three files.            *)
(***************************************************************************)
EXTENDS Service

CONSTANTS k1, k2, k3, r1, r2, w1, w2, cmd1, cmd2

\* Two normal delays, the circuit breaker after the third failure with the longest
\* delay, and a healthy reset that takes longer than the first delay.
TwoNormalDelays == <<1, 2>>

BothLayouts == {"single", "split"}
BothPlatforms == {"darwin", "linux"}
TwoCommands == {cmd1, cmd2}
TwoRepairs == {r1, r2}

TwoSettings == {"set a", "set b"}
OneRecord == {"call"}
OneRead == {"get"}
TwoKeys == {"a", "b"}
KeyOfSetting == [s \in TwoSettings |-> IF s = "set a" THEN "a" ELSE "b"]

ThreeCalls == {k1, k2, k3}
TwoOfThree == {k1, k3}

TwoWriters == {w1, w2}
TwoSizes == {1, 2}
=============================================================================
