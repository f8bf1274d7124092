-------------------------- MODULE MCScoreboardPool --------------------------
(* Small instances of ScoreboardPool.                                       *)
EXTENDS ScoreboardPool

CONSTANTS p1, p2, c1

TwoBoards == {p1, p2}
OneChal   == {c1}

\* The administration stores negative points and zero, too.
Worth == {-1, 0, 2}
One   == {1}

=============================================================================
