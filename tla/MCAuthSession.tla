---------------------------- MODULE MCAuthSession ----------------------------
(* Small instances of AuthSession.                                          *)
EXTENDS AuthSession

CONSTANTS p1, p2

TwoReqs == {p1, p2}

\* One address is written in two ways.
LowerCase ==
    [text \in Idents |-> IF text = "A@x" THEN "a@x" ELSE text]

=============================================================================
