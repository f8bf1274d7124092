-------------------------- MODULE MCFlagSubmission --------------------------
(* Small instances of FlagSubmission for TLC.                              *)
EXTENDS FlagSubmission

\* A challenge, the same with other points and another flag, and withdrawn.
Original  == [published |-> TRUE, points |-> 100, accepts |-> {"a"}]
Changed   == [published |-> TRUE, points |-> 50, accepts |-> {"b"}]
Withdrawn == [Original EXCEPT !.published = FALSE]

AllChallenges == {Original, Changed, Withdrawn}
OriginalOnly  == {Original}

=============================================================================
