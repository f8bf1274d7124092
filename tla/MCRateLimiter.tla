---------------------------- MODULE MCRateLimiter ----------------------------
(* Small instances of RateLimiter.                                          *)
EXTENDS RateLimiter, TLC

CONSTANTS p1, p2, p3

Two   == {p1, p2}
Three == {p1, p2, p3}

ThreeReqs == Permutations(Three)

AllFaults == FaultKinds
None      == {}

=============================================================================
