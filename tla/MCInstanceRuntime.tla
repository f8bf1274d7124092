-------------------------- MODULE MCInstanceRuntime --------------------------
(* Small instances of InstanceRuntime for TLC.                             *)
EXTENDS InstanceRuntime, TLC

\* A configuration with every limit in force.
Tight == [published |-> TRUE, dynamic |-> TRUE, runtime |-> TRUE,
          ttl |-> 1, maxRenew |-> 1, maxActive |-> 1, cooldown |-> 1]

\* One without a limit on active instances and without cooldown.
Loose == [Tight EXCEPT !.maxActive = 0, !.cooldown = 0]

\* The challenge was withdrawn: its owner can neither renew nor delete.
Withdrawn == [Loose EXCEPT !.published = FALSE]

LooseOnly == {Loose}
TightLoose == {Tight, Loose}
Unpublishable == {Loose, Withdrawn}
AllFaults == FaultKinds
Symmetry  == Permutations(Reqs) \cup Permutations(Users)

=============================================================================
