----------------------- MODULE MCControlledDeployment -----------------------
(* Small instances of ControlledDeployment for TLC. *)
EXTENDS ControlledDeployment, TLC

CONSTANTS r1, r2

Apart == [r \in Owner |-> r]            \* each runner has a deployment_id of its own
Together == [r \in Owner |-> "unit"]    \* all runners have the same
ApartOrTogether == {Apart, Together}
OnlyApart == {Apart}
OnlyTogether == {Together}

\* Runners are interchangeable where all of them wait.
Symmetry == Permutations(Owner)
=============================================================================
