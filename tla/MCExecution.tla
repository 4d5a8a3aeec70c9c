----------------------------- MODULE MCExecution -----------------------------
(* Small instances of ExecutionRecovery for TLC. *)
EXTENDS ExecutionRecovery

CONSTANTS p1, p2, c1, c2

OwnIds == (p1 :> c1) @@ (p2 :> c2)
\* Swapping the processes together with their ids changes nothing.
Symmetry == {(p1 :> p2) @@ (p2 :> p1) @@ (c1 :> c2) @@ (c2 :> c1)}

\* The default of the command line: every process is "adcp-controller".
OneId == (p1 :> c1) @@ (p2 :> c1)
OneIdSymmetry == Permutations({p1, p2})
=============================================================================
