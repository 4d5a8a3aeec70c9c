------------------------ MODULE MCGlobalWriterLease ------------------------
(* A small instance of GlobalWriterLease for TLC. *)
EXTENDS GlobalWriterLease, TLC

\* Owners and operation keys are interchangeable.
Symmetry == Permutations(Owner) \cup Permutations(Key)
=============================================================================
