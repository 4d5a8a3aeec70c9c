--------------------------- MODULE MCDcsAdoption ---------------------------
EXTENDS DcsAdoption, TLC
CONSTANTS d1, p1
Symmetry == Permutations(Run)
MCFound == {d1 :> "A" @@ p1 :> "B"}
=============================================================================
