------------------------- MODULE MCConfigPublication -------------------------
EXTENDS ConfigPublication, TLC

Symmetry == Permutations(Creds) \cup Permutations(Publishers)
==============================================================================
