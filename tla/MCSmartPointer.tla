--------------------------- MODULE MCSmartPointer ---------------------------
\* SmartPointer with a few variables and objects, all alike.
EXTENDS SmartPointer, TLC

Symmetry == Permutations(Variables) \cup Permutations(Blocks)
=============================================================================
