--------------------------- MODULE MCWriteEngine ---------------------------
EXTENDS WriteEngine, TLC

CONSTANTS w1, w2, w3, s1, c1, c2

\* Clients differ in nothing, and neither do the writes the writer's loop executes.
Symmetry == Permutations(Clients) \cup Permutations(Writes \ (Updates \cup BadWrites))
=============================================================================
