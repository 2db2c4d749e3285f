------------------------------ MODULE MCJobPool ------------------------------
\* The actors are interchangeable
EXTENDS JobPool, TLC

Symmetry == Permutations(Owners)
=============================================================================
