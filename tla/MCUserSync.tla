----------------------------- MODULE MCUserSync -----------------------------
\* Instances of UserSync for TLC.
EXTENDS UserSync, TLC

\* Ids are interchangeable: no handler compares two of them.
Symmetry == Permutations(Users)

=============================================================================
