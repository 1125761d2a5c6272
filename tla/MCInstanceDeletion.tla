------------------------- MODULE MCInstanceDeletion -------------------------
EXTENDS InstanceDeletion, TLC

CONSTANTS g1, g2

CallerSymmetry == Permutations({g1, g2})
=============================================================================
