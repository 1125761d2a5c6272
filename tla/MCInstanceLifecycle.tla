------------------------ MODULE MCInstanceLifecycle ------------------------
EXTENDS InstanceLifecycle, TLC

CONSTANTS t1, i1, i2, n1, n2, v1, a1, a2

MCInstances == {i1, i2}
MCAttachIDs == {a1, a2}
Symmetry == Permutations(MCInstances) \cup Permutations(MCAttachIDs)
=============================================================================
