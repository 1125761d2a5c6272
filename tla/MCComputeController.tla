------------------------ MODULE MCComputeController ------------------------
EXTENDS ComputeController

CONSTANTS t1, t2, i1, n1, n2, v1, a1, a2

\* A MaxInstances request, a MinInstances request and one with neither.
MCRequests == {[max |-> 1, min |-> 0], [max |-> 0, min |-> 1], [max |-> 0, min |-> 0]}
=============================================================================
