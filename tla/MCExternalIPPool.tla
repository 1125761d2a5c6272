-------------------------- MODULE MCExternalIPPool --------------------------
(* ExternalIPPool over a 16-address space: two /30 subnets, the /29 that   *)
(* covers them, one /31, and two individual addresses, one of them inside *)
(* the first /30 and the /29.                                              *)
EXTENDS ExternalIPPool, TLC

MCCidrs == {[base |-> 0, size |-> 4], [base |-> 4, size |-> 4],
            [base |-> 0, size |-> 8], [base |-> 8, size |-> 2]}

\* The same without the /31, which AddPool accepts but counts as empty.
MCCidrsNoPair == MCCidrs \ {[base |-> 8, size |-> 2]}

PoolSymmetry == Permutations(PoolIDs)
=============================================================================
