------------------------- MODULE MCTenantIPAllocator -------------------------
(***************************************************************************)
(* Model-checking instance of TenantIPAllocator.  The cfg files give one  *)
(* tenant (tenants share no allocator state beyond tenantsLock), two      *)
(* goroutines, and SubnetBits = 30: subnets of one usable host each.      *)
(***************************************************************************)
EXTENDS TenantIPAllocator, TLC

\* The goroutines are interchangeable.
ThreadSymmetry == Permutations(Threads)
=============================================================================
