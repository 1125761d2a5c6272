----------------------------- MODULE MCTenantUsage -----------------------------
(***************************************************************************)
(* Model-checking instance of TenantUsage: two instances of one tenant,   *)
(* samples -1, 0 and 2, a usage period of two clock steps and a clock of *)
(* four steps, so that histories get several entries and in-place       *)
(* updates, and totals rise and fall.                                     *)
(***************************************************************************)
EXTENDS TenantUsage, TLC

CONSTANTS i1, i2, t1, NoTenantID

\* The instances are interchangeable.
MCInstances == {i1, i2}
MCTenants == {t1}

\* A node reports -1 for a usage it could not read.
MCSamples == {-1, 0, 2}

InstanceSymmetry == Permutations(MCInstances)
=============================================================================
