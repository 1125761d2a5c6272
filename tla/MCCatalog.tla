------------------------------ MODULE MCCatalog ------------------------------
(* Catalog with one tenant besides "admin", two image ids, two names and   *)
(* one workload id.                                                        *)
EXTENDS Catalog

CONSTANTS t1, admin, m1, m2, x, y, w1, NoTenantID
=============================================================================
