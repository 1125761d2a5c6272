------------------------- MODULE TenantAddressSpace -------------------------
(***************************************************************************)
(* What the tenant IP allocator promises its callers: each tenant has a    *)
(* set of addresses in use, drawn from its allocatable addresses.  A       *)
(* request takes between one and MaxNum addresses that are not in use, all *)
(* at once, and a release frees one address that is in use.  Nothing else  *)
(* changes the set.                                                        *)
(***************************************************************************)
EXTENDS Naturals, FiniteSets

CONSTANTS Tenants, Addresses, MaxNum

VARIABLE inUse   \* inUse[t]: the addresses of tenant t given out

Init == inUse = [t \in Tenants |-> {}]

Take(t, S) ==
    /\ S # {} /\ Cardinality(S) <= MaxNum
    /\ S \subseteq Addresses \ inUse[t]
    /\ inUse' = [inUse EXCEPT ![t] = @ \cup S]

Free(t, a) ==
    /\ a \in inUse[t]
    /\ inUse' = [inUse EXCEPT ![t] = @ \ {a}]

Next ==
    \/ \E t \in Tenants, S \in SUBSET Addresses : Take(t, S)
    \/ \E t \in Tenants, a \in Addresses : Free(t, a)

Spec == Init /\ [][Next]_inUse
=============================================================================
