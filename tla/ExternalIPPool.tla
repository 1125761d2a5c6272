--------------------------- MODULE ExternalIPPool ---------------------------
(***************************************************************************)
(* The external IP pool manager of the ciao controller datastore: AddPool, *)
(* DeletePool, AddExternalSubnet, AddExternalIPs, DeleteSubnet,            *)
(* DeleteExternalIP, MapExternalIP and UnMapExternalIP (isDuplicateSubnet, *)
(* isDuplicateIP and incrementIP folded in), src/unnamed/part_000.         *)
(*                                                                         *)
(* Every operation runs under poolsLock and is one action, except the     *)
(* compensating DeletePool that AddPool calls after dropping the lock.    *)
(* Addresses are integers; a subnet (CIDR) is a record [base, size] with  *)
(* size a power of two and base a multiple of it.  The subnet and IP ids  *)
(* are represented by the CIDR and the address themselves.  A mapping     *)
(* keeps only its pool: the instance it serves is data no property reads. *)
(***************************************************************************)
EXTENDS Naturals, FiniteSets, Sequences, SequencesExt

CONSTANTS
    PoolIDs,     \* pool uuids (model values)
    Cidrs,       \* subnets that callers may add, as [base |-> b, size |-> n]
    IPs,         \* individual addresses that callers may add
    FailSites    \* the persistent-store calls that may fail

Sites == {"addPool", "updatePool", "addMappedIP",
          "deleteMappedIP", "updatePoolMapped"}
ASSUME FailSites \subseteq Sites
ASSUME \A c \in Cidrs : c.size >= 2 /\ c.base % c.size = 0

VARIABLES
    pools,            \* ds.pools: pool id -> [subnets, ips, total, free]
    externalSubnets,  \* ds.externalSubnets, as a set of CIDRs
    externalIPs,      \* ds.externalIPs, as a set of addresses
    mappedIPs,        \* ds.mappedIPs: external address -> pool id
    compensating      \* ids of pools whose AddPool failed and awaits DeletePool

vars == <<pools, externalSubnets, externalIPs, mappedIPs, compensating>>

\* A call to the persistent store at a site: it succeeds, or may fail.
StoreOutcomes(site) == IF site \in FailSites THEN {TRUE, FALSE} ELSE {TRUE}

\* net.IPNet.Contains, and every address of a subnet.
InSubnet(c, a) == a - (a % c.size) = c.base
AddrsOf(c) == c.base .. (c.base + c.size - 1)

\* (1 << (bits-ones)) - 2: the addresses a subnet adds to TotalIPs.
NewIPs(c) == c.size - 2

\* isDuplicateSubnet: the new subnet contains, or is contained in, a
\* registered one.
IsDuplicateSubnet(reg, c) ==
    \E s \in reg : InSubnet(s, c.base) \/ InSubnet(c, s.base)

\* isDuplicateIP: covered by a registered subnet, or already registered.
IsDuplicateIP(regSubnets, regIPs, a) ==
    (\E s \in regSubnets : InSubnet(s, a)) \/ a \in regIPs

Pool == [subnets : Seq(Cidrs), ips : Seq(IPs), total : Int, free : Int]

(***************************************************************************)
(* The address MapExternalIP takes from a pool: the first one, scanning   *)
(* the subnets in order from the address after the network address up to *)
(* the last address the subnet contains (incrementIP until !Contains),    *)
(* then the individual IPs in order, that is not in mappedIPs.  0 - 1     *)
(* (i.e. -1) when none is free.                                            *)
(***************************************************************************)
NoAddr == -1
\* Mutant: the subnet scan runs one address past the subnet.
MapScanPastEnd(p, mapped) ==
    LET subnetAddrs == FoldLeft(LAMBDA acc, c :
                          acc \o [i \in 1 .. c.size |-> c.base + i],
                          <<>>, p.subnets)
        free == SelectSeq(subnetAddrs \o p.ips, LAMBDA a : a \notin DOMAIN mapped)
    IN  IF free = <<>> THEN NoAddr ELSE Head(free)

MapScan(p, mapped) ==
    LET subnetAddrs == FoldLeft(LAMBDA acc, c :
                          acc \o [i \in 1 .. (c.size - 1) |-> c.base + i],
                          <<>>, p.subnets)
        order == subnetAddrs \o p.ips
        free == SelectSeq(order, LAMBDA a : a \notin DOMAIN mapped)
    IN  IF free = <<>> THEN NoAddr ELSE Head(free)

MapPut(f, k, v) == [x \in DOMAIN f \cup {k} |-> IF x = k THEN v ELSE f[x]]
MapDrop(f, k) == [x \in DOMAIN f \ {k} |-> f[x]]

-----------------------------------------------------------------------------

Init ==
    /\ pools = <<>>
    /\ externalSubnets = {}
    /\ externalIPs = {}
    /\ mappedIPs = <<>>
    /\ compensating = {}

(***************************************************************************)
(* AddPool with a list of subnets: each one is checked against the        *)
(* registered subnets and registered at once, so a later duplicate        *)
(* returns ErrDuplicateSubnet with the earlier ones still registered.     *)
(* The caller computes TotalIPs = Free from the subnets as                *)
(* AddExternalSubnet does.  A failed db.addPool leaves the pool cached    *)
(* and the caller runs DeletePool after the unlock.                       *)
(***************************************************************************)
RECURSIVE RegisterSubnets(_, _)
RegisterSubnets(reg, list) ==
    IF list = <<>> THEN [ok |-> TRUE, reg |-> reg]
    ELSE IF IsDuplicateSubnet(reg, Head(list)) THEN [ok |-> FALSE, reg |-> reg]
    ELSE RegisterSubnets(reg \cup {Head(list)}, Tail(list))

\* A fresh uuid: an id no cached pool, pending compensation or mapping
\* refers to.
Fresh(id) ==
    id \notin DOMAIN pools \cup compensating \cup Range(mappedIPs)

AddPoolCommit(id, p) ==
    /\ pools' = MapPut(pools, id, p)
    /\ \E ok \in StoreOutcomes("addPool") :
         compensating' = IF ok THEN compensating ELSE compensating \cup {id}

AddPoolSubnets(id, list) ==
    /\ Fresh(id)
    /\ LET r == RegisterSubnets(externalSubnets, list)
           total == FoldLeft(LAMBDA acc, c : acc + NewIPs(c), 0, list)
       IN /\ externalSubnets' = r.reg
          /\ IF r.ok
             THEN AddPoolCommit(id, [subnets |-> list, ips |-> <<>>,
                                     total |-> total, free |-> total])
             ELSE UNCHANGED <<pools, compensating>>
    /\ UNCHANGED <<externalIPs, mappedIPs>>

\* AddPool with a list of individual IPs: all are checked before any is
\* registered.
AddPoolIPs(id, list) ==
    /\ Fresh(id)
    /\ IF \A i \in 1 .. Len(list) :
              ~IsDuplicateIP(externalSubnets, externalIPs, list[i])
       THEN /\ externalIPs' = externalIPs \cup ToSet(list)
            /\ AddPoolCommit(id, [subnets |-> <<>>, ips |-> list,
                                  total |-> Len(list), free |-> Len(list)])
       ELSE UNCHANGED <<externalIPs, pools, compensating>>
    /\ UNCHANGED <<externalSubnets, mappedIPs>>

(***************************************************************************)
(* DeletePool: refused while Free # TotalIPs; otherwise db.deletePool, and *)
(* the cache entries go whether or not the store call failed (the store   *)
(* row is not modelled here, so its outcome is not either).               *)
(***************************************************************************)
DeletePoolBody(id) ==
    /\ id \in DOMAIN pools
    /\ LET p == pools[id] IN
       IF p.free # p.total
       THEN UNCHANGED <<pools, externalSubnets, externalIPs>>
       ELSE /\ externalSubnets' = externalSubnets \ ToSet(p.subnets)
            /\ externalIPs' = externalIPs \ ToSet(p.ips)
            /\ pools' = MapDrop(pools, id)

DeletePool(id) ==
    /\ DeletePoolBody(id)
    /\ UNCHANGED <<mappedIPs, compensating>>

\* The DeletePool that AddPool runs after a failed db.addPool, once the lock
\* is dropped: another caller may have deleted or mapped from the pool since.
CompensateAddPool(id) ==
    /\ id \in compensating
    /\ \/ DeletePoolBody(id)
       \/ /\ id \notin DOMAIN pools
          /\ UNCHANGED <<pools, externalSubnets, externalIPs>>
    /\ compensating' = compensating \ {id}
    /\ UNCHANGED mappedIPs

\* AddExternalSubnet: duplicate and /31-/32 checks, then db.updatePool, then
\* the cache.
AddExternalSubnet(id, c) ==
    /\ id \in DOMAIN pools
    /\ ~IsDuplicateSubnet(externalSubnets, c)
    /\ NewIPs(c) > 0
    /\ \E ok \in StoreOutcomes("updatePool") :
         /\ ok
         /\ pools' = [pools EXCEPT ![id].total = @ + NewIPs(c),
                                   ![id].free = @ + NewIPs(c),
                                   ![id].subnets = Append(@, c)]
         /\ externalSubnets' = externalSubnets \cup {c}
    /\ UNCHANGED <<externalIPs, mappedIPs, compensating>>

\* AddExternalIPs: the list is sorted, duplicates within it and against the
\* registry are refused, then db.updatePool, then the cache.
AddExternalIPs(id, set) ==
    /\ id \in DOMAIN pools
    /\ \A a \in set : ~IsDuplicateIP(externalSubnets, externalIPs, a)
    /\ \E ok \in StoreOutcomes("updatePool") :
         /\ ok
         /\ pools' = [pools EXCEPT ![id].total = @ + Cardinality(set),
                                   ![id].free = @ + Cardinality(set),
                                   ![id].ips = @ \o SetToSortSeq(set, LAMBDA x, y : x < y)]
         /\ externalIPs' = externalIPs \cup set
    /\ UNCHANGED <<externalSubnets, mappedIPs, compensating>>

\* Mutant: DeleteSubnet without the check of mapped addresses.
DeleteSubnetUnchecked(id, c) ==
    /\ id \in DOMAIN pools
    /\ \E i \in 1 .. Len(pools[id].subnets) : pools[id].subnets[i] = c
    /\ pools' = [pools EXCEPT ![id].total = @ - NewIPs(c),
                              ![id].free = @ - NewIPs(c),
                              ![id].subnets = Remove(@, c)]
    /\ externalSubnets' = externalSubnets \ {c}
    /\ UNCHANGED <<externalIPs, mappedIPs, compensating>>

\* DeleteSubnet: refused while any address of the subnet is mapped.
DeleteSubnet(id, c) ==
    /\ id \in DOMAIN pools
    /\ \E i \in 1 .. Len(pools[id].subnets) : pools[id].subnets[i] = c
    /\ \A a \in AddrsOf(c) : a \notin DOMAIN mappedIPs
    /\ \E ok \in StoreOutcomes("updatePool") :
         /\ ok
         /\ pools' = [pools EXCEPT ![id].total = @ - NewIPs(c),
                                   ![id].free = @ - NewIPs(c),
                                   ![id].subnets = Remove(@, c)]
         /\ externalSubnets' = externalSubnets \ {c}
    /\ UNCHANGED <<externalIPs, mappedIPs, compensating>>

\* DeleteExternalIP: refused while the address is mapped.
DeleteExternalIP(id, a) ==
    /\ id \in DOMAIN pools
    /\ \E i \in 1 .. Len(pools[id].ips) : pools[id].ips[i] = a
    /\ a \notin DOMAIN mappedIPs
    /\ \E ok \in StoreOutcomes("updatePool") :
         /\ ok
         /\ pools' = [pools EXCEPT ![id].total = @ - 1,
                                   ![id].free = @ - 1,
                                   ![id].ips = Remove(@, a)]
         /\ externalIPs' = externalIPs \ {a}
    /\ UNCHANGED <<externalSubnets, mappedIPs, compensating>>

(***************************************************************************)
(* MapExternalIP: refused when Free = 0; otherwise the scanned address is *)
(* persisted with db.addMappedIP and put in mappedIPs, and only then is   *)
(* the decremented pool persisted with db.updatePool and cached; a failed *)
(* updatePool returns an error with the mapping already committed.        *)
(***************************************************************************)
MapExternalIP(id) ==
    /\ id \in DOMAIN pools
    /\ pools[id].free > 0
    /\ LET a == MapScan(pools[id], mappedIPs) IN
       /\ a # NoAddr
       /\ \E added \in StoreOutcomes("addMappedIP"),
             updated \in StoreOutcomes("updatePoolMapped") :
            /\ added
            /\ mappedIPs' = MapPut(mappedIPs, a, id)
            /\ pools' = IF updated THEN [pools EXCEPT ![id].free = @ - 1] ELSE pools
    /\ UNCHANGED <<externalSubnets, externalIPs, compensating>>

\* Mutant: UnMapExternalIP that drops the mapping but not pool.Free++.
UnMapKeepingFree(a) ==
    /\ a \in DOMAIN mappedIPs
    /\ mappedIPs[a] \in DOMAIN pools
    /\ mappedIPs' = MapDrop(mappedIPs, a)
    /\ UNCHANGED <<pools, externalSubnets, externalIPs, compensating>>

\* UnMapExternalIP: db.deleteMappedIP, the mapping leaves the cache, then
\* db.updatePool and the incremented Free is cached.
UnMapExternalIP(a) ==
    /\ a \in DOMAIN mappedIPs
    /\ mappedIPs[a] \in DOMAIN pools
    /\ \E deleted \in StoreOutcomes("deleteMappedIP"),
          updated \in StoreOutcomes("updatePoolMapped") :
         /\ deleted
         /\ mappedIPs' = MapDrop(mappedIPs, a)
         /\ pools' = IF updated THEN [pools EXCEPT ![mappedIPs[a]].free = @ + 1]
                                ELSE pools
    /\ UNCHANGED <<externalSubnets, externalIPs, compensating>>

Next ==
    \/ \E id \in PoolIDs, n \in 1 .. 2 :
          \E list \in [1 .. n -> Cidrs] : AddPoolSubnets(id, list)
    \/ \E id \in PoolIDs, set \in SUBSET IPs :
          set # {} /\ AddPoolIPs(id, SetToSortSeq(set, LAMBDA x, y : x < y))
    \/ \E id \in PoolIDs : DeletePool(id) \/ CompensateAddPool(id)
    \/ \E id \in PoolIDs, c \in Cidrs : AddExternalSubnet(id, c) \/ DeleteSubnet(id, c)
    \/ \E id \in PoolIDs, set \in SUBSET IPs : set # {} /\ AddExternalIPs(id, set)
    \/ \E id \in PoolIDs, a \in IPs : DeleteExternalIP(id, a)
    \/ \E id \in PoolIDs : MapExternalIP(id)
    \/ \E a \in DOMAIN mappedIPs : UnMapExternalIP(a)

Spec == Init /\ [][Next]_vars

-----------------------------------------------------------------------------
(* Properties *)

PoolAddrs(p) == UNION {AddrsOf(p.subnets[i]) : i \in 1 .. Len(p.subnets)}
                  \cup ToSet(p.ips)
MappedFrom(id) == {a \in DOMAIN mappedIPs : mappedIPs[a] = id}

TypeOK ==
    /\ DOMAIN mappedIPs \subseteq UNION {AddrsOf(c) : c \in Cidrs} \cup IPs
    /\ DOMAIN pools \subseteq PoolIDs
    /\ \A id \in DOMAIN pools : pools[id] \in Pool
    /\ externalSubnets \subseteq Cidrs
    /\ externalIPs \subseteq IPs
    /\ \A a \in DOMAIN mappedIPs : mappedIPs[a] \in PoolIDs
    /\ compensating \subseteq PoolIDs

(* Free accounting (spec invariant (b)): the Free counter of every cached  *)
(* pool equals its TotalIPs minus the addresses mapped from it, across    *)
(* MapExternalIP, UnMapExternalIP, the subnet and IP additions and        *)
(* deletions, and AddPool's compensating delete.                          *)
FreeAccounting ==
    \A id \in DOMAIN pools :
        pools[id].free = pools[id].total - Cardinality(MappedFrom(id))

(* Every mapping in mappedIPs names a cached pool and an address of that  *)
(* pool: DeletePool (guarded by Free = TotalIPs), DeleteSubnet and        *)
(* DeleteExternalIP never remove what a mapping still uses.               *)
MappingsBelongToPools ==
    \A a \in DOMAIN mappedIPs :
        mappedIPs[a] \in DOMAIN pools /\ a \in PoolAddrs(pools[mappedIPs[a]])

(* MapExternalIP never reaches its "Pool reports free addresses but none  *)
(* found" branch: a pool whose Free counter is positive always has an     *)
(* address its scan can take.                                             *)
FreeImpliesMappable ==
    \A id \in DOMAIN pools :
        pools[id].free > 0 => MapScan(pools[id], mappedIPs) # NoAddr

=============================================================================
