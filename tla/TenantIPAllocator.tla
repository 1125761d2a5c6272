-------------------------- MODULE TenantIPAllocator --------------------------
(***************************************************************************)
(* The tenant private IP allocator of the ciao controller datastore:      *)
(* AllocateTenantIPPool, cleanTenantIPs, activateSubnets and               *)
(* ReleaseTenantIP (src/unnamed/part_000).                                 *)
(*                                                                         *)
(* An address is an offset from the tenant's network start, 172.16.0.0    *)
(* masked by SubnetBits.  The subnet of an address is the address masked  *)
(* by SubnetBits, i.e. a multiple of MaxHosts = 2^(32-SubnetBits).  The   *)
(* allocator's upper bound is the next 2^20-aligned address; SlotSize     *)
(* stands for 2^20 scaled down.  tenant.network, a map from subnet to a   *)
(* map of in-use hosts, is kept as the set of in-use addresses: its       *)
(* domain is the set of subnets of those addresses, because the code      *)
(* deletes a subnet entry as soon as its host map becomes empty.          *)
(***************************************************************************)
EXTENDS Naturals, FiniteSets, Sequences, SequencesExt, Bags, BagsExt

CONSTANTS
    Tenants,        \* tenant ids (model values)
    Threads,        \* goroutines calling the datastore (model values)
    MaxHosts,       \* 2^(32 - SubnetBits)
    SlotSize,       \* 2^20: span between start and end in AllocateTenantIPPool
    MaxNum,         \* largest num passed to AllocateTenantIPPool
    StoreMayFail,   \* whether claimTenantIPs / releaseTenantIP may fail
    NoTenant        \* model value: no call in progress

\* CreateTenant (tenants.go) admits SubnetBits 4..30, so MaxHosts >= 4.
ASSUME MaxHosts >= 4 /\ SlotSize >= MaxHosts /\ SlotSize % MaxHosts = 0
ASSUME NoTenant \notin Tenants
ASSUME MaxNum >= 1 /\ StoreMayFail \in BOOLEAN

VARIABLES
    network,   \* network[t]: addresses marked in use in the cached tenant.network
    claimed,   \* claimed[t]: addresses whose claim row is in the persistent store
    held,      \* held[t]: bag of addresses returned to callers and not yet released
    pc,        \* pc[th]: where goroutine th is
    req        \* req[th]: the call goroutine th is executing

vars == <<network, claimed, held, pc, req>>

Addr == 0 .. (SlotSize - 1)
End  == SlotSize

\* ipAddr.Mask(mask): the subnet an address belongs to.
SubnetOf(a) == a - (a % MaxHosts)

\* Host indices 0 (network), 1 (gateway) and MaxHosts-1 (broadcast) are skipped.
Usable == {a \in 0 .. (End - 1) : a % MaxHosts \in 2 .. (MaxHosts - 2)}

\* The keys of tenant.network, and the in-use host map of one of them.
Subnets(used) == {SubnetOf(a) : a \in used}
HostMap(used, k) == {a \in used : SubnetOf(a) = k}

(***************************************************************************)
(* The scan of AllocateTenantIPPool, from subnet start upwards: in each    *)
(* subnet hosts 2 .. maxHosts-2 not in use are taken in increasing order  *)
(* until num addresses are taken; reaching end first is "out of addrs".   *)
(* The result is the sequence of addresses taken, <<>> when out of addrs. *)
(***************************************************************************)
\* Mutants of Scan: the end test off by one subnet, and the in-use test dropped.
RECURSIVE ScanPastEnd(_, _, _, _)
ScanPastEnd(used, start, num, got) ==
    IF start > End THEN <<>>
    ELSE LET free == SetToSortSeq({start + h : h \in 2 .. (MaxHosts - 2)} \ used,
                                  LAMBDA x, y : x < y)
         IN  IF Len(got) + Len(free) >= num
             THEN got \o SubSeq(free, 1, num - Len(got))
             ELSE ScanPastEnd(used, start + MaxHosts, num, got \o free)
RECURSIVE ScanIgnoringUse(_, _, _, _)
ScanIgnoringUse(used, start, num, got) ==
    IF start >= End THEN <<>>
    ELSE LET free == SetToSortSeq({start + h : h \in 2 .. (MaxHosts - 2)},
                                  LAMBDA x, y : x < y)
         IN  IF Len(got) + Len(free) >= num
             THEN got \o SubSeq(free, 1, num - Len(got))
             ELSE ScanIgnoringUse(used, start + MaxHosts, num, got \o free)

\* Mutant of Scan: one address more than requested.
RECURSIVE ScanOneExtra(_, _, _, _)
ScanOneExtra(used, start, num, got) ==
    IF start >= End THEN <<>>
    ELSE LET free == SetToSortSeq({start + h : h \in 2 .. (MaxHosts - 2)} \ used,
                                  LAMBDA x, y : x < y)
         IN  IF Len(got) + Len(free) > num
             THEN got \o SubSeq(free, 1, num - Len(got) + 1)
             ELSE ScanOneExtra(used, start + MaxHosts, num, got \o free)

\* Mutant of Scan: the count stops one address short of num.
RECURSIVE ScanOneFewer(_, _, _, _)
ScanOneFewer(used, start, num, got) ==
    IF start >= End THEN <<>>
    ELSE LET free == SetToSortSeq({start + h : h \in 2 .. (MaxHosts - 2)} \ used,
                                  LAMBDA x, y : x < y)
         IN  IF Len(got) + Len(free) >= num - 1
             THEN got \o SubSeq(free, 1, num - 1 - Len(got))
             ELSE ScanOneFewer(used, start + MaxHosts, num, got \o free)

RECURSIVE Scan(_, _, _, _)
Scan(used, start, num, got) ==
    IF start >= End THEN <<>>
    ELSE LET free == SetToSortSeq({start + h : h \in 2 .. (MaxHosts - 2)} \ used,
                                  LAMBDA x, y : x < y)
         IN  IF Len(got) + Len(free) >= num
             THEN got \o SubSeq(free, 1, num - Len(got))
             ELSE Scan(used, start + MaxHosts, num, got \o free)

\* The start of the scan: the first subnet met while ranging over the
\* tenant.network map that has fewer than maxHosts hosts in use (Go's map
\* iteration order is unspecified, so any of them), else the first subnet.
StartCandidates(used) ==
    LET open == {k \in Subnets(used) : Cardinality(HostMap(used, k)) < MaxHosts}
    IN  IF open = {} THEN {0} ELSE open

-----------------------------------------------------------------------------

\* The req of a goroutine that is not inside a call.
NoCall == [tenant |-> NoTenant, num |-> 0, addrs |-> <<>>]

Init ==
    /\ network = [t \in Tenants |-> {}]
    /\ claimed = [t \in Tenants |-> {}]
    /\ held    = [t \in Tenants |-> EmptyBag]
    /\ pc      = [th \in Threads |-> "idle"]
    /\ req     = [th \in Threads |-> NoCall]

(***************************************************************************)
(* AllocateTenantIPPool, the part run under tenantsLock: choose the start  *)
(* subnet, scan, and either run out of addresses (cleanTenantIPs undoes    *)
(* the marks), or claim the addresses in bulk with claimTenantIPs, which   *)
(* on failure is undone by cleanTenantIPs as well.  On success the         *)
(* deferred activateSubnets runs after the unlock.                         *)
(***************************************************************************)
\* Mutant: a failed claimTenantIPs that is not followed by cleanTenantIPs.
AllocateWithoutRollback(th, t, num) ==
    /\ pc[th] = "idle"
    /\ \E start \in StartCandidates(network[t]) :
         LET addrs == Scan(network[t], start, num, <<>>) IN
         \/ addrs = <<>> /\ UNCHANGED vars
         \/ /\ addrs # <<>>
            /\ network' = [network EXCEPT ![t] = @ \cup ToSet(addrs)]
            /\ \/ claimed' = [claimed EXCEPT ![t] = @ \cup ToSet(addrs)]
               \/ StoreMayFail /\ UNCHANGED claimed
            /\ pc' = [pc EXCEPT ![th] = "activate"]
            /\ req' = [req EXCEPT ![th] = [tenant |-> t, num |-> num, addrs |-> addrs]]
            /\ held' = held

AllocateTenantIPPool(th, t, num) ==
    /\ pc[th] = "idle"
    /\ \E start \in StartCandidates(network[t]) :
         LET addrs == Scan(network[t], start, num, <<>>) IN
         \* "out of addrs", or claimTenantIPs fails: nothing stays marked
         \/ /\ addrs = <<>> \/ StoreMayFail
            /\ UNCHANGED vars
         \/ /\ addrs # <<>>
            /\ network' = [network EXCEPT ![t] = @ \cup ToSet(addrs)]
            /\ claimed' = [claimed EXCEPT ![t] = @ \cup ToSet(addrs)]
            /\ pc' = [pc EXCEPT ![th] = "activate"]
            /\ req' = [req EXCEPT ![th] = [tenant |-> t, num |-> num, addrs |-> addrs]]
            /\ held' = held

(***************************************************************************)
(* The deferred activateSubnets: WaitForActive on the subnet of every      *)
(* address, outside the lock.  Its error is assigned to retval after the  *)
(* return values were fixed, so the caller gets the addresses with a nil  *)
(* error whatever WaitForActive answered.                                  *)
(***************************************************************************)
ActivateSubnets(th) ==
    /\ pc[th] = "activate"
    /\ LET t == req[th].tenant IN
       held' = [held EXCEPT ![t] = @ (+) SetToBag(ToSet(req[th].addrs))]
    /\ pc' = [pc EXCEPT ![th] = "idle"]
    /\ req' = [req EXCEPT ![th] = NoCall]
    /\ UNCHANGED <<network, claimed>>

(***************************************************************************)
(* ReleaseTenantIP, the part under tenantsLock: delete the host from its   *)
(* subnet's map (the subnet entry goes with its last host, and the CNCI    *)
(* is asked to remove the subnet).  The caller releases an address it was *)
(* given.                                                                  *)
(***************************************************************************)
ReleaseTenantIP(th, t, ip) ==
    /\ pc[th] = "idle"
    /\ BagIn(ip, held[t])
    /\ network' = [network EXCEPT ![t] = @ \ {ip}]
    /\ held' = [held EXCEPT ![t] = BagRemove(@, ip)]
    /\ pc' = [pc EXCEPT ![th] = "release_db"]
    /\ req' = [req EXCEPT ![th] = [tenant |-> t, num |-> 1, addrs |-> <<ip>>]]
    /\ UNCHANGED claimed

\* The tail of ReleaseTenantIP, after tenantsLock is dropped: db.releaseTenantIP.
ReleaseStore(th) ==
    /\ pc[th] = "release_db"
    /\ LET t == req[th].tenant
           ip == req[th].addrs[1]
       IN \/ claimed' = [claimed EXCEPT ![t] = @ \ {ip}]
          \/ StoreMayFail /\ UNCHANGED claimed
    /\ pc' = [pc EXCEPT ![th] = "idle"]
    /\ req' = [req EXCEPT ![th] = NoCall]
    /\ UNCHANGED <<network, held>>

(***************************************************************************)
(* A restart of the controller: the calls in flight are lost and Init     *)
(* rebuilds every tenant.network from the claims in the persistent store.  *)
(* Addresses given to instances stay given.                                *)
(***************************************************************************)
Restart ==
    /\ network' = claimed
    /\ pc' = [th \in Threads |-> "idle"]
    /\ req' = [th \in Threads |-> NoCall]
    /\ UNCHANGED <<claimed, held>>

Next ==
    \/ \E th \in Threads, t \in Tenants, num \in 1 .. MaxNum :
          AllocateTenantIPPool(th, t, num)
    \/ \E th \in Threads : ActivateSubnets(th)
    \/ \E th \in Threads, t \in Tenants, ip \in Usable : ReleaseTenantIP(th, t, ip)
    \/ \E th \in Threads : ReleaseStore(th)

\* One lifetime of the controller process.
Spec == Init /\ [][Next]_vars

\* Lifetimes separated by restarts.
SpecWithRestart == Init /\ [][Next \/ Restart]_vars

-----------------------------------------------------------------------------

TypeOK ==
    /\ network \in [Tenants -> SUBSET Addr]
    /\ claimed \in [Tenants -> SUBSET Addr]
    /\ \A t \in Tenants : IsABag(held[t]) /\ BagToSet(held[t]) \subseteq Addr
    /\ pc \in [Threads -> {"idle", "activate", "release_db"}]
    /\ req \in [Threads -> [tenant : Tenants \cup {NoTenant}, num : 0 .. MaxNum, addrs : Seq(Addr)]]

\* No address is given to two callers at once, and every address a caller
\* holds is marked in use: interleaved allocations, releases and rolled
\* back claims never hand out an address twice.
NoDuplicateAssignment ==
    \A t \in Tenants :
        /\ \A a \in BagToSet(held[t]) : CopiesIn(a, held[t]) = 1
        /\ BagToSet(held[t]) \subseteq network[t]

\* Write-through for allocation: an address becomes in use in the cache
\* only in a step that also has it claimed in the persistent store, so a
\* failed claimTenantIPs leaves no mark behind.
CacheMarkFollowsClaim ==
    [][\A t \in Tenants : \A a \in network'[t] \ network[t] : a \in claimed'[t]]_vars

\* AllocateTenantIPPool returns exactly the num addresses asked for, all
\* different, whenever it returns any: hostCount, counted across the
\* subnets the scan walks, must stop the loop neither early nor late, and
\* no host may be taken twice in one call.
AllocationReturnsNum ==
    [][\A th \in Threads :
          pc[th] = "idle" /\ pc'[th] = "activate" =>
              /\ Len(req'[th].addrs) = req'[th].num
              /\ IsInjective(req'[th].addrs)]_vars

\* An allocation of num addresses fails with "out of addrs" only when the
\* tenant's address space has fewer than num free usable addresses: from
\* every reachable state, whatever subnet the map iteration starts from.
OutOfAddrsOnlyWhenFull ==
    \A t \in Tenants, num \in 1 .. MaxNum :
        Cardinality(Usable \ network[t]) >= num =>
            \A start \in StartCandidates(network[t]) :
                Scan(network[t], start, num, <<>>) # <<>>


\* The cache marks, as the address space the allocator promises: a mark set
\* is a Take of up to MaxNum free addresses, a cleared one a Free.
AddressSpace == INSTANCE TenantAddressSpace WITH Addresses <- Usable, inUse <- network

\* tenant.network implements TenantAddressSpace: every allocation marks
\* between one and num <= MaxNum addresses, all usable and unmarked, in one
\* step, every release clears one marked address, and no other step
\* (activation, the store release, a failed claim) touches the marks.
AllocatorRefined == AddressSpace!Spec

=============================================================================
