--------------------------- MODULE DatastoreLocks ---------------------------
(***************************************************************************)
(* The lock discipline of the ciao controller datastore                   *)
(* (src/unnamed/part_000): the per-table sync.RWMutex fields of Datastore *)
(* and the order in which the datastore functions take and release them.  *)
(*                                                                         *)
(* A datastore call is the sequence of Lock/RLock/Unlock/RUnlock it       *)
(* performs, one sequence per control path through the function (early    *)
(* returns, optional branches, one iteration of a loop), with the calls   *)
(* it makes to other locking functions inlined.  Data is abstracted away: *)
(* which path a call takes is a nondeterministic choice.  Goroutines run  *)
(* calls concurrently; a lock operation is one atomic step.               *)
(*                                                                         *)
(* sync.RWMutex is modelled with its writer preference: Lock first takes  *)
(* the writer mutex and announces itself (pending), which blocks new      *)
(* readers, and then waits for the readers already inside to leave.       *)
(***************************************************************************)
EXTENDS Naturals, Sequences, FiniteSets, Graphs

CONSTANTS
    Goroutines,   \* goroutines calling into the datastore
    Calls,        \* the datastore functions those goroutines may call
    NoG           \* no goroutine

Locks == {"tenants", "workloads", "instances", "instanceLastStat",
          "tenantUsage", "nodes", "nodeLastStat", "bd", "attach",
          "pools", "image"}

VARIABLES
    prog,      \* goroutine -> the lock operations left in its current call
    writer,    \* lock -> goroutine holding it for writing, or NoG
    pending,   \* lock -> goroutine that announced Lock and awaits readers, or NoG
    readers    \* lock -> goroutines holding it for reading

vars == <<prog, writer, pending, readers>>

Op(kind, l) == [op |-> kind, l |-> l]

\* mu.Lock(); body; mu.Unlock()  and  mu.RLock(); body; mu.RUnlock()
W(l, body) == <<Op("Lock", l)>> \o body \o <<Op("Unlock", l)>>
R(l, body) == <<Op("RLock", l)>> \o body \o <<Op("RUnlock", l)>>

\* All concatenations s1 \o s2 with s1 \in S1, s2 \in S2.
Then(S1, S2) == {s1 \o s2 : s1 \in S1, s2 \in S2}
Maybe(s) == {<<>>, s}

-----------------------------------------------------------------------------
(* The lock paths of the datastore functions, as sets of sequences.        *)

GetTenant == R("tenants", <<>>)
GetInstance == R("instances", <<>>)
GetBlockDevice == R("bd", <<>>)
\* AddBlockDevice: bdLock for the lookup, bdLock for the store, then tenants.
AddBlockDevice == W("bd", <<>>) \o W("bd", <<>>) \o W("tenants", <<>>)
\* UpdateBlockDevice: bdLock.RLock for the lookup, then AddBlockDevice.
UpdateBlockDevice == {R("bd", <<>>), R("bd", <<>>) \o AddBlockDevice}

\* AddInstance: instanceLastStatLock is taken while instancesLock is held.
AddInstance == {W("instances", W("instanceLastStat", <<>>)) \o W("tenants", <<>>)}

\* GetInstanceLastStats: GetInstance is called for a stat of the node while
\* instanceLastStatLock is read-held.
GetInstanceLastStats == {R("instanceLastStat", <<>>),
                         R("instanceLastStat", GetInstance)}

\* Mutant: addInstanceStats keeping instanceLastStatLock (a deferred
\* Unlock) across the instances update.
AddInstanceStatsDeferredUnlock ==
    {W("instanceLastStat", u \o W("instances", n)) :
        u \in Maybe(W("tenantUsage", <<>>)), n \in Maybe(W("nodes", <<>>))}

\* addInstanceStats for one stat: updateTenantUsage (tenantUsageLock) runs
\* under instanceLastStatLock when the delta is non-zero; nodesLock is taken
\* under instancesLock when the instance is known.
AddInstanceStats ==
    {W("instanceLastStat", u) \o W("instances", n) :
        u \in Maybe(W("tenantUsage", <<>>)), n \in Maybe(W("nodes", <<>>))}

\* addNodeStat: nodesLock, then nodeLastStatLock, one after the other.
AddNodeStat == W("nodes", <<>>) \o W("nodeLastStat", <<>>)

\* HandleStats: addNodeStat when the report carries a load, then
\* addInstanceStats.
HandleStats == Then(Maybe(AddNodeStat), AddInstanceStats)

\* updateStorageAttachments: under attachLock, for an attachment of the
\* instance, GetBlockDevice and UpdateBlockDevice.
UpdateStorageAttachments ==
    {W("attach", s) :
        s \in {<<>>, GetBlockDevice} \cup Then({GetBlockDevice}, UpdateBlockDevice)}

\* DeleteInstance: GetInstance, then deleteInstance: instanceLastStat,
\* instances, tenants, nodes (when the instance has a node) one after the
\* other, ReleaseTenantIP (GetTenant, then tenantsLock) unless it is a
\* CNCI, and updateStorageAttachments.  A failed first db.deleteInstance
\* returns after GetInstance.
DeleteInstance ==
    {GetInstance} \cup
    Then(Then(Then({GetInstance \o W("instanceLastStat", <<>>)
                      \o W("instances", <<>>) \o W("tenants", <<>>)},
                   Maybe(W("nodes", <<>>))),
              Maybe(GetTenant \o W("tenants", <<>>))),
         UpdateStorageAttachments)

\* AddWorkload: tenantsLock under workloadsLock for a private workload.
AddWorkload == {W("workloads", t) : t \in Maybe(W("tenants", <<>>))}

\* DeleteWorkload: instancesLock read-held under workloadsLock, and
\* tenantsLock under both for a private workload (deferred unlocks).
DeleteWorkload == {W("workloads", R("instances", t)) : t \in Maybe(W("tenants", <<>>))}

\* AddImage: two ResolveImage calls (tenantsLock.RLock) and, for a tenant
\* image, tenantsLock, all under imageLock.
AddImage == {W("image", R("tenants", <<>>) \o R("tenants", <<>>) \o t) :
                t \in Maybe(W("tenants", <<>>))}

\* DeleteImage: tenantsLock under imageLock for a tenant image.
DeleteImage == {W("image", t) : t \in Maybe(W("tenants", <<>>))}

\* GetImages: tenantsLock.RLock under imageLock.RLock for a tenant.
GetImages == {R("image", t) : t \in Maybe(R("tenants", <<>>))}

\* Mutant: DeleteBlockDevice returning ErrNoBlockData without the Unlock.
DeleteBlockDeviceLeakOnMissing ==
    {<<Op("Lock", "bd")>>, W("bd", <<>>) \o W("bd", W("tenants", <<>>))}

\* DeleteBlockDevice: the lookup under bdLock, then bdLock and tenantsLock
\* nested for the removal.
DeleteBlockDevice == {W("bd", <<>>), W("bd", <<>>) \o W("bd", W("tenants", <<>>))}

\* CreateStorageAttachment: GetBlockDevice, UpdateBlockDevice, attachLock.
CreateStorageAttachment ==
    {GetBlockDevice} \cup Then({GetBlockDevice}, Then(UpdateBlockDevice, {W("attach", <<>>)}))

\* AllocateTenantIPPool: GetTenant, then tenantsLock.
AllocateTenantIPPool == {GetTenant \o W("tenants", <<>>)}

\* MapExternalIP: GetInstance, then poolsLock.
MapExternalIP == {GetInstance \o W("pools", <<>>)}

\* The functions by name.
Paths(c) ==
    CASE c = "AddInstance"             -> AddInstance
      [] c = "GetInstanceLastStats"    -> GetInstanceLastStats
      [] c = "HandleStats"             -> HandleStats
      [] c = "DeleteInstance"          -> DeleteInstance
      [] c = "AddWorkload"             -> AddWorkload
      [] c = "DeleteWorkload"          -> DeleteWorkload
      [] c = "AddImage"                -> AddImage
      [] c = "DeleteImage"             -> DeleteImage
      [] c = "GetImages"               -> GetImages
      [] c = "DeleteBlockDevice"       -> DeleteBlockDevice
      [] c = "CreateStorageAttachment" -> CreateStorageAttachment
      [] c = "AllocateTenantIPPool"    -> AllocateTenantIPPool
      [] c = "MapExternalIP"           -> MapExternalIP

-----------------------------------------------------------------------------

Init ==
    /\ prog = [g \in Goroutines |-> <<>>]
    /\ writer = [l \in Locks |-> NoG]
    /\ pending = [l \in Locks |-> NoG]
    /\ readers = [l \in Locks |-> {}]

\* An idle goroutine calls a datastore function along one of its paths.
Call(g, c) ==
    /\ prog[g] = <<>>
    /\ \E p \in Paths(c) : prog' = [prog EXCEPT ![g] = p]
    /\ UNCHANGED <<writer, pending, readers>>

Advance(g) == prog' = [prog EXCEPT ![g] = Tail(@)]

\* RWMutex.Lock, first half: take the writer mutex (no other writer holds
\* or awaits the lock) and announce, which stops new readers.
Announce(g, l) ==
    /\ writer[l] = NoG /\ pending[l] = NoG
    /\ pending' = [pending EXCEPT ![l] = g]
    /\ UNCHANGED <<prog, writer, readers>>

\* RWMutex.Lock, second half: the readers that were inside have left.
Acquire(g, l) ==
    /\ pending[l] = g /\ readers[l] = {}
    /\ writer' = [writer EXCEPT ![l] = g]
    /\ pending' = [pending EXCEPT ![l] = NoG]
    /\ Advance(g)
    /\ UNCHANGED readers

\* RWMutex.RLock: no writer holds the lock or has announced itself.
AcquireRead(g, l) ==
    /\ writer[l] = NoG /\ pending[l] = NoG
    /\ readers' = [readers EXCEPT ![l] = @ \cup {g}]
    /\ Advance(g)
    /\ UNCHANGED <<writer, pending>>

Release(g, l) ==
    /\ writer' = [writer EXCEPT ![l] = NoG]
    /\ Advance(g)
    /\ UNCHANGED <<pending, readers>>

ReleaseRead(g, l) ==
    /\ readers' = [readers EXCEPT ![l] = @ \ {g}]
    /\ Advance(g)
    /\ UNCHANGED <<writer, pending>>

\* The next lock operation of goroutine g.
Step(g) ==
    /\ prog[g] # <<>>
    /\ LET o == Head(prog[g]) IN
       CASE o.op = "Lock"    -> IF pending[o.l] = g THEN Acquire(g, o.l)
                                                    ELSE Announce(g, o.l)
         [] o.op = "RLock"   -> AcquireRead(g, o.l)
         [] o.op = "Unlock"  -> Release(g, o.l)
         [] o.op = "RUnlock" -> ReleaseRead(g, o.l)

Next == \E g \in Goroutines : Step(g) \/ \E c \in Calls : Call(g, c)

\* sync.Mutex hands a contended lock to a waiter that has waited for over
\* 1ms (starvation mode), so a goroutine whose next lock keeps becoming
\* available gets it: strong fairness for every goroutine's steps.  Idle
\* goroutines need not call anything.
Spec == Init /\ [][Next]_vars /\ \A g \in Goroutines : SF_vars(Step(g))

-----------------------------------------------------------------------------
(* Properties *)

\* g waits for h: g's next operation cannot proceed because of h.
WaitsFor(g, h) ==
    /\ g # h
    /\ prog[g] # <<>>
    /\ LET o == Head(prog[g]) IN
       \/ o.op = "RLock" /\ h \in {writer[o.l], pending[o.l]}
       \/ o.op = "Lock" /\ pending[o.l] # g /\ h \in {writer[o.l], pending[o.l]}
       \/ o.op = "Lock" /\ pending[o.l] = g /\ h \in readers[o.l]

WaitGraph == [node |-> Goroutines,
              edge |-> {<<g, h>> \in Goroutines \X Goroutines : WaitsFor(g, h)}]

(* No set of goroutines waits on itself: the order in which the datastore *)
(* functions nest their table locks (AddInstance: instances then          *)
(* instanceLastStat, DeleteWorkload: workloads, instances, tenants, ...)  *)
(* never lets two calls block each other for good.                       *)
NoWaitCycle == ~HasCycle(WaitGraph)

(* Every datastore call a goroutine starts returns: no path leaves a lock *)
(* held on return and no goroutine waits forever for a table lock.        *)
EveryCallReturns == \A g \in Goroutines : prog[g] # <<>> ~> prog[g] = <<>>

=============================================================================
