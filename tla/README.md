# TLA+ models of the ciao controller datastore

This directory holds TLA+ models of the ciao controller datastore (`src/unnamed/part_000`, package `datastore`) and the TLC configurations that check them. The datastore is an in-memory cache in front of a persistent store, and every table has its own `sync.RWMutex`. Controller handlers call it from many goroutines (`src/ciao-controller/*.go`), and so does the stats ingress path.

## The system's parts

| Part | Code | State | Operations |
|------|------|-------|------------|
| C1 persistent store port | `ds.db` calls (sqlite, not in src/) | rows per entity | each call succeeds or fails |
| C2 cache tables, locks | `Datastore` fields | maps under `tenantsLock`, `instancesLock`, `poolsLock`, ... | lock acquisition |
| C3 tenant IP allocator | `AllocateTenantIPPool`, `AllocateTenantIP`, `ReleaseTenantIP`, `cleanTenantIPs`, `activateSubnets` | `tenant.network` (subnet → host → in use), claimed rows | allocate n addresses, release one |
| C4 external IP pools | `AddPool` … `UnMapExternalIP`, `isDuplicateSubnet/IP` | `pools`, `externalSubnets`, `externalIPs`, `mappedIPs` | pool/subnet/IP add and delete, map, unmap |
| C5 instance lifecycle | `AddInstance`, `deleteInstance`, `StartFailure`, `InstanceStopped`, `DeleteNode`, ... | `instances`, node and tenant instance maps | create, delete, status, node moves |
| C6 volumes and attachments | `AddBlockDevice` … `DeleteStorageAttachment` | `blockDevices`, `attachments`, `instanceVolumes` | create, attach, detach, cascade on instance delete |
| C7 workload and image catalog | `AddImage`, `ResolveImage`, `DeleteImage`, `AddWorkload`, ... | `images`, public/internal lists, tenant lists | add, delete, resolve by name or id |
| C8 node and stats | `HandleStats`, `addNodeStat`, `addInstanceStats`, `updateTenantUsage` | last-stat maps, usage history | ingest a stats report |
| C9 facade | all of the above | lock order, write-through order | cross-table cascades |

The controller handlers (`src/ciao-controller/tenants.go`, `compute.go`) validate a request, check that the instance belongs to the tenant, and either call the datastore or hand the instance to the controller. The controller sends a command frame (START, STOP, RESTART, DELETE) over SSNTP to a compute node, and applies the node's event frames (stats, stopped, deleted, failures) to the datastore. ComputeController models this loop. The CLI volume commands (`part_001`) are REST I/O and are not modelled.

The parts interact as follows:
- Instance deletion (C5) releases the tenant IP (C3) and cascades to attachments (C6).
- Pool mapping (C4) reads the instance (C5) before it takes `poolsLock`.
- Stats (C8) move instances between nodes (C5).
- Stats (C8) charge usage to the tenant named by the instance's last stat. A status change or deletion of the instance (C5) resets or drops that stat.
- The REST handlers create tenants and instances (C5) directly. Deletes, stops and restarts go through a node and come back as events. A node disconnect (`DeleteNode`) marks its instances Missing and loses the frames in flight.

## Modules

### TenantIPAllocator (C3)

The address space is one 2^20 slot, scaled down to `SlotSize` addresses in subnets of `MaxHosts`. Hosts 0, 1 and `MaxHosts-1` are reserved.

Variables:
- `network`: the cached `tenant.network`.
- `claimed`: the store's tenant-IP rows.
- `held`: a bag of the addresses returned to callers.
- `pc` and `req`: per goroutine.

Actions:
- `AllocateTenantIPPool` is one atomic step under `tenantsLock`. It covers the start-subnet choice, which in the code is random map iteration and here is `\E start \in StartCandidates`. It also covers the recursive scan `Scan`, the `claimTenantIPs` store call, and on failure the `cleanTenantIPs` rollback.
- `ActivateSubnets` is the deferred step after the unlock.
- `ReleaseTenantIP` clears the cache under the lock.
- `ReleaseStore` is the `db.releaseTenantIP` call made after the unlock.
- `Restart` is `Init` reloading `network` from the store rows. Only `SpecWithRestart` includes it.

Store failures are enabled by the constant `StoreMayFail`.

### ExternalIPPool (C4)

Every pool operation holds `poolsLock` for its whole body and is one action. The exception is the compensating `DeletePool` that `AddPool` calls after a failed `db.addPool`, once the lock is dropped: that call is the separate action `CompensateAddPool`.

Data representation:
- Addresses are integers.
- A CIDR is `[base, size]`.
- Subnet and IP ids are represented by the CIDR and the address.
- A mapping keeps only its pool.

`MapScan` is the code's scan: for each subnet in order, from network+1 while `ipNet.Contains`, then the individual IPs in order. `FailSites` chooses which store calls may fail: `addPool`, `updatePool` (the administrative updates), `addMappedIP`, `deleteMappedIP`, and `updatePoolMapped` (the update after a mapping change).

`AddExternalIPs` sorts its input with `sort.Strings`. The model sorts numerically, which changes only the order in which individual IPs are later scanned.

### DatastoreLocks (C2, C9)

This module models the lock discipline, leaving out the table contents. `Locks` holds the eleven `sync.RWMutex` fields. Each modelled function is a set of paths, one path per control-flow branch. A path is a sequence of `Lock`/`Unlock`/`RLock`/`RUnlock` operations, built with `W(l, body)`, `R(l, body)`, `Then` and `Maybe`.

The modelled functions:
- the functions that nest locks: `AddInstance`, `GetInstanceLastStats`, `addInstanceStats`, `HandleStats`, `deleteInstance` with its cascade, `DeleteBlockDevice`, `CreateStorageAttachment`, `AllocateTenantIPPool`, `MapExternalIP`;
- the ones that share tables with them: workloads, images, block devices.

Getters that take a single lock are inlined into their callers.

Variables:
- `prog`: per goroutine, the rest of its path.
- `writer` and `readers`: per lock.
- `pending`: the writers that have announced themselves.

Go's writer preference is modelled in two stages. `Announce` makes a writer pending, and while a writer is pending new readers are refused (`AcquireRead`). `Acquire` then waits for the readers to drain. `NoWaitCycle` states that the wait-for graph between goroutines has no cycle (`Graphs!HasCycle`).

### InstanceLifecycle (C5, C6, C8)

This module covers instances, nodes, block devices and attachments. Each datastore function is one step, since the lock interleavings are DatastoreLocks' subject.

Variables:
- `tenants`: id → [SubnetBits, the ids in the tenant's `instances` map].
- `instances`: id → [state, NodeID, TenantID].
- `nodes`: id → the ids in the node's `instances` map.
- `lastStat`: id → whether the entry still carries the TenantID.
- `blockDevices`: id → state.
- `attachments`.
- `instanceVolumes`: <<instance, volume>> → attachment id.

Actions:
- `AddTenant` (a duplicate id is refused) and `JSONPatchTenant` (SubnetBits may change only while the tenant has no instances; the value is not range-checked).
- `AddInstance`, which links the instance into its tenant's map.
- `DeleteInstance` and `StartFailure`. Both call `deleteInstance` (`DeleteInstanceBody`), which ends in the cascade `UpdateStorageAttachments`. The cascade skips an attachment whose volume `GetBlockDevice` no longer finds, as the code's `continue` does.
- `InstanceRestarting` and `InstanceStopped`. Both go through `updateInstanceStatus`, which drops the TenantID from the last stat.
- `AddNode` and `DeleteNode`.
- `HandleStats`, which is `addNodeStat` followed by `addInstanceStats`.
- `AddBlockDevice`, `DeleteBlockDevice`, `CreateStorageAttachment`, `DeleteStorageAttachment` and `AttachVolumeFailure`.

Caller assumptions:
- Instance and node events name an entity that exists. Without it the code dereferences nil, and a panic leaves no state to check. Two deletions of one instance can break this assumption. `InstanceDeletion` models that race.
- A stats report always creates its node.

Not modelled here:
- The usage deltas, which are in `TenantUsage`.
- Store failures.

### InstanceDeletion (C5, the deleteInstance race)

`DeleteInstance` and `StartFailure` first look the instance up with `GetInstance`. They then call `deleteInstance`, which runs one critical section per table. Here each critical section is one step of a goroutine (`pc[g]`):
- `DeleteRow`: `db.deleteInstance`. An error returns at once.
- `DropLastStat`: under instanceLastStatLock.
- `TakeInstance`: under instancesLock, `i := ds.instances[id]`, then the delete. `got[g]` records whether `i` was non-nil.
- `DropFromTenant`: under tenantsLock, `ds.tenants[i.TenantID]`. A nil `i` panics, and the goroutine goes to `crashed`.
- `Finish`: the node unlink, the second store delete, `ReleaseTenantIP` and the attachment cascade, as one step.

The instance starts as a cached Pending instance with its store row, last stat and tenant link. Two such deletions happen when a REST DeleteServer of a Pending instance (no node yet, so the controller calls `DeleteInstance` at once) races the fatal startFailure of its START, or when two DeleteServer requests race. `StartFailure` with a non-fatal reason deletes nothing. The store is the sqlite layer, which is not in src/; deleting a row that is already gone succeeds there.

### Catalog (C7)

`Catalog` models the images, the workloads and the tenants' lists of them:
- `tenants[t]`: the tenant's `images` and `workloads` id lists.
- `images`, with `publicImages` and `internalImages`.
- `workloads`, with `publicWorkloads`.
- `inUse`: the workloads some instance names. `UseWorkload` and `ReleaseWorkload` stand for AddInstance and deleteInstance of such an instance.

Each operation holds `workloadsLock` or `imageLock` for its whole body, so each is one action:
- `AddTenant` and `DeleteTenant`.
- `AddImage`, `UpdateImage` and `DeleteImage`.
- `AddWorkload` and `DeleteWorkload`.

`ResolveImage` is an operator. It scans the tenant's own images, unless the tenant id is "" (`NoTenant`) or "admin" (`Admin`), then the public images, then the internal ones, and returns the first match.

The store calls are left out. Each precedes the cache change it guards, so a failed call changes nothing in the cache. The lists are sequences, and a removal takes out the first occurrence, as the code's loops do.

`DeleteTenant` does not check what the tenant still owns. Its comment leaves that to the caller, so the guard states it.

Image ids and names are disjoint model values. ResolveImage's match on the id is therefore the id itself.

Not modelled:
- The CNCI workload template (`GenerateCNCIWorkload`). The CNCI is out of the spec's scope.
- The quota calls, which only touch the store.

### TenantUsage (C8)

`TenantUsage` models usage accounting: the usage half of `instanceLastStat`, and `tenantUsage`.
- `lastStat[i]` is `[tenant, usage]`. A lookup of a missing id yields the zero value (`ZeroStat`: tenant "", usage 0), as a Go map does.
- `tenantUsage[t]` is a sequence of `[ts, total]` entries, one per owner, the empty tenant "" included.
- `now` is the clock, advanced by `Tick` up to `MaxTime`. `Period` stands for `tenantUsagePeriodMinutes`.
- `instances` and `retired` only give each instance its tenant and keep uuids from being reused.

Each action holds `instanceLastStatLock` for its whole body, with `tenantUsageLock` taken inside it, so each is atomic:
- `AddInstance` seeds the last stat with the tenant and no usage.
- `DeleteInstance` drops the last stat. The tenant's history is left as it is.
- `UpdateInstanceStatus` (InstanceRestarting, InstanceStopped) replaces the last stat with one that has neither tenant nor usage.
- `AddInstanceStat` is one sample of `addInstanceStats`, for any id, a deleted one included. It charges the difference of the clamped sample (`ReduceToZero`) and the last stat to the last stat's tenant (`UpdateTenantUsage`), then stores the sample with the inherited tenant.

`UpdateTenantUsage` does nothing for a zero delta. Otherwise it appends a new entry stamped `now` when the last entry is `Period` old, and else overwrites the last entry and keeps its timestamp. `GetTenantUsage` is the code's pair of counters and early returns.

One usage dimension stands for VCPU, Memory and Disk, which the code treats alike. The instance state and node link that `addInstanceStats` also writes are `InstanceLifecycle`'s. A cumulative total is capped at `MaxTotal` in the guard of `AddInstanceStat`. Without the cap, the total charged to "" would grow with every stop and report.

### ComputeController (controller handlers, with C5, C6, C8)

This module EXTENDS InstanceLifecycle and adds the REST handlers, the node agents and the frames between them. Each connection is one ordered stream each way (`cmds[n]` and `events[n]`, sequences), as an SSNTP connection is.

Variables added:
- `cmds[n]`: the command frames sent to node n that its agent has not yet read.
- `events[n]`: the event frames from n that the controller has not yet handled.
- `hosted[n]`: the instances n's agent runs.
- `issued`: instance uuids ever generated, so that a uuid is never reused.

Handlers, translated from `tenants.go` and `compute.go`:
- `CreateTenant`: SubnetBits 0 becomes 24, any other value outside 4..30 is refused, then `AddTenant`.
- `PatchTenant`: this is `JSONPatchTenant`.
- `CreateServer`: the instance count is `NInstances` (MaxInstances if positive, else MinInstances if positive, else 1). `StartWorkload` then adds that many Pending instances and queues START frames to one connected node.
- `DeleteServer`, `StopServer` and `StartServer`. Each first checks `GetTenantInstance`, which fails for an id of another tenant.
- The views `ListTenants`, `ShowTenant`, `ListServersDetail` (the tenant's instance map), `ShowServerDetails` and `InstanceToServer`.

The controller's `startWorkload`, `deleteInstance`, `stopInstance` and `restartInstance` are not in this repository. compute.go's tests (from line 216 on) were written against an older API: they import the `01org/ciao` packages and call a one-argument `addTenant`. What they observe about the frames is what the model keeps; nothing else is taken from them. What the model does with them follows what compute.go's tests observe:
- START, DELETE, STOP and RESTART carry the instance id. `RestartInstance` is restartInstance as TestRestartInstance drives it: after a stop, a RESTART for the instance goes to a node.
- A deleted event removes the instance.
- Stop and restart failures are only logged.

What no test shows is marked `spec_modelled` in the map:
- A fatal start failure removes the instance (`OnStartFailure`). TestStartFailure sends one but asserts nothing yet.
- `deleteInstance` deletes an instance with no node at once.
- `stopInstance` refuses a Pending instance.
- `restartInstance` takes only an Exited instance and marks it Pending first.
- The agent answers STOP and DELETE for an instance it does not run with a failure, and the controller logs a failed DELETE as it logs the others (`OnFailureLogged`).

A node can disconnect at any time. The controller then calls `DeleteNode`, and both streams are lost. `Reconnect` is `AddNode`, and the agent then reports its instances again through stats.

### TenantAddressSpace (abstract), refined by TenantIPAllocator

`TenantAddressSpace` states what the allocator promises its callers. `inUse[t]` is the set of tenant t's addresses that are given out. `Take(t, S)` gives out 1 to `MaxNum` addresses, all allocatable and not in use, in one step. `Free(t, a)` takes back one address that is in use.

`TenantIPAllocator` instantiates it with `Addresses <- Usable` and `inUse <- network`: the cache marks are the addresses in use. `AllocatorRefined` (ip_safety) checks the correspondence:
- An `AllocateTenantIPPool` that claims its addresses is a `Take`.
- A `ReleaseTenantIP` is a `Free`.
- Activation, the store release, and an allocation that runs out of addresses or fails its claim leave the marks unchanged, and so are stuttering steps.

This checks what the invariants do not: the number of addresses a request gets. A scan that takes one address more than requested breaks it and no other property of the run.

### ServerLifecycle (abstract), refined by ComputeController

`ServerLifecycle` states what a tenant is promised about its servers, with no nodes, frames or locks. Its state:
- `servers`: id ↦ [tenant, state].
- `retired`: the ids of deleted servers.

Its actions are the datastore's instance operations, seen from outside:
- `Create` (AddInstance): fresh ids, Pending.
- `Report` (addInstanceStats): Pending or Missing becomes Running.
- `Stop` (InstanceStopped): Running becomes Exited.
- `Restart` (InstanceRestarting): Exited becomes Pending.
- `Lose` (DeleteNode): a set of Running servers becomes Missing.
- `Delete` (deleteInstance): the server goes and its id is retired.

`ComputeController` defines `Lifecycle == INSTANCE ServerLifecycle WITH ...`:
- `servers` maps to the tenant and state of every cached instance.
- `retired` maps to `issued \ DOMAIN instances`.

`LifecycleRefined == Lifecycle!Spec` is checked as a PROPERTY. Every controller step must be a lifecycle step or leave the view unchanged.

The datastore does not enforce this lifecycle:
- `addInstanceStats` writes the reported state whatever the current one is.
- `DeleteNode` ignores `TransitionInstanceState`'s error.
- `InstanceStopped` and `InstanceRestarting` set their state unconditionally.

The lifecycle holds only because of three things:
- the order of frames on a connection;
- the handlers' guards (`restartInstance` takes only an Exited instance);
- `InstanceStopped` clearing the NodeID and the node link.

## Runs

| Run | Config | Shows |
|-----|--------|-------|
| ip_safety (pass) | `MCTenantIPAllocator.cfg` | 1 tenant, 2 goroutines, 4 subnets of 4 hosts, requests of 1–2 addresses, store failures on. No address is held twice (`NoDuplicateAssignment`). The cache marks an address only with a store claim (`CacheMarkFollowsClaim`, an action property). Every allocation that returns addresses returns exactly the num asked for, all different (`AllocationReturnsNum`, an action property over the step that leaves the lock; `req[th].num` records the request). The marks implement `TenantAddressSpace` (`AllocatorRefined`): every allocation takes 1 to MaxNum free usable addresses at once (so no network, gateway or broadcast host is ever marked), and every release frees one marked address. |
| ip_restart_duplicate (violation) | `MCTenantIPAllocatorRestart.cfg` | Release clears the cache, the same address is re-allocated, then the late `db.releaseTenantIP` deletes the new claim. After a restart, a held address is free again. |
| ip_spurious_exhaustion (violation) | `MCTenantIPAllocatorExhaust.cfg` | Allocate in subnets 0 and 1, release in subnet 0. A scan that starts at subnet 1 then fails with "out of addrs" although subnet 0 has a free host. |
| pool_safety (pass) | `MCExternalIPPool.cfg` | 2 pools, 16 addresses, all pool operations, store failures at every site except `updatePoolMapped`. `FreeAccounting` shows Free = TotalIPs − mappings. `MappingsBelongToPools` shows every mapping lies in a live pool's address set. |
| pool_ip_subnet_overlap (violation) | `MCExternalIPPoolOverlap.cfg` | A subnet is accepted over another pool's individual IP. One pool then has Free > 0 and nothing to map (`FreeImpliesMappable`). |
| locks_discipline (pass) | `MCDatastoreLocks.cfg` | Two goroutines call every modelled function except `GetInstanceLastStats`, along every path. No wait cycle arises (`NoWaitCycle`), and every call returns (`EveryCallReturns`, under fairness). |
| locks_laststats_deadlock (violation) | `MCDatastoreLocksLastStats.cfg` | `GetInstanceLastStats` (instanceLastStat R, then instances R) against `AddInstance` (instances W, then instanceLastStat W): a deadlock in 7 states. |
| lifecycle_migration (violation) | `MCInstanceLifecycleMigration.cfg` | With 2 nodes: stats from n1, then from n2. The instance is in both maps, and `DeleteNode(n1)` marks it Missing although it runs on n2 (`MissingOnlyWithItsNode`). |
| delete_race (violation) | `MCInstanceDeletionRace.cfg` | Two goroutines delete one Pending instance. Both pass `GetInstance`. The first takes the instance out of `ds.instances`, and the second then reads nil there and dereferences it at `i.TenantID` (`DeleteReadsLiveInstance`), in a trace of 9 states. The spec calls single-entity mutations linearizable and retries idempotent; a repeated delete panics the controller instead. |
| catalog_names (violation) | `MCCatalogNames.cfg` | Tenant t1 adds a private image named x. A system image (TenantID "") named x is then accepted, because `ResolveImage("", x)` skips every tenant's images. Tenant t1's namespace now holds two images named x (`ImageNamesUnique`), which the spec rules out. |
| usage_history (pass) | `MCTenantUsage.cfg` | Two instances of one tenant are added, report samples -1, 0 and 2, are stopped or restarted, and are deleted, over a clock of two usage periods. A tenant's latest total is never below what its instances last reported (`UsageCoversLiveInstances`), across new entries, in-place updates, deletions and tenant-less resets. `GetTenantUsage` returns exactly the entries stamped in [start, end) for every window with start ≤ end (`WindowIsHalfOpen`). |
| controller_safety (pass) | `MCComputeController.cfg` | 2 tenants, 1 instance uuid, 2 nodes that disconnect and reconnect, 1 volume, 2 attachment ids, at most 2 frames in flight per connection. Handlers, agents, event handling and volume operations interleave. Listing and lookup agree on each tenant's servers (`ListMatchesShow`). No stopped frame is handled for a deleted instance, across STOP then DELETE and a restart on the other node (`StoppedNamesLiveInstance`). Node maps and the attachment index stay consistent (`NodeLinksAgree`, `IndexNamesLiveAttachment`, including a repeated attachment of one pair). A server that a connected agent runs, whether started, restarted or Missing after a reconnect, is eventually shown Running on that node unless it is stopped, deleted or the node disconnects first (`HostedServerReported`). The instances' tenant and state implement `ServerLifecycle` (`LifecycleRefined`): no stale stats revive an exited server, and no id comes back after a delete. |

Each property of a passing run has a mutant in `PROJECT.json`: a plausible bug in the mapped code that TLC shows breaks it.

## Bounds

**Allocator.** Subnets of 4 hosts have exactly one allocatable host, which makes subnet boundaries and the broadcast edge easy to reach. With 4 subnets and up to 2 addresses per request, a request can span subnets, fill the slot and fail. Two goroutines are enough for the release/allocate race; the goroutines are symmetric.

**Pools.** The pool configuration's CIDRs nest (/29 ⊇ /30), so that `isDuplicateSubnet` checks containment in both directions. They include a /31 (which `AddPool` accepts but counts as empty) and an individual IP inside a subnet. Two pool ids suffice for cross-pool overlap; ids are symmetric.

**Locks.** A deadlock of two locks needs two goroutines. A goroutine starts a new call (any function in `Calls`) whenever its previous one has returned. The state is the two remaining paths plus the lock table, so it is finite without a counter, and every pair of paths overlaps at every offset.

**Lifecycle.** The two violation runs use `MCInstanceLifecycle` with every datastore call enabled in any order: two instances, one volume, two attachment ids and two nodes.

**Deletion.** Two goroutines and one instance suffice for the race; a third caller only repeats it. The store does not fail in delete_race, so the trace shows the race itself rather than an error path.

**Controller.** The pass run needs two nodes, because a restart moves an instance to the other node while frames for it are still queued on the old one. Two frames per connection let a STOP and a DELETE for one instance be queued together. Two tenants let a mutant that drops the TenantID check show up. Two attachment ids give a repeated pair. One instance uuid keeps the liveness check to about a minute: 207,800 states. With two uuids and two nodes the state space grows past several million. The instance moves through every state, including deletion, restart and migration, so the node-map and ordering properties are exercised. Two instances of one tenant are not.

In the controller model, `NodeLinksAgree` holds with two nodes, unlike in the migration run. Stats come only from the node that runs the instance, and an instance runs on a second node only after it has stopped and left the first node's map.

**Usage.** `Period` is 2 and `MaxTime` is 4, so a history gets up to three entries, and a sample either starts an entry or updates the last one. Samples -1, 0 and 2 let a usage rise, fall and be clamped. `MaxTotal` is 3, which the tenant-less owner reaches after repeated stops. The run has 59,574 states. With sample 1 added and a clock of 5 steps it has 16.5 million states and still passes, in 27 minutes.

## Fairness

`EveryCallReturns` (locks_discipline) assumes strong fairness of each goroutine's `Step`. A goroutine waiting for a lock is enabled only intermittently, whenever the lock is free. Go's `sync.Mutex` guarantees that such a waiter eventually gets the lock: after 1 ms of waiting it switches to starvation mode and hands the lock over in FIFO order. The `RWMutex` writer preference does the same for writers against a stream of readers. `HostedServerReported` (controller_safety) assumes weak fairness of each node's agent step (`Agent(n)`) and of the controller's handling of that node's frames (`Handler(n)`). Both are goroutines that block on their connection, so whenever a frame is queued the goroutine that reads it keeps being able to run. Reading a frame never waits on anything else: a reply replaces the command it answers, so only stats are held back by the frame bound. It also assumes weak fairness of each agent's stats report for each instance it runs (`AgentStats(n, i)`). The agent sends stats on a timer for as long as it is connected. A report is held back only while the connection's frame bound is reached or a report for that instance is already queued, and in this model the agent and the handler drain both. Requests, disconnects and reconnects have no fairness.

Deadlock is checked in every run. The systems never stop, because an allocation, a map, an add or a new call is always enabled.

## Not modelled yet, and the plan

These are listed in priority order for later sittings. The run budget of 12 is now fully used, so a new run must replace an existing one.
1. **Catalog** store rows and restart, for `DeleteImage` never deleting the row and for `AddWorkload`/`DeleteWorkload` leaving cache and store apart when the tenant is unknown. A pass run of the catalog's list invariants would need a run slot.
2. Three code defects that a unit test reaches in a few calls lost their runs to catalog_names, usage_history and delete_race:
   - `updateStorageAttachments` skips an attachment whose volume `GetBlockDevice` no longer finds (attach, `DeleteBlockDevice`, delete the instance). The attachment and its `instanceVolumes` entry outlive the instance, against the spec's attachment cascade scenario. `InstanceLifecycle` reaches it: no index entry may name a deleted instance.
   - A failed `db.updatePool` after `MapExternalIP` leaves the mapping cached and Free not decremented. `ExternalIPPool` models it under the `updatePoolMapped` fail site.
   - The `MapExternalIP` subnet scan runs up to the broadcast address that TotalIPs deducts, and `MapScan` scans as the code does. A pool with two subnets hands out the first subnet's broadcast address.
3. An abstract pool. It cannot be checked under pool_safety. That run allows two-subnet pools and IPs inside subnets, so the broadcast and overlap defects would break any promise that a pool owns disjoint usable addresses.
4. Store failures in InstanceLifecycle, and a DeleteNode racing `deleteInstance`'s node unlink (`ds.nodes[i.NodeID]` may be gone).
5. Pool store rows and restart, for the `DeletePool` failure and the `AddPool` compensation race.
6. **Controller**: `CreateServer`'s partial launch (the startWorkload error is only logged) and the agent's answer to a DELETE of a stopped instance. Both rest on code outside this repository and are listed as hazards without a property.

Parts of the controller sources that are not modelled, and why:
- `compute.go`'s route table (`createComputeRoutes`) and `TestMain`. These only set up HTTP routes, the SSNTP server and the test datastore, and they change no state the properties talk about.
- The CNCI tests and helpers (`TestStartWorkloadLaunchCNCI`, `TestLaunchCNCI`, `testStartWorkloadLaunchCNCI`, `TestNoNetwork`). The CNCI is out of the spec's scope.
- The tracing test (`TestStartTracedWorkload`) and the benchmarks. They measure or trace START and add no behaviour beyond `StartWorkload`.
- `TestEvacuateNode`. The controller's evacuateNode and the agent's EVACUATE handling are not in this repository, and the datastore has no evacuation state.
- The tenant-limit and hardware-address tests (`TestTenantWithinBounds`, `TestTenantOutOfBounds`, `TestNewTenantHardwareAddr`). They test quota and MAC code that is not in src/.
- `CreateTenant`'s response (`types.TenantSummary` and its self link), which is formatting.
