-------------------------- MODULE InstanceLifecycle --------------------------
(***************************************************************************)
(* Tenants, instances, nodes, block devices and storage attachments in    *)
(* the ciao controller datastore (src/unnamed/part_000): AddTenant,       *)
(* JSONPatchTenant, AddInstance,                                          *)
(* deleteInstance (DeleteInstance and a fatal StartFailure) with its      *)
(* attachment cascade updateStorageAttachments, InstanceRestarting,       *)
(* InstanceStopped, AddNode, DeleteNode, HandleStats (addNodeStat and     *)
(* addInstanceStats), AddBlockDevice, DeleteBlockDevice,                  *)
(* CreateStorageAttachment, DeleteStorageAttachment, AttachVolumeFailure. *)
(*                                                                         *)
(* Each datastore function is one step.  The lock order and the           *)
(* interleaving of the tables' critical sections are in DatastoreLocks;   *)
(* here the question is what the functions leave in the tables.  The      *)
(* controller calls the instance and node events with the id of an entity *)
(* it has just looked up, so those actions require it to exist (without   *)
(* it the code dereferences nil).                                          *)
(***************************************************************************)
EXTENDS Naturals, FiniteSets, Functions

CONSTANTS
    Instances,   \* instance uuids
    Nodes,       \* node uuids
    Volumes,     \* volume uuids
    AttachIDs,   \* attachment uuids
    NoNode,      \* the empty NodeID ""
    Tenants,     \* tenant uuids
    Bits         \* the SubnetBits values a tenant config may carry

States == {"pending", "running", "exited", "missing"}

VARIABLES
    tenants,          \* ds.tenants: id -> [bits (SubnetBits), instances (tenant.instances)]
    instances,        \* ds.instances: id -> [state, node, tenant]
    nodes,            \* ds.nodes: id -> the ids in node.instances
    lastStat,         \* ds.instanceLastStat: id -> whether it carries the TenantID
    blockDevices,     \* ds.blockDevices: id -> volume state
    attachments,      \* ds.attachments: id -> [inst, vol]
    instanceVolumes   \* ds.instanceVolumes: <<instance, volume>> -> attachment id

vars == <<tenants, instances, nodes, lastStat, blockDevices, attachments, instanceVolumes>>

Put(f, k, v) == [x \in DOMAIN f \cup {k} |-> IF x = k THEN v ELSE f[x]]
Drop(f, K) == [x \in DOMAIN f \ K |-> f[x]]

\* An id that uuid.Generate may hand out: nothing refers to it.
FreshInstance(i) ==
    /\ i \notin DOMAIN instances \cup DOMAIN lastStat
    /\ \A n \in DOMAIN nodes : i \notin nodes[n]
    /\ \A a \in DOMAIN attachments : attachments[a].inst # i
FreshAttachment(a) == a \notin DOMAIN attachments \cup Range(instanceVolumes)

Init ==
    /\ tenants = [t \in {} |-> {}]
    /\ instances = [i \in {} |-> {}]
    /\ nodes = [n \in {} |-> {}]
    /\ lastStat = [i \in {} |-> {}]
    /\ blockDevices = [v \in {} |-> {}]
    /\ attachments = [a \in {} |-> {}]
    /\ instanceVolumes = [p \in {} |-> {}]

(***************************************************************************)
(* AddTenant: a duplicate id is refused; otherwise the tenant is stored   *)
(* and cached with its config and no instances.                           *)
(***************************************************************************)
AddTenant(t, b) ==
    /\ t \notin DOMAIN tenants
    /\ tenants' = Put(tenants, t, [bits |-> b, instances |-> {}])
    /\ UNCHANGED <<instances, nodes, lastStat, blockDevices, attachments, instanceVolumes>>

(***************************************************************************)
(* JSONPatchTenant: the merged config replaces the old one, except that   *)
(* SubnetBits may not change while tenant.instances is non-empty.  The    *)
(* patched value is not range-checked.                                    *)
(***************************************************************************)
JSONPatchTenant(t, b) ==
    /\ t \in DOMAIN tenants
    /\ tenants[t].instances # {} => b = tenants[t].bits
    /\ tenants' = [tenants EXCEPT ![t].bits = b]
    /\ UNCHANGED <<instances, nodes, lastStat, blockDevices, attachments, instanceVolumes>>

(***************************************************************************)
(* AddInstance: the new instance (Pending, no node yet) is cached with a  *)
(* last-stat entry that carries its TenantID, and linked into its         *)
(* tenant's map if the tenant is cached.                                  *)
(***************************************************************************)
AddInstance(i, t) ==
    /\ FreshInstance(i)
    /\ instances' = Put(instances, i, [state |-> "pending", node |-> NoNode, tenant |-> t])
    /\ lastStat' = Put(lastStat, i, TRUE)
    /\ tenants' = IF t \in DOMAIN tenants
                  THEN [tenants EXCEPT ![t].instances = @ \cup {i}] ELSE tenants
    /\ UNCHANGED <<nodes, blockDevices, attachments, instanceVolumes>>

(***************************************************************************)
(* updateStorageAttachments(i): for every entry of instanceVolumes whose  *)
(* attachment belongs to i, the volume is fetched; if it is gone the loop *)
(* continues, otherwise it is set Available through UpdateBlockDevice and *)
(* both attachment entries are deleted.                                   *)
(***************************************************************************)
CascadeKeys(i) ==
    {p \in DOMAIN instanceVolumes :
        /\ instanceVolumes[p] \in DOMAIN attachments
        /\ attachments[instanceVolumes[p]].inst = i
        /\ attachments[instanceVolumes[p]].vol \in DOMAIN blockDevices}
CascadeIDs(i) == {instanceVolumes[p] : p \in CascadeKeys(i)}

UpdateStorageAttachments(i) ==
    LET ids == CascadeIDs(i)
        vols == {attachments[a].vol : a \in ids}
    IN /\ blockDevices' = [v \in DOMAIN blockDevices |->
                             IF v \in vols THEN "available" ELSE blockDevices[v]]
       /\ attachments' = Drop(attachments, ids)
       /\ instanceVolumes' = Drop(instanceVolumes,
                                  {<<attachments[a].inst, attachments[a].vol>> : a \in ids})

(***************************************************************************)
(* deleteInstance: the last stat, the instance and its node link go, then *)
(* the tenant IP is released (TenantIPAllocator) and the attachments      *)
(* cascade.                                                                *)
(***************************************************************************)
\* Mutant: the tenant's instance map keeps the deleted instance.
UnlinkKeepsTenantMap(i) == UNCHANGED tenants

\* deleteInstance's unlink from ds.tenants[i.TenantID] (if it is cached).
Unlink(i) ==
    LET t == instances[i].tenant IN
    tenants' = IF t \in DOMAIN tenants
               THEN [tenants EXCEPT ![t].instances = @ \ {i}] ELSE tenants

\* Mutant: the node link of the deleted instance is left behind.
DeleteInstanceBodyKeepsNode(i) ==
    /\ lastStat' = Drop(lastStat, {i})
    /\ instances' = Drop(instances, {i})
    /\ UNCHANGED nodes
    /\ Unlink(i)
    /\ UpdateStorageAttachments(i)

DeleteInstanceBody(i) ==
    LET n == instances[i].node IN
    /\ Unlink(i)
    /\ lastStat' = Drop(lastStat, {i})
    /\ instances' = Drop(instances, {i})
    /\ nodes' = IF n # NoNode THEN [nodes EXCEPT ![n] = @ \ {i}] ELSE nodes
    /\ UpdateStorageAttachments(i)

\* DeleteInstance: GetInstance, then deleteInstance.
DeleteInstance(i) ==
    /\ i \in DOMAIN instances
    /\ DeleteInstanceBody(i)

\* StartFailure with a fatal reason outside a migration deletes the instance,
\* in whatever state it is; otherwise only node counters change.
StartFailure(i) ==
    /\ i \in DOMAIN instances
    /\ DeleteInstanceBody(i)

(***************************************************************************)
(* updateInstanceStatus replaces the last stat by one without TenantID;   *)
(* InstanceRestarting then sets Pending, InstanceStopped sets Exited,     *)
(* clears the NodeID and unlinks the instance from its old node.          *)
(***************************************************************************)
InstanceRestarting(i) ==
    /\ i \in DOMAIN instances
    /\ lastStat' = Put(lastStat, i, FALSE)
    /\ instances' = [instances EXCEPT ![i].state = "pending"]
    /\ UNCHANGED <<tenants, nodes, blockDevices, attachments, instanceVolumes>>

\* Mutant: the instance is marked Exited but keeps its NodeID and its
\* place in the node's map.
InstanceStoppedKeepsLink(i) ==
    /\ i \in DOMAIN instances
    /\ lastStat' = Put(lastStat, i, FALSE)
    /\ instances' = [instances EXCEPT ![i].state = "exited"]
    /\ UNCHANGED <<tenants, nodes, blockDevices, attachments, instanceVolumes>>

InstanceStopped(i) ==
    /\ i \in DOMAIN instances
    /\ LET old == instances[i].node IN
       /\ lastStat' = Put(lastStat, i, FALSE)
       /\ instances' = [instances EXCEPT ![i].state = "exited", ![i].node = NoNode]
       /\ nodes' = IF old # NoNode THEN [nodes EXCEPT ![old] = @ \ {i}] ELSE nodes
    /\ UNCHANGED <<tenants, blockDevices, attachments, instanceVolumes>>

\* AddNode: a new node with no instances; a known node keeps its map.
AddNode(n) ==
    /\ nodes' = IF n \in DOMAIN nodes THEN nodes ELSE Put(nodes, n, {})
    /\ UNCHANGED <<tenants, instances, lastStat, blockDevices, attachments, instanceVolumes>>

\* DeleteNode: every instance in the node's map becomes Missing with no
\* NodeID, and the node goes.
DeleteNode(n) ==
    /\ n \in DOMAIN nodes
    /\ instances' = [i \in DOMAIN instances |->
                        IF i \in nodes[n]
                        THEN [instances[i] EXCEPT !.state = "missing", !.node = NoNode]
                        ELSE instances[i]]
    /\ nodes' = Drop(nodes, {n})
    /\ UNCHANGED <<tenants, lastStat, blockDevices, attachments, instanceVolumes>>

(***************************************************************************)
(* HandleStats from node n reporting instance i in state st: addNodeStat  *)
(* creates the node if it is unknown; addInstanceStats replaces the last  *)
(* stat, inheriting the previous entry's TenantID (none for an id it has  *)
(* no entry for), and for a cached instance sets state and NodeID and     *)
(* adds it to n's map.  A report for an unknown node without a load skips *)
(* addNodeStat and dereferences nil: the caller never sends one.          *)
(***************************************************************************)
\* addNodeStat: the node map with n created if it is unknown.
AddNodeStat(n) == IF n \in DOMAIN nodes THEN nodes ELSE Put(nodes, n, {})

\* Mutant: a report leaves a Missing instance Missing.
AddInstanceStatsKeepMissing(n, i, st, nodes1) ==
    /\ lastStat' = Put(lastStat, i, i \in DOMAIN lastStat /\ lastStat[i])
    /\ IF i \in DOMAIN instances /\ instances[i].state # "missing"
       THEN /\ instances' = [instances EXCEPT ![i].state = st, ![i].node = n]
            /\ nodes' = [nodes1 EXCEPT ![n] = @ \cup {i}]
       ELSE /\ nodes' = nodes1
            /\ UNCHANGED instances

\* addInstanceStats of one sample from node n, over the node map nodes1.
AddInstanceStats(n, i, st, nodes1) ==
    /\ lastStat' = Put(lastStat, i, i \in DOMAIN lastStat /\ lastStat[i])
    /\ IF i \in DOMAIN instances
       THEN /\ instances' = [instances EXCEPT ![i].state = st, ![i].node = n]
            /\ nodes' = [nodes1 EXCEPT ![n] = @ \cup {i}]
       ELSE /\ nodes' = nodes1
            /\ UNCHANGED instances

HandleStats(n, i, st) ==
    /\ AddInstanceStats(n, i, st, AddNodeStat(n))
    /\ UNCHANGED <<tenants, blockDevices, attachments, instanceVolumes>>

\* AddBlockDevice of a new volume, which starts Available.
AddBlockDevice(v) ==
    /\ v \notin DOMAIN blockDevices
    /\ blockDevices' = Put(blockDevices, v, "available")
    /\ UNCHANGED <<tenants, instances, nodes, lastStat, attachments, instanceVolumes>>

\* DeleteBlockDevice: the volume goes, whatever attaches it.
DeleteBlockDevice(v) ==
    /\ v \in DOMAIN blockDevices
    /\ blockDevices' = Drop(blockDevices, {v})
    /\ UNCHANGED <<tenants, instances, nodes, lastStat, attachments, instanceVolumes>>

(***************************************************************************)
(* CreateStorageAttachment for an instance the controller has looked up:  *)
(* the row is stored, the volume fetched (an unknown one deletes the row  *)
(* again and fails), set InUse, and both maps get the new attachment.     *)
(* Neither the volume's state nor an existing attachment of the pair is   *)
(* checked.                                                                *)
(***************************************************************************)
CreateStorageAttachment(i, v, a) ==
    /\ i \in DOMAIN instances
    /\ FreshAttachment(a)
    /\ v \in DOMAIN blockDevices
    /\ blockDevices' = [blockDevices EXCEPT ![v] = "in-use"]
    /\ attachments' = Put(attachments, a, [inst |-> i, vol |-> v])
    /\ instanceVolumes' = Put(instanceVolumes, <<i, v>>, a)
    /\ UNCHANGED <<tenants, instances, nodes, lastStat>>

\* Mutant: the instanceVolumes entry is not deleted.
DeleteStorageAttachmentKeepsIndex(a) ==
    /\ a \in DOMAIN attachments
    /\ attachments' = Drop(attachments, {a})
    /\ UNCHANGED <<tenants, instances, nodes, lastStat, blockDevices, instanceVolumes>>

\* DeleteStorageAttachment: both entries go; the volume state is untouched.
DeleteStorageAttachment(a) ==
    /\ a \in DOMAIN attachments
    /\ attachments' = Drop(attachments, {a})
    /\ instanceVolumes' = Drop(instanceVolumes, {<<attachments[a].inst, attachments[a].vol>>})
    /\ UNCHANGED <<tenants, instances, nodes, lastStat, blockDevices>>

\* AttachVolumeFailure: the volume goes back to Available.
AttachVolumeFailure(v) ==
    /\ v \in DOMAIN blockDevices
    /\ blockDevices' = [blockDevices EXCEPT ![v] = "available"]
    /\ UNCHANGED <<tenants, instances, nodes, lastStat, attachments, instanceVolumes>>

Next ==
    \/ \E t \in Tenants, b \in Bits : AddTenant(t, b) \/ JSONPatchTenant(t, b)
    \/ \E i \in Instances, t \in Tenants : AddInstance(i, t)
    \/ \E i \in Instances :
          \/ DeleteInstance(i) \/ StartFailure(i)
          \/ InstanceRestarting(i) \/ InstanceStopped(i)
    \/ \E n \in Nodes : AddNode(n) \/ DeleteNode(n)
    \/ \E n \in Nodes, i \in Instances, st \in {"running", "exited"} : HandleStats(n, i, st)
    \/ \E v \in Volumes : AddBlockDevice(v) \/ DeleteBlockDevice(v) \/ AttachVolumeFailure(v)
    \/ \E i \in Instances, v \in Volumes, a \in AttachIDs : CreateStorageAttachment(i, v, a)
    \/ \E a \in AttachIDs : DeleteStorageAttachment(a)

Spec == Init /\ [][Next]_vars

(***************************************************************************)
(* Properties                                                              *)
(***************************************************************************)

\* The node maps agree with the instances' NodeID (spec, Node): a node's
\* map holds exactly the cached instances whose NodeID names it, through
\* stats linking, InstanceStopped, DeleteNode and deleteInstance.
NodeLinksAgree ==
    \A n \in DOMAIN nodes :
        nodes[n] = {i \in DOMAIN instances : instances[i].node = n}

\* An instance is marked Missing with its NodeID cleared only in the step
\* that deletes the node it was on (DeleteNode against addInstanceStats
\* moving instances between nodes).
MissingOnlyWithItsNode ==
    [][\A i \in DOMAIN instances \cap DOMAIN instances' :
          (/\ instances[i].node # NoNode
           /\ instances'[i].state = "missing"
           /\ instances'[i].node = NoNode
           /\ instances[i].state # "missing")
          => instances[i].node \notin DOMAIN nodes']_vars

\* Every entry of the instanceVolumes index names a cached attachment of
\* exactly that (instance, volume) pair, through duplicate attachments,
\* DeleteStorageAttachment and the instance-delete cascade.
IndexNamesLiveAttachment ==
    \A p \in DOMAIN instanceVolumes :
        /\ instanceVolumes[p] \in DOMAIN attachments
        /\ attachments[instanceVolumes[p]] = [inst |-> p[1], vol |-> p[2]]
=============================================================================
