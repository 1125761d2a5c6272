------------------------- MODULE ComputeController -------------------------
(***************************************************************************)
(* The controller's tenant and compute handlers (src/ciao-controller/     *)
(* tenants.go and compute.go) composed with the datastore of              *)
(* InstanceLifecycle and with the compute nodes they command over SSNTP.  *)
(*                                                                         *)
(* A handler validates its input, checks ownership with GetTenantInstance *)
(* and hands the instance to the controller, which sends a command frame  *)
(* (START, STOP, RESTART, DELETE) to a node.  A node agent answers with   *)
(* event frames (stats, failures, stopped, deleted) that the controller   *)
(* applies to the datastore.  What the controller sends and how the agent *)
(* answers is what compute.go's tests (TestDeleteInstance,                *)
(* TestStopInstance, TestRestartInstance, TestInstanceDeletedEvent,       *)
(* TestStopFailure, TestRestartFailure, TestStartFailure) observe; the    *)
(* controller's own startWorkload, stopInstance, restartInstance and      *)
(* deleteInstance are not in src/.                                         *)
(*                                                                         *)
(* Each node connection is one ordered stream each way.  A disconnect     *)
(* loses both streams; the controller then calls DeleteNode.              *)
(***************************************************************************)
EXTENDS InstanceLifecycle, Sequences

CONSTANTS
    CreateBits,  \* SubnetBits values a CreateTenant request may carry (0: unset)
    Requests,    \* CreateServer requests: [max |-> MaxInstances, min |-> MinInstances]
    MaxQueue     \* bound on the frames in flight on one connection, both ways

VARIABLES
    cmds,        \* node -> command frames sent and not yet read by its agent
    events,      \* node -> event frames sent by its agent, not yet handled
    hosted,      \* node -> instances its agent runs
    issued       \* instance uuids ever generated (a uuid is never reused)

ctlVars == <<cmds, events, hosted, issued>>
allVars == <<vars, ctlVars>>

Frame(k, i) == [kind |-> k, inst |-> i]
Connected == DOMAIN nodes
Send(q, n, f) == [q EXCEPT ![n] = Append(@, f)]
InFlightCount(n) == Len(cmds[n]) + Len(events[n])
Room(n) == InFlightCount(n) < MaxQueue

CInit ==
    /\ Init
    /\ cmds = [n \in Nodes |-> <<>>]
    /\ events = [n \in Nodes |-> <<>>]
    /\ hosted = [n \in Nodes |-> {}]
    /\ issued = {}

(***************************************************************************)
(* Tenant handlers.  CreateTenant: SubnetBits 0 means 24, anything else   *)
(* outside 4..30 is refused, then AddTenant.  PatchTenant is               *)
(* JSONPatchTenant.  (A tenant id that is not a UUID is refused with no   *)
(* state change.)  ListTenants and ShowTenant are views.                  *)
(***************************************************************************)
CreateTenant(t, bits) ==
    LET b == IF bits = 0 THEN 24 ELSE bits IN
    /\ b \in 4..30
    /\ AddTenant(t, b)
    /\ UNCHANGED ctlVars

PatchTenant(t, bits) ==
    /\ JSONPatchTenant(t, bits)
    /\ UNCHANGED ctlVars

ListTenants == DOMAIN tenants \ {"public"}
ShowTenant(t) == [name |-> t, subnetBits |-> tenants[t].bits]

(***************************************************************************)
(* Compute views.  instanceToServer lists the volumes of the instance's   *)
(* attachments (GetStorageAttachments).  ListServersDetail walks the      *)
(* tenant's instance map (GetAllInstancesFromTenant); ShowServerDetails   *)
(* looks the instance up by id and checks its TenantID                    *)
(* (GetTenantInstance).                                                    *)
(***************************************************************************)
InstanceToServer(i) ==
    [id |-> i, tenant |-> instances[i].tenant, node |-> instances[i].node,
     status |-> instances[i].state,
     volumes |-> {attachments[a].vol : a \in {a \in DOMAIN attachments : attachments[a].inst = i}}]

GetTenantInstance(t, i) == i \in DOMAIN instances /\ instances[i].tenant = t

\* The ids ListServersDetail returns for tenant t, sorted in the response.
ListServersDetail(t) == IF t \in DOMAIN tenants THEN tenants[t].instances ELSE {}

\* ShowServerDetails: the server, or none (ErrInstanceNotFound).
ShowServerDetails(t, i) ==
    IF GetTenantInstance(t, i) THEN {InstanceToServer(i)} ELSE {}

(***************************************************************************)
(* CreateServer: the instance count is MaxInstances if positive, else     *)
(* MinInstances if positive, else 1.  startWorkload caches that many new  *)
(* Pending instances of the tenant and sends a START frame for each to    *)
(* the node the scheduler picks.                                          *)
(***************************************************************************)
NInstances(r) == IF r.max > 0 THEN r.max ELSE IF r.min > 0 THEN r.min ELSE 1

StartWorkload(t, S, n) ==
    /\ t \in DOMAIN tenants
    /\ S \cap issued = {}
    /\ issued' = issued \cup S
    /\ InFlightCount(n) + Cardinality(S) <= MaxQueue
    /\ instances' = [x \in DOMAIN instances \cup S |->
                        IF x \in S THEN [state |-> "pending", node |-> NoNode, tenant |-> t]
                                   ELSE instances[x]]
    /\ lastStat' = [x \in DOMAIN lastStat \cup S |-> IF x \in S THEN TRUE ELSE lastStat[x]]
    /\ tenants' = [tenants EXCEPT ![t].instances = @ \cup S]
    /\ \E order \in [1..Cardinality(S) -> S] :
          /\ Range(order) = S
          /\ cmds' = [cmds EXCEPT ![n] = @ \o [k \in 1..Cardinality(S) |-> Frame("START", order[k])]]
    /\ UNCHANGED <<nodes, blockDevices, attachments, instanceVolumes, events, hosted>>

CreateServer(t, r) ==
    \E S \in SUBSET Instances, n \in Connected :
        /\ Cardinality(S) = NInstances(r)
        /\ StartWorkload(t, S, n)

(***************************************************************************)
(* DeleteServer, StopServer, StartServer: GetTenantInstance, then the     *)
(* controller acts.  deleteInstance deletes an instance with no node from *)
(* the datastore at once and otherwise sends DELETE to its node;          *)
(* stopInstance refuses a Pending instance or one with no node and sends  *)
(* STOP; restartInstance takes only an Exited instance, marks it Pending  *)
(* (InstanceRestarting) and sends RESTART to the node the scheduler       *)
(* picks.                                                                  *)
(***************************************************************************)
SendToNode(i, k) ==
    LET n == instances[i].node IN
    /\ n \in Connected
    /\ Room(n)
    /\ cmds' = Send(cmds, n, Frame(k, i))

\* Mutant: the instance leaves the datastore when DELETE is sent, before
\* the node has answered.
DeleteServerEager(t, i) ==
    /\ GetTenantInstance(t, i)
    /\ \/ /\ instances[i].node = NoNode
          /\ DeleteInstance(i)
          /\ UNCHANGED ctlVars
       \/ /\ instances[i].node # NoNode
          /\ SendToNode(i, "DELETE")
          /\ DeleteInstance(i)
          /\ UNCHANGED <<events, hosted, issued>>

DeleteServer(t, i) ==
    /\ GetTenantInstance(t, i)
    /\ \/ /\ instances[i].node = NoNode
          /\ DeleteInstance(i)
          /\ UNCHANGED ctlVars
       \/ /\ instances[i].node # NoNode
          /\ SendToNode(i, "DELETE")
          /\ UNCHANGED <<vars, events, hosted, issued>>

StopServer(t, i) ==
    /\ GetTenantInstance(t, i)
    /\ instances[i].state # "pending"
    /\ SendToNode(i, "STOP")
    /\ UNCHANGED <<vars, events, hosted, issued>>

\* restartInstance: InstanceRestarting, then RESTART with the instance id
\* to the node the scheduler picks.
RestartInstance(i) ==
    /\ InstanceRestarting(i)
    /\ \E n \in Connected :
          /\ Room(n)
          /\ cmds' = Send(cmds, n, Frame("RESTART", i))
    /\ UNCHANGED <<events, hosted, issued>>

StartServer(t, i) ==
    /\ GetTenantInstance(t, i)
    /\ instances[i].state = "exited"
    /\ RestartInstance(i)

(***************************************************************************)
(* The node agent reads its command frames in order.  START and RESTART   *)
(* run the instance or answer with a failure; STOP and DELETE act on an   *)
(* instance the agent runs (stopped, deleted) and otherwise answer a      *)
(* failure with reason NoInstance.  Running instances are reported in     *)
(* stats frames.                                                           *)
(***************************************************************************)
\* The instances named by the frames of kind k queued on n's streams.
InFlight(n, k) == {cmds[n][j].inst : j \in {j \in DOMAIN cmds[n] : cmds[n][j].kind = k}}
Answered(n, k) == {events[n][j].inst : j \in {j \in DOMAIN events[n] : events[n][j].kind = k}}

Reads(n, k) == cmds[n] # <<>> /\ Head(cmds[n]).kind = k
Read(n) == cmds' = [cmds EXCEPT ![n] = Tail(@)]
\* A reply takes the place of the command frame it answers.
Reply(n, k, i) == events' = Send(events, n, Frame(k, i))

AgentStart(n) ==
    LET i == Head(cmds[n]).inst IN
    /\ Reads(n, "START")
    /\ Read(n)
    /\ \/ hosted' = [hosted EXCEPT ![n] = @ \cup {i}] /\ UNCHANGED events
       \/ Reply(n, "startFailure", i) /\ UNCHANGED hosted
    /\ UNCHANGED <<vars, issued>>

AgentRestart(n) ==
    LET i == Head(cmds[n]).inst IN
    /\ Reads(n, "RESTART")
    /\ Read(n)
    /\ \/ hosted' = [hosted EXCEPT ![n] = @ \cup {i}] /\ UNCHANGED events
       \/ Reply(n, "restartFailure", i) /\ UNCHANGED hosted
    /\ UNCHANGED <<vars, issued>>

AgentStop(n) ==
    LET i == Head(cmds[n]).inst IN
    /\ Reads(n, "STOP")
    /\ Read(n)
    /\ IF i \in hosted[n]
       THEN Reply(n, "stopped", i) /\ hosted' = [hosted EXCEPT ![n] = @ \ {i}]
       ELSE Reply(n, "stopFailure", i) /\ UNCHANGED hosted
    /\ UNCHANGED <<vars, issued>>

AgentDelete(n) ==
    LET i == Head(cmds[n]).inst IN
    /\ Reads(n, "DELETE")
    /\ Read(n)
    /\ IF i \in hosted[n]
       THEN Reply(n, "deleted", i) /\ hosted' = [hosted EXCEPT ![n] = @ \ {i}]
       ELSE Reply(n, "deleteFailure", i) /\ UNCHANGED hosted
    /\ UNCHANGED <<vars, issued>>

\* Stats go out periodically while connected; a report already queued for
\* i is not repeated.
AgentStats(n, i) ==
    /\ n \in Connected
    /\ i \in hosted[n]
    /\ i \notin Answered(n, "stats")
    /\ Room(n)
    /\ Reply(n, "stats", i)
    /\ UNCHANGED <<vars, cmds, hosted, issued>>

(***************************************************************************)
(* The controller applies a node's event frames in order: stats through   *)
(* HandleStats, startFailure through StartFailure, stopped through        *)
(* InstanceStopped, deleted through DeleteInstance (an id it no longer    *)
(* has is an error with no change); stop, restart and delete failures are *)
(* logged.                                                                 *)
(***************************************************************************)
Handles(n, k) == events[n] # <<>> /\ Head(events[n]).kind = k
Consume(n) == events' = [events EXCEPT ![n] = Tail(@)]
IfKnown(i, A) == IF i \in DOMAIN instances THEN A ELSE UNCHANGED vars

OnStats(n) ==
    /\ Handles(n, "stats")
    /\ HandleStats(n, Head(events[n]).inst, "running")
    /\ Consume(n)
    /\ UNCHANGED <<cmds, hosted, issued>>

OnStartFailure(n) ==
    /\ Handles(n, "startFailure")
    /\ IfKnown(Head(events[n]).inst, StartFailure(Head(events[n]).inst))
    /\ Consume(n)
    /\ UNCHANGED <<cmds, hosted, issued>>

OnStopped(n) ==
    /\ Handles(n, "stopped")
    /\ InstanceStopped(Head(events[n]).inst)
    /\ Consume(n)
    /\ UNCHANGED <<cmds, hosted, issued>>

OnDeleted(n) ==
    /\ Handles(n, "deleted")
    /\ IfKnown(Head(events[n]).inst, DeleteInstance(Head(events[n]).inst))
    /\ Consume(n)
    /\ UNCHANGED <<cmds, hosted, issued>>

\* A failed STOP, RESTART or DELETE is logged; the instance stays as it is.
OnFailureLogged(n) ==
    /\ \E k \in {"stopFailure", "restartFailure", "deleteFailure"} : Handles(n, k)
    /\ Consume(n)
    /\ UNCHANGED <<vars, cmds, hosted, issued>>

(***************************************************************************)
(* A disconnect loses both streams and the controller calls DeleteNode;   *)
(* the agent keeps its instances and reports them again on reconnect      *)
(* (AddNode, then stats).  A DELETE lost this way is not retried.         *)
(***************************************************************************)
Disconnect(n) ==
    /\ DeleteNode(n)
    /\ cmds' = [cmds EXCEPT ![n] = <<>>]
    /\ events' = [events EXCEPT ![n] = <<>>]
    /\ UNCHANGED <<hosted, issued>>

Reconnect(n) ==
    /\ n \notin Connected
    /\ AddNode(n)
    /\ UNCHANGED ctlVars

Handler(n) ==
    \/ OnStats(n) \/ OnStartFailure(n) \/ OnStopped(n) \/ OnDeleted(n)
    \/ OnFailureLogged(n)
Agent(n) == AgentStart(n) \/ AgentRestart(n) \/ AgentStop(n) \/ AgentDelete(n)

CNext ==
    \/ \E t \in Tenants, b \in CreateBits : CreateTenant(t, b)
    \/ \E t \in Tenants, b \in Bits : PatchTenant(t, b)
    \/ \E t \in Tenants, r \in Requests : CreateServer(t, r)
    \/ \E t \in Tenants, i \in Instances :
          DeleteServer(t, i) \/ StopServer(t, i) \/ StartServer(t, i)
    \/ \E n \in Nodes :
          \/ Agent(n) \/ Handler(n) \/ Disconnect(n) \/ Reconnect(n)
          \/ \E i \in Instances : AgentStats(n, i)
    \/ /\ \E v \in Volumes : AddBlockDevice(v) \/ DeleteBlockDevice(v) \/ AttachVolumeFailure(v)
       /\ UNCHANGED ctlVars
    \/ /\ \E i \in Instances, v \in Volumes, a \in AttachIDs : CreateStorageAttachment(i, v, a)
       /\ UNCHANGED ctlVars
    \/ \E a \in AttachIDs : DeleteStorageAttachment(a) /\ UNCHANGED ctlVars

\* Agents and the controller's frame handling are goroutines that run
\* whenever they have a frame, and an agent's stats timer fires for every
\* instance it runs; requests and disconnects come from outside.
CSpec ==
    /\ CInit /\ [][CNext]_allVars
    /\ \A n \in Nodes : WF_allVars(Agent(n)) /\ WF_allVars(Handler(n))
    /\ \A n \in Nodes, i \in Instances : WF_allVars(AgentStats(n, i))

(***************************************************************************)
(* Properties                                                              *)
(***************************************************************************)

\* ListServersDetail (the tenant's instance map) and ShowServerDetails
\* (GetTenantInstance's TenantID check) agree on which servers a tenant
\* has, across CreateServer, both delete paths and PatchTenant.
ListMatchesShow ==
    \A t \in DOMAIN tenants :
        ListServersDetail(t) = {i \in Instances : ShowServerDetails(t, i) # {}}

\* A stopped frame is only ever handled for an instance the datastore still
\* has: InstanceStopped dereferences the instance it looks up, so a stopped
\* frame for a deleted instance panics the controller.
StoppedNamesLiveInstance ==
    \A n \in Nodes : Handles(n, "stopped") => Head(events[n]).inst \in DOMAIN instances

\* The datastore catches up with what a connected agent runs: a server its
\* agent has started, restarted or kept across a reconnect is eventually
\* shown Running on that node (addInstanceStats overwriting the Pending of
\* startWorkload and InstanceRestarting and the Missing of DeleteNode),
\* unless the server is deleted, stopped or the node disconnects first.
HostedServerReported ==
    \A n \in Nodes, i \in Instances :
        (n \in Connected /\ i \in hosted[n] /\ i \in DOMAIN instances)
            ~> \/ n \notin Connected \/ i \notin hosted[n] \/ i \notin DOMAIN instances
               \/ instances[i].state = "running" /\ instances[i].node = n

(***************************************************************************)
(* Refinement: what a tenant can observe of its servers through the       *)
(* datastore (tenant and state of every cached instance, and the uuids    *)
(* issued and since deleted) behaves as ServerLifecycle allows.           *)
(***************************************************************************)
Lifecycle == INSTANCE ServerLifecycle WITH
    servers <- [i \in DOMAIN instances |->
                  [tenant |-> instances[i].tenant, state |-> instances[i].state]],
    retired <- issued \ DOMAIN instances

\* Every step of the handlers, agents, event handling and disconnects is a
\* step of the server lifecycle or leaves it unchanged: no stale stats
\* frame runs an exited server, no event moves a pending one to Exited or
\* Missing, a server never changes tenant and a deleted id never returns.
LifecycleRefined == Lifecycle!Spec
=============================================================================
