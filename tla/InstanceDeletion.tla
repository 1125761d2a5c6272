--------------------------- MODULE InstanceDeletion ---------------------------
(***************************************************************************)
(* The steps of deleteInstance (src/unnamed/part_000) as two goroutines    *)
(* run them for one instance.  DeleteInstance and a fatal StartFailure     *)
(* both look the instance up with GetInstance and then call               *)
(* deleteInstance, which takes and drops instanceLastStatLock,            *)
(* instancesLock and tenantsLock one after the other.  InstanceLifecycle  *)
(* makes each datastore function one step; here each critical section is  *)
(* one step, so that two deletions of one instance can interleave: a REST *)
(* DeleteServer of a Pending instance (no node, so the controller calls   *)
(* DeleteInstance at once) and the startFailure event of its START, or    *)
(* two DeleteServer requests for it.                                       *)
(*                                                                         *)
(* The instance is a Pending one, cached with its store row, its last stat *)
(* and its entry in the tenant's map.  What follows the tenant step (the   *)
(* node map, the second store delete, ReleaseTenantIP and                 *)
(* updateStorageAttachments) is one step: InstanceLifecycle has its        *)
(* effect.                                                                 *)
(***************************************************************************)
EXTENDS Naturals

CONSTANTS
    Callers,       \* goroutines that may delete the instance
    StoreMayFail   \* whether db.deleteInstance may return an error

VARIABLES
    row,           \* the instance's row in the persistent store
    lastStat,      \* ds.instanceLastStat has an entry for it
    cached,        \* ds.instances has it
    inTenant,      \* the tenant's instances map has it
    pc,            \* caller -> the step it is at
    got            \* caller -> whether i := ds.instances[id] was non-nil

vars == <<row, lastStat, cached, inTenant, pc, got>>

Steps == {"idle", "deleteRow", "lastStat", "instances", "tenants", "rest", "crashed"}

Init ==
    /\ row = TRUE /\ lastStat = TRUE /\ cached = TRUE /\ inTenant = TRUE
    /\ pc = [g \in Callers |-> "idle"]
    /\ got = [g \in Callers |-> FALSE]

Frame == UNCHANGED <<row, lastStat, cached, inTenant, got>>

(***************************************************************************)
(* DeleteInstance and StartFailure: GetInstance under instancesLock (R)   *)
(* returns ErrInstanceNotFound for an id not cached; otherwise            *)
(* deleteInstance follows, for StartFailure only on a fatal reason that   *)
(* is not a migration (else it counts the failure and logs, which this    *)
(* module does not track).                                                *)
(***************************************************************************)
DeleteInstance(g) ==
    /\ pc[g] = "idle"
    /\ pc' = [pc EXCEPT ![g] = IF cached THEN "deleteRow" ELSE "idle"]
    /\ Frame

StartFailure(g, fatal) ==
    /\ pc[g] = "idle"
    /\ pc' = [pc EXCEPT ![g] = IF cached /\ fatal THEN "deleteRow" ELSE "idle"]
    /\ Frame

\* db.deleteInstance: an error returns before any cache is touched.
DeleteRow(g) ==
    /\ pc[g] = "deleteRow"
    /\ \/ row' = FALSE /\ pc' = [pc EXCEPT ![g] = "lastStat"]
       \/ StoreMayFail /\ pc' = [pc EXCEPT ![g] = "idle"] /\ UNCHANGED row
    /\ UNCHANGED <<lastStat, cached, inTenant, got>>

\* Under instanceLastStatLock: delete(ds.instanceLastStat, id).
DropLastStat(g) ==
    /\ pc[g] = "lastStat"
    /\ lastStat' = FALSE
    /\ pc' = [pc EXCEPT ![g] = "instances"]
    /\ UNCHANGED <<row, cached, inTenant, got>>

\* Under instancesLock: i := ds.instances[id], nil if another caller has
\* already deleted it, then delete(ds.instances, id).
TakeInstance(g) ==
    /\ pc[g] = "instances"
    /\ got' = [got EXCEPT ![g] = cached]
    /\ cached' = FALSE
    /\ pc' = [pc EXCEPT ![g] = "tenants"]
    /\ UNCHANGED <<row, lastStat, inTenant>>

\* Under tenantsLock: ds.tenants[i.TenantID], then delete from its map.
\* For a nil i the field access panics and the controller goes down.
DropFromTenant(g) ==
    /\ pc[g] = "tenants"
    /\ IF got[g]
       THEN inTenant' = FALSE /\ pc' = [pc EXCEPT ![g] = "rest"]
       ELSE pc' = [pc EXCEPT ![g] = "crashed"] /\ UNCHANGED inTenant
    /\ UNCHANGED <<row, lastStat, cached, got>>

\* The node map, the second db.deleteInstance, ReleaseTenantIP and
\* updateStorageAttachments; the caller returns.
Finish(g) ==
    /\ pc[g] = "rest"
    /\ pc' = [pc EXCEPT ![g] = "idle"]
    /\ Frame

Next ==
    \E g \in Callers :
        \/ DeleteInstance(g)
        \/ \E fatal \in BOOLEAN : StartFailure(g, fatal)
        \/ DeleteRow(g) \/ DropLastStat(g) \/ TakeInstance(g)
        \/ DropFromTenant(g) \/ Finish(g)

Spec == Init /\ [][Next]_vars

-----------------------------------------------------------------------------

TypeOK ==
    /\ {row, lastStat, cached, inTenant} \subseteq BOOLEAN
    /\ pc \in [Callers -> Steps]
    /\ got \in [Callers -> BOOLEAN]

\* deleteInstance only dereferences an instance it found: the lookup of
\* DeleteInstance or StartFailure and the read under instancesLock are two
\* critical sections, and no other caller may delete the instance between
\* them (line 1131 dereferences the value read at line 1126).
DeleteReadsLiveInstance == \A g \in Callers : pc[g] = "tenants" => got[g]
=============================================================================
