----------------------------- MODULE TenantUsage -----------------------------
(***************************************************************************)
(* Usage accounting of the ciao controller datastore (src/unnamed/part_000):*)
(* the usage fields of instanceLastStat as AddInstance, deleteInstance,    *)
(* updateInstanceStatus and addInstanceStats write them, updateTenantUsage *)
(* folding each usage delta into the tenant's history, and GetTenantUsage. *)
(*                                                                         *)
(* One usage dimension stands for VCPU, Memory and Disk, which the code    *)
(* treats alike.  now is time.Now() in minutes scaled by the clock's step; *)
(* Period is tenantUsagePeriodMinutes on the same scale.  The instance and *)
(* node records that these functions also write are InstanceLifecycle's;   *)
(* here an instance is only its tenant.  Every step holds                  *)
(* instanceLastStatLock (and tenantUsageLock inside it) for the whole      *)
(* sample, so each sample is one action.                                   *)
(***************************************************************************)
EXTENDS Integers, Sequences, SequencesExt, FiniteSets, FiniteSetsExt

CONSTANTS
    Instances,   \* instance uuids (model values)
    Tenants,     \* tenant ids (model values)
    NoTenant,    \* the empty TenantID "" of a zero-valued last stat
    Samples,     \* CPU usage values a node may report (-1: not known)
    Period,      \* tenantUsagePeriodMinutes
    MaxTime,     \* bound on the clock
    MaxTotal     \* bound on a cumulative usage total

ASSUME NoTenant \notin Tenants /\ Period >= 1 /\ MaxTime >= Period

Owners == Tenants \cup {NoTenant}

VARIABLES
    instances,   \* ds.instances: live instance id -> its tenant
    retired,     \* ids of deleted instances (uuids are not reused)
    lastStat,    \* ds.instanceLastStat: id -> [tenant, usage]
    tenantUsage, \* ds.tenantUsage: tenant -> sequence of [ts, total]
    now          \* the clock

vars == <<instances, retired, lastStat, tenantUsage, now>>

Put(f, k, v) == [x \in DOMAIN f \cup {k} |-> IF x = k THEN v ELSE f[x]]
Drop(f, k) == [x \in DOMAIN f \ {k} |-> f[x]]

\* The zero value a map lookup of a missing id yields.
ZeroStat == [tenant |-> NoTenant, usage |-> 0]
LastStatOf(i) == IF i \in DOMAIN lastStat THEN lastStat[i] ELSE ZeroStat

\* Mutant: the sample used as reported.
ReduceToZeroDropped(v) == v

ReduceToZero(v) == IF v < 0 THEN 0 ELSE v

Init ==
    /\ instances = [i \in {} |-> NoTenant]
    /\ retired = {}
    /\ lastStat = [i \in {} |-> ZeroStat]
    /\ tenantUsage = [t \in Owners |-> <<>>]
    /\ now = 0

(***************************************************************************)
(* updateTenantUsage: nothing for a zero delta; else the last entry (a     *)
(* zero one for an empty history) plus the delta is appended with the      *)
(* current time when the last entry is Period or more old, and otherwise   *)
(* replaces the last entry, keeping its timestamp.                         *)
(***************************************************************************)
\* Mutant: the in-place update stores the delta, not the running total.
UpdateTenantUsageDeltaOnly(hist, delta) ==
    IF delta = 0 THEN hist
    ELSE LET last == IF hist = <<>> THEN [ts |-> 0, total |-> 0] ELSE Last(hist)
         IN  IF hist = <<>> \/ now - last.ts >= Period
             THEN Append(hist, [ts |-> now, total |-> last.total + delta])
             ELSE [hist EXCEPT ![Len(hist)] = [ts |-> last.ts, total |-> delta]]

UpdateTenantUsage(hist, delta) ==
    IF delta = 0 THEN hist
    ELSE LET last == IF hist = <<>> THEN [ts |-> 0, total |-> 0] ELSE Last(hist)
             entry(ts) == [ts |-> ts, total |-> last.total + delta]
         IN  IF hist = <<>> \/ now - last.ts >= Period
             THEN Append(hist, entry(now))
             ELSE [hist EXCEPT ![Len(hist)] = entry(last.ts)]

(***************************************************************************)
(* GetTenantUsage(t, start, end): nothing for an empty history or one      *)
(* wholly after end or before start; else entries first .. last - 1, where *)
(* first counts the entries before start and last those before end.        *)
(***************************************************************************)
\* Mutant: last also counts an entry stamped exactly end.
GetTenantUsageClosed(t, start, end) ==
    LET h == tenantUsage[t] IN
    IF h = <<>> \/ h[1].ts > end \/ start > Last(h).ts THEN <<>>
    ELSE SubSeq(h, Cardinality({k \in DOMAIN h : start > h[k].ts}) + 1,
                   Cardinality({k \in DOMAIN h : end >= h[k].ts}))

GetTenantUsage(t, start, end) ==
    LET h == tenantUsage[t] IN
    IF h = <<>> \/ h[1].ts > end \/ start > Last(h).ts THEN <<>>
    ELSE SubSeq(h, Cardinality({k \in DOMAIN h : start > h[k].ts}) + 1,
                   Cardinality({k \in DOMAIN h : end > h[k].ts}))

-----------------------------------------------------------------------------

\* AddInstance seeds the last stat with the instance's tenant and no usage.
AddInstance(i, t) ==
    /\ i \notin DOMAIN instances \cup retired
    /\ instances' = Put(instances, i, t)
    /\ lastStat' = Put(lastStat, i, [tenant |-> t, usage |-> 0])
    /\ UNCHANGED <<retired, tenantUsage, now>>

\* deleteInstance drops the last stat; the tenant's usage is left as it is.
DeleteInstance(i) ==
    /\ i \in DOMAIN instances
    /\ instances' = Drop(instances, i)
    /\ retired' = retired \cup {i}
    /\ lastStat' = Drop(lastStat, i)
    /\ UNCHANGED <<tenantUsage, now>>

\* updateInstanceStatus (InstanceRestarting, InstanceStopped) replaces the
\* last stat with one that has neither TenantID nor usage.
UpdateInstanceStatus(i) ==
    /\ i \in DOMAIN instances
    /\ lastStat' = Put(lastStat, i, ZeroStat)
    /\ UNCHANGED <<instances, retired, tenantUsage, now>>

(***************************************************************************)
(* One sample of addInstanceStats, for any id a node reports (a deleted    *)
(* one included): the delta of the clamped sample against the last stat   *)
(* goes to the last stat's tenant, and the sample replaces the last stat,  *)
(* inheriting its TenantID.                                                *)
(***************************************************************************)
AddInstanceStat(i, cpu) ==
    LET last  == LastStatOf(i)
        usage == ReduceToZero(cpu)
        hist  == UpdateTenantUsage(tenantUsage[last.tenant], usage - last.usage)
    IN  /\ hist # <<>> => Last(hist).total \in -MaxTotal .. MaxTotal
        /\ tenantUsage' = [tenantUsage EXCEPT ![last.tenant] = hist]
        /\ lastStat' = Put(lastStat, i, [tenant |-> last.tenant, usage |-> usage])
        /\ UNCHANGED <<instances, retired, now>>

Tick ==
    /\ now < MaxTime
    /\ now' = now + 1
    /\ UNCHANGED <<instances, retired, lastStat, tenantUsage>>

Next ==
    \/ \E i \in Instances, t \in Tenants : AddInstance(i, t)
    \/ \E i \in Instances : DeleteInstance(i) \/ UpdateInstanceStatus(i)
    \/ \E i \in Instances, cpu \in Samples : AddInstanceStat(i, cpu)
    \/ Tick

Spec == Init /\ [][Next]_vars

-----------------------------------------------------------------------------

TypeOK ==
    /\ instances \in [DOMAIN instances -> Tenants] /\ DOMAIN instances \subseteq Instances
    /\ retired \subseteq Instances /\ DOMAIN instances \cap retired = {}
    /\ DOMAIN lastStat \subseteq Instances
    /\ \A i \in DOMAIN lastStat : lastStat[i].tenant \in Owners /\ lastStat[i].usage >= 0
    /\ \A t \in Owners : tenantUsage[t] \in Seq([ts : 0 .. MaxTime, total : Int])
    /\ now \in 0 .. MaxTime

\* The latest cumulative total of a tenant's usage history.
Total(t) == IF tenantUsage[t] = <<>> THEN 0 ELSE Last(tenantUsage[t]).total

\* The usage last reported by the instances whose last stat names t.
LiveUsage(t) ==
    MapThenSumSet(LAMBDA i : lastStat[i].usage,
                  {i \in DOMAIN lastStat : lastStat[i].tenant = t})

\* A tenant's history never under-reports: its latest total is at least the
\* usage its instances last reported.  Deltas from addInstanceStats,
\* in-place updates and new entries of updateTenantUsage, and the last
\* stats dropped by deleteInstance or reset by updateInstanceStatus must all
\* keep the running total ahead of the last-stat table.
UsageCoversLiveInstances == \A t \in Owners : Total(t) >= LiveUsage(t)

\* GetTenantUsage returns exactly the entries stamped in [start, end) (spec
\* 4.9), for every window with start <= end: its two counters and its
\* early returns agree with the half-open window on every reachable history.
WindowIsHalfOpen ==
    \A t \in Owners, start, end \in 0 .. MaxTime :
        start <= end =>
            GetTenantUsage(t, start, end) =
                SelectSeq(tenantUsage[t], LAMBDA e : start <= e.ts /\ e.ts < end)
=============================================================================
