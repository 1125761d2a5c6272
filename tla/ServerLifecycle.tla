-------------------------- MODULE ServerLifecycle --------------------------
(***************************************************************************)
(* What the controller promises a tenant about its servers, whatever the  *)
(* nodes and the connections to them do: a server has the tenant it was   *)
(* created for, moves only along the lifecycle of the datastore's         *)
(* instance states (spec section 4.5), and its id, once deleted, never    *)
(* names a server again.                                                  *)
(*                                                                         *)
(*   created -> pending -> running <-> missing                           *)
(*                           |                                           *)
(*              pending <- exited                 any state -> deleted  *)
(*                                                                         *)
(* A stats report runs a pending or missing server; only a stop exits a   *)
(* running one, only a restart takes an exited one back to pending, and a *)
(* node failure makes running servers missing, several at once.           *)
(***************************************************************************)
CONSTANTS Instances, Tenants

VARIABLES
    servers,   \* id -> [tenant, state] of every server that exists
    retired    \* ids of deleted servers

absVars == <<servers, retired>>

Server(t, st) == [tenant |-> t, state |-> st]

Init ==
    /\ servers = [i \in {} |-> {}]
    /\ retired = {}

\* CreateServer: fresh ids become Pending servers of tenant t.
Create(t, S) ==
    /\ S # {}
    /\ S \cap (DOMAIN servers \cup retired) = {}
    /\ servers' = [i \in DOMAIN servers \cup S |->
                      IF i \in S THEN Server(t, "pending") ELSE servers[i]]
    /\ UNCHANGED retired

SetState(i, st) == servers' = [servers EXCEPT ![i].state = st]

\* A node reports the server running.
Report(i) ==
    /\ servers[i].state \in {"pending", "missing"}
    /\ SetState(i, "running")
    /\ UNCHANGED retired

Stop(i) ==
    /\ servers[i].state = "running"
    /\ SetState(i, "exited")
    /\ UNCHANGED retired

Restart(i) ==
    /\ servers[i].state = "exited"
    /\ SetState(i, "pending")
    /\ UNCHANGED retired

\* A node goes: the running servers L on it become Missing.
Lose(L) ==
    /\ L # {}
    /\ \A i \in L : servers[i].state = "running"
    /\ servers' = [i \in DOMAIN servers |->
                      IF i \in L THEN [servers[i] EXCEPT !.state = "missing"] ELSE servers[i]]
    /\ UNCHANGED retired

Delete(i) ==
    /\ servers' = [j \in DOMAIN servers \ {i} |-> servers[j]]
    /\ retired' = retired \cup {i}

Next ==
    \/ \E t \in Tenants, S \in SUBSET Instances : Create(t, S)
    \/ \E i \in DOMAIN servers : Report(i) \/ Stop(i) \/ Restart(i) \/ Delete(i)
    \/ \E L \in SUBSET DOMAIN servers : Lose(L)

Spec == Init /\ [][Next]_absVars
=============================================================================
