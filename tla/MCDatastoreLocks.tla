-------------------------- MODULE MCDatastoreLocks --------------------------
(* DatastoreLocks with the controller's datastore calls.                  *)
EXTENDS DatastoreLocks

\* Every modelled call except GetInstanceLastStats.
MCCallsWithoutLastStats ==
    {"AddInstance", "HandleStats", "DeleteInstance", "AddWorkload",
     "DeleteWorkload", "AddImage", "DeleteImage", "GetImages",
     "DeleteBlockDevice", "CreateStorageAttachment", "AllocateTenantIPPool",
     "MapExternalIP"}

\* The two calls whose nested locks run in opposite orders.
MCCallsLastStats == {"AddInstance", "GetInstanceLastStats"}
=============================================================================
