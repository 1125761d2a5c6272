\* Every store call may fail except the db.updatePool that follows a
\* mapping change in MapExternalIP and UnMapExternalIP.
CONSTANTS
    PoolIDs = {p1, p2}
    Cidrs <- MCCidrs
    IPs = {1, 12}
    FailSites = {"addPool", "updatePool", "addMappedIP", "deleteMappedIP"}
SPECIFICATION Spec
SYMMETRY PoolSymmetry
INVARIANT TypeOK FreeAccounting MappingsBelongToPools
