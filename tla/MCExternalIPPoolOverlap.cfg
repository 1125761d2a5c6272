\* No store failures: subnet and IP registration alone.
CONSTANTS
    PoolIDs = {p1, p2}
    Cidrs <- MCCidrs
    IPs = {1, 12}
    FailSites = {}
SPECIFICATION Spec
SYMMETRY PoolSymmetry
INVARIANT FreeImpliesMappable
