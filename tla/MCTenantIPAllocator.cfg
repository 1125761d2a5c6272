\* Allocation and release by two goroutines under a store that may fail.
CONSTANTS
    Tenants = {t1}
    Threads = {th1, th2}
    MaxHosts = 4
    SlotSize = 24
    MaxNum = 2
    StoreMayFail = TRUE
    NoTenant = NoTenant
SPECIFICATION Spec
SYMMETRY ThreadSymmetry
INVARIANT TypeOK
INVARIANT NoDuplicateAssignment
PROPERTY CacheMarkFollowsClaim
PROPERTY AllocatorRefined
PROPERTY AllocationReturnsNum
