\* A release racing an allocation, then a controller restart; the store never fails.
CONSTANTS
    Tenants = {t1}
    Threads = {th1, th2}
    MaxHosts = 4
    SlotSize = 8
    MaxNum = 1
    StoreMayFail = FALSE
    NoTenant = NoTenant
SPECIFICATION SpecWithRestart
SYMMETRY ThreadSymmetry
INVARIANT NoDuplicateAssignment
