\* Samples, deletions and status resets of two instances against the clock.
CONSTANTS
    i1 = i1
    i2 = i2
    t1 = t1
    NoTenantID = NoTenantID
    Instances <- MCInstances
    Tenants <- MCTenants
    NoTenant = NoTenantID
    Samples <- MCSamples
    Period = 2
    MaxTime = 4
    MaxTotal = 3
SPECIFICATION Spec
SYMMETRY InstanceSymmetry
INVARIANT TypeOK
INVARIANT UsageCoversLiveInstances
INVARIANT WindowIsHalfOpen
