\* A tenant-private image and a later system image with the same name.
CONSTANTS
    t1 = t1
    admin = admin
    m1 = m1
    m2 = m2
    x = x
    y = y
    w1 = w1
    NoTenantID = NoTenantID
    TenantIDs = {t1, admin}
    Admin = admin
    NoTenant = NoTenantID
    ImageIDs = {m1, m2}
    Names = {x, y}
    WorkloadIDs = {w1}
SPECIFICATION Spec
INVARIANT ImageNamesUnique
