CONSTANTS
    t1 = t1
    t2 = t2
    i1 = i1
    n1 = n1
    n2 = n2
    v1 = v1
    a1 = a1
    a2 = a2
    NoNode = NoNode
    Tenants = {t1, t2}
    Instances = {i1}
    Nodes = {n1, n2}
    Volumes = {v1}
    AttachIDs = {a1, a2}
    Bits = {31}
    CreateBits = {0, 31}
    Requests <- MCRequests
    MaxQueue = 2
SPECIFICATION CSpec
INVARIANT ListMatchesShow StoppedNamesLiveInstance NodeLinksAgree IndexNamesLiveAttachment
PROPERTY HostedServerReported LifecycleRefined
