CONSTANTS
    t1 = t1  i1 = i1  i2 = i2  n1 = n1  n2 = n2  v1 = v1  a1 = a1  a2 = a2
    NoNode = NoNode
    Tenants = {t1}
    Bits = {24}
    Instances <- MCInstances
    AttachIDs <- MCAttachIDs
    Nodes = {n1, n2}
    Volumes = {v1}
SYMMETRY Symmetry
SPECIFICATION Spec
PROPERTY MissingOnlyWithItsNode
