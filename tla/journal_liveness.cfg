CONSTANTS
    k1 = k1
    k2 = k2
    c1 = c1
    c2 = c2
    o1 = o1
    o2 = o2
    Absent = Absent
    None = None
    Keys <- MCOneKey
    Contents <- MCContents
    Ops <- MCOps
    Kinds <- MCAllKinds
    MaxFaults = 2
SPECIFICATION FairSpec
PROPERTIES
    InterruptedResolves
