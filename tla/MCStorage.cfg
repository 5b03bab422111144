SPECIFICATION Spec
SYMMETRY Symmetry
CONSTANTS
    Buckets = {b1, b2, b3, b4}
    Nodes = {1, 2}
    FreeIncSize = 2
    NoneSize = 1
    GenMod = 4
    GcGenMax = 2
    StaleMax = 0
    SectorsMax = 1
    MaxOps = 4
    Cpus = {c1, c2}
    Holders = {h1, h2}
    Capacity = 6
    SectorsCache = 2
    Requests = {1, 2}
    U64 = 32
    MaxTaken = 4
    SaDevs = {d1, d2}
    Obs = {1, 2, 3}
    SaTasks = {t1, t2}
    StopDev = d1
    BucketSize = 2
    BucketsPerDev = 2
    MaxAllocs = 3
    RbMax = 7
CHECK_DEADLOCK FALSE
INVARIANTS
    StorageTypeOK
    IndexReadable
    DiskReadable
    
