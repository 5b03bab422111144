SPECIFICATION Spec
CONSTANTS
    NrBufs = 4
    Walkers = {t1, t2}
    MaxPtr = 4
    Kids = 2
    Reserve = 3
    NoTask = NoTask
    Sleepers = {t1, t2, s3}
    Bits = {b1}
    Permits = 1
    MaxDone = 2
    NoBit = NoBit
    Blocks = {1, 2}
    Users = {t1, t2}
    KeybufSize = 1
    MaxBios = 2
    DBlocks = {1, 2}
    Tasks = {t1, t2}
    Fast = {1, 2}
    Slow = {3}
    BucketSize = 2
    Replicas = 1
    MaxOps = 3
    MaxGen = 2
    SbDevs = {1, 2}
    SbFree = SbFree
    Wanted = 2
    MaxSbOps = 3
SYMMETRY Symmetry
CHECK_DEADLOCK FALSE
INVARIANT MovesKeepData
