SPECIFICATION LiveSpec
CONSTANTS
    c1 = c1
    c2 = c2
    None = None
    Parent <- Pair
    Closures = {c1, c2}
    Stack = {c1}
    Wakers = {w1}
    MaxRefs = 1
    MaxStages = 1
    Works = {d1, d2}
    WqTasks = {t1, t2}
    NoWork = NoWork
    Delays = {0, 1, 2}
    MaxJiffies = 2
    MaxWqCalls = 3
    SameExpiry = FALSE
    FastDevs = {1}
    SlowDevs = {2}
    SoleDevs = {1}
    FsWriters = {w1}
    NoOwner = NoOwner
    MaxFsOps = 2
    MaxFsWrites = 1
CHECK_DEADLOCK FALSE
INVARIANTS
    AsyncTypeOK
    ClosureSafe
    BackgroundSafe
PROPERTIES
    EventuallyContinues
    BarrierSpec
    CancelSyncQuiesces
    CallsReturn
