SPECIFICATION Spec
CONSTANTS
    Tasks = {t1, t2}
    Worker = worker
    Nobody = nobody
    Caps = {1}
    Sizes = {1}
    Faults = {"io", "rofs"}
    Ops = {"update", "meta", "flush", "kick", "wait"}
    OffsetMax = 4
    FifoSize = 2
    MaxSeq = 3
    MaxCalls = 2
CHECK_DEADLOCK FALSE
SYMMETRY Symmetric
INVARIANTS
    TypeOK
    ReservationsSound
    WritesInOrder
    PinnedUpdatesSurvive
    FlushedIsDurable
