SPECIFICATION Spec
CONSTANTS
    Tasks = {t1, t2}
    Worker = worker
    Nobody = nobody
    Caps = {1}
    Sizes = {1}
    Faults = {}
    Ops = {"update"}
    OffsetMax = 4
    FifoSize = 3
    MaxSeq = 3
    MaxCalls = 3
CHECK_DEADLOCK FALSE
SYMMETRY Symmetric
INVARIANTS
    UpdatesSurvive
