SPECIFICATION LiveSpec
CONSTANTS
    Tasks = {t1, t2}
    Worker = worker
    Nobody = nobody
    Caps = {1}
    Sizes = {1}
    Faults = {"halt"}
    Ops = {"meta", "wait"}
    OffsetMax = 4
    FifoSize = 3
    MaxSeq = 2
    MaxCalls = 2
CHECK_DEADLOCK FALSE
PROPERTIES
    SwitchedFlushReturns
INVARIANTS
    JournalProceeds
