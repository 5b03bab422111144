SPECIFICATION FairSpec
CONSTANTS
    t1 = t1
    t2 = t2
    t3 = t3
    a = a
    b = b
    c = c
    d = d
    Threads = {t1, t2, t3}
    Iters = {a, b, c, d}
    Owner <- MCOwner
    NoThread = NoThread
    NoIter = NoIter
    SeqWrap = 8
    MaxWrites = 1
CHECK_DEADLOCK FALSE
INVARIANTS
    TypeOK
    WriteExcludes
    WordCountsRefs
    RelockIsCurrent
PROPERTIES
    SleepersWake
