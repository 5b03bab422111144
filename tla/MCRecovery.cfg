SPECIFICATION LiveSpec
CONSTANTS
    Devs = {d1}
    Nodes = {n1}
    NrBuckets = 4
    BucketSize = 1
    Replicas = 1
    Discard = {TRUE}
    Faults = {"torn"}
    OldSeq = 2
    MaxSeq = 5
    MaxUpdates = 1
    MaxMounts = 3
CHECK_DEADLOCK FALSE
INVARIANTS
    TypeOK
    JournalComplete
    CrashSafe
    MountableAgain
    
PROPERTIES
    NewestNeverLost
    
