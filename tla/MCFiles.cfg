SPECIFICATION Spec
CONSTANTS
    HashDirs = {d1}
    DirNames = {a, b, c}
    HashSlots = {1, 2, 3, 4, 5}
    HashRange = {1, 2, 3}
    DirInums = {1}
    Inums = {1, 2, 3, 4}
    FileNames = {"a", "lf"}
    LostFound = "lf"
    NsTasks = {t1, t2}
    MaxNsOps = 3
    FPages = {0, 1}
    MaxFops = 4
CHECK_DEADLOCK FALSE
INVARIANTS
    FilesTypeOK
    NamesFound
    
    
