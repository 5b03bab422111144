SPECIFICATION Spec
CONSTANTS
    MaxNode = 10
    MaxUpdate = 3
    Outstanding = 3
    NodeKids = 2
    Leaves <- ThreeKeys
    Blocks = 3
    Values = {1, 2}
    KeySizeMax = 4
    MaxInserts = 4
    MaxBsets = 2
    KeyPos = {1, 2}
    KeyVals = {1, 2}
    KeyBsets = 3
    MaxKeyOps = 5
    FieldBits = 2
    KeyInodes = {0, 1}
    Boxes <- TwoInodes
    WordBits = 2
    ByteBits = 2
    Cacheline = 2
    L1Bytes = 1
    RwCapacity = 3
    RoCapacity = 5
    BfloatWide = 2
    BitsWide = 2
    BitsNarrow = 1
    MaxKeys = 3
    MaxDead = 0
    MaxValU64s = 1
    HtObjs = {o1, o2, o3}
    HtKeys = {1, 2, 3}
    HtUsers = {u1, u2}
    HtNone = none
    MinSize = 4
    Elasticity = 2
    Hashes <- TwoHashes
    Fillers = {0, 3}
    Tables = {1, 2, 3}
    MaxHtOps = 2
SYMMETRY Symmetric
CHECK_DEADLOCK FALSE
INVARIANTS
    BtreeTypeOK
    InteriorUpdatesSafe
    NodeContentsSafe
    
