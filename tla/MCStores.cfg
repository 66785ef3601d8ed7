SPECIFICATION StoresSpec
CONSTANTS
    MaxOrder = 3
    ShardCount = 2
    FramesPerBlock = 3
    Regions <- TwoRegions
    CacheLimit = 1
    CacheBatch = 2
    ReserveMax = 1
    Orders = {0, 1}
    Addresses <- FiveAddresses
    Flags <- TwoFlags
    Prios <- FourPrios
    Procs = {p1, p2}
    InitProc = p1
    Handles = {h1, h2}
    Free = Free
    FdLimit = 1
    TopFd = 2
    MaxLeaked = 1
CHECK_DEADLOCK FALSE
SYMMETRY HandleSymmetry
INVARIANTS
    TablesExact
    FramesKept
    ListsKept
    AreasKept
    AreasAgree
PROPERTIES
    ImplementsFrames
