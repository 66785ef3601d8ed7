SPECIFICATION Spec
CONSTANTS
    LastCluster = 5
    ClusterSize = 3
    ShortNames = {"a", "A", "B"}
    LongNames = {"long"}
    Upper <- MCUpper
    Extents <- MCExtents
    MaxCalls = 4
    MaxCrashes = 1
CHECK_DEADLOCK FALSE
INVARIANTS
    ChainsKept
    TreeAgrees
    ReadsBack
PROPERTIES
    LeaksExplained
