SPECIFICATION Spec
CONSTANTS
    Paths <- MCPaths
    NewNames = {"a"}
    Devices <- MCDevices
    Archives <- MCArchives
    Budget = 8
    MaxFiles = 1
    Values = {"x"}
    MaxOffset = 1
    MaxCalls = 4
CHECK_DEADLOCK FALSE
INVARIANTS
    FilesKept
PROPERTIES
    LostOnlyByMount
