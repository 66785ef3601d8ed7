SPECIFICATION Spec
CONSTANTS
    MaxBus = 1
    MaxDevice = 1
    MaxFunction = 1
    RingSize = 3
    MinFrame = 2
    BufSize = 3
    SendLengths = {0, 1, 3, 4}
    PieceLengths = {1, 3}
    RecvLengths = {1, 3}
    MaxPackets = 5
    MaxEntries = 9
    MaxPciNodes = 2
    SectorSize = 2
    SectorCounts = {3}
    LbaLimit = 4
    Attempts = 3
    RamBytes = 5
    MaxCalls = 2
    Requests <- MCRequests
    Machines <- MCMachines
\* Programs may stop calling, and the calls are bounded.
CHECK_DEADLOCK FALSE
INVARIANTS
    DevicesBound
    TransmitsInOrder
    ReceivedInOrder
    TransfersExact
PROPERTIES
    DriversProgress
