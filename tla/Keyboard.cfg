SPECIFICATION FairSpec
CONSTANTS
    Keys = {"r", "1", "shift", "ctrl", "caps"}
    Symbols = {"1"}
    Extended = {"ctrl"}
    BufSize = 3
    OutLen = 1
    MaxEvents = 3
CHECK_DEADLOCK FALSE
INVARIANTS
    DecoderAgrees
PROPERTIES
    InputIsRead
