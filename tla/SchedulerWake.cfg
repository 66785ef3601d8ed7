SPECIFICATION Spec
CONSTANTS
    MaxPid = 3
    MaxCalls = 4
    MaxKeys = 2
    BufSize = 3
    ReadLen = 2
    MaxLag = 2
    ExitCodes = {7}
PROPERTY ParentWakes
