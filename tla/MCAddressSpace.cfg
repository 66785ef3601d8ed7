CONSTANTS
    t1 = t1
    t2 = t2
    Tasks <- TwoTasks
    Boot = t1
    NFrames = 17
    PageSize = 2
    NPages = 8
    Path <- TwoP1s
    Images <- AllImages
    StackTop = 14
    StackBottom = 12
    StackLimit = 8
    HeapMax = 8
    Accesses <- HeapAndStack
    Stores <- HeapPage
    MaxCalls = 5
    Increments <- SomeIncrements
SPECIFICATION Spec
CHECK_DEADLOCK FALSE
INVARIANTS
    FramesAccounted
    PagesAccounted
    HeapAndStackKept
PROPERTIES
    DataFollowsPage
