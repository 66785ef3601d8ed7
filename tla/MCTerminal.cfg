SPECIFICATION Spec
CONSTANTS
    MaxEscValues = 5
    ValueLimit = 2048
    OscLimit = 2
    Cp437 <- MCCp437
    Combining <- MCCombining
    Wide <- MCWide
    Scenarios <- MCScenarios
CHECK_DEADLOCK FALSE
INVARIANTS
    ScreenKept
    ParserKept
PROPERTIES
    ShowsWhatWasDrawn
    MarginsRespected
