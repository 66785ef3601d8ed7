SPECIFICATION Spec
CONSTANTS
    MyIp <- Me
    WebServer <- Web
    LinkHosts <- OnLink
    DefaultConfig <- Right
    Zone <- Names
    Refused = {"tooLong"}
    Unencodable = {"a..b"}
    Commands <- Typing
    ArpWait = 1
    DnsWait = 1
    SynWait = 1
    SynTries = 2
    ResendAfter = 1
    Resends = 1
    GetLimit = 1
    PingWait = 1
    DumpWait = 1
    DumpCount = 2
    SeqSpace = 16
    Iss <- InitialNumbers
    ResponseLen = 2
    RxSlots = 2
    MaxCommands = 2
    MaxFaults = 2
    MaxNoisyFaults = 0
CHECK_DEADLOCK FALSE
INVARIANTS
    StreamInOrder
    AnswersMatch
    ConversionsAgree
    ClockAgrees
PROPERTIES
    CommandsEnd
