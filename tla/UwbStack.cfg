SPECIFICATION StackSpec
CONSTANTS
    Hdr = {reset, start}
    ZeroHdr = reset
    Tag = {1,2,3}
    MaxRetry = 1
    QueueLen = 3
    MaxCalls = 3
    Kinds = {"plain", "raw"}
    MaxNtf = 2
    MaxFault = 0
    Timely = TRUE
    Outranked = FALSE
INVARIANTS
    StackTypeOK
    OkIsOwn
    TimeoutIsReal
    NoStaleToken
PROPERTIES
    NoCommandDropped
    WokenByCore
CHECK_DEADLOCK FALSE
