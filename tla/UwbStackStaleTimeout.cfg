SPECIFICATION StackSpec
CONSTANTS
    Hdr = {reset, start}
    ZeroHdr = reset
    Tag = {1,2}
    MaxRetry = 0
    QueueLen = 3
    MaxCalls = 2
    Kinds = {"plain"}
    MaxNtf = 0
    MaxFault = 0
    Timely = FALSE
    Outranked = TRUE
INVARIANT
    TimeoutIsReal
CHECK_DEADLOCK FALSE
