SPECIFICATION StackSpec
CONSTANTS
    Hdr = {reset, start}
    ZeroHdr = reset
    Tag = {1,2}
    MaxRetry = 0
    QueueLen = 3
    MaxCalls = 2
    Kinds = {"plain", "raw"}
    MaxNtf = 0
    MaxFault = 1
    Timely = FALSE
    Outranked = FALSE
PROPERTY
    CallReturns
CHECK_DEADLOCK FALSE
