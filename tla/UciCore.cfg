SPECIFICATION FairSpec
CONSTANTS
    Hdr = {reset, start}
    ZeroHdr = reset
    Tag = {t1}
    MaxRetry = 1
    QueueLen = 2
INVARIANTS
    TypeOK
    WindowInv
    NoSilentWait
    TimeoutHasCommand
PROPERTIES
    Abstract
    CommandResolved
