SPECIFICATION Spec
CONSTANTS
    Hdr = {start, info}
    NoHdr = NoHdr
    Payload = 8
    Lens = {3, 8}
    Size = 24
    Word = 65536
    MaxFrag = 3
    MaxMsg = 3
    MaxLoss = 0
    RawOn = FALSE
PROPERTY
    DataComplete
CHECK_DEADLOCK FALSE
