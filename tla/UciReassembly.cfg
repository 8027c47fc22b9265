SPECIFICATION Spec
CONSTANTS
    Hdr = {start, info}
    NoHdr = NoHdr
    Payload = 8
    Lens = {3, 8}
    Size = 24
    Word = 65536
    MaxFrag = 3
    MaxMsg = 3
    MaxLoss = 2
    RawOn = TRUE
INVARIANTS
    ReassemblyTypeOK
    ChainFits
    OneHeader
    ControlLength
PROPERTY
    Contained
CHECK_DEADLOCK FALSE
