SPECIFICATION Spec
CONSTANTS
    MaxPacket = 5
    MaxEmpty = 2
    MaxRecovery = 2
    CutsPost = FALSE
INVARIANTS
    BufferIntact
    InOrder
PROPERTY PacketTaken
CHECK_DEADLOCK FALSE
