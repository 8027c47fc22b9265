SPECIFICATION Spec
CONSTANTS
    MaxTimer = 2
    Handles = 4
    MaxPosted = 2
    MaxQueued = 6
INVARIANTS
    PoolSuffices
    OnlyOwnTimer
    Watched
    NoLeftover
CHECK_DEADLOCK FALSE
