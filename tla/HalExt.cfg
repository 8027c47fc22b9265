SPECIFICATION Spec
CONSTANTS
    MAX_RETRY_COUNT = 3
    MaxCmd = 2
    MaxLost = 2
    MaxFail = 2
INVARIANTS
    OkMeansAnswered
    FailureIsReal
    KeptFromCore
PROPERTY ExtReturns
CHECK_DEADLOCK FALSE
