SPECIFICATION Spec
CONSTANTS
    MaxCrash = 3
    MaxCall = 3
    MaxRetry = 2
    ErrorQueue = 2
CHECK_DEADLOCK FALSE
INVARIANTS
    InitSurvives
    QueueOutlivesSenders
    FreshStart
    UpMeansUp
PROPERTIES
    ComesBack
