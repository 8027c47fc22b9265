SPECIFICATION Spec
CONSTANTS
    Session = {1, 2}
    MaxCall = 3
    MaxFault = 1
INVARIANTS
    TypeOK
    OkIsTrue
    DoneIsOk
    NothingLeft
PROPERTY CallReturns
CHECK_DEADLOCK FALSE
