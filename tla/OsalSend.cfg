SPECIFICATION Spec
CONSTANTS
    Sender = {"client", "app", "recovery", "daemon"}
    Prio <- MCPrio
    Kind <- MCKind
    TaskPrio = 5
    MaxSend = 4
INVARIANT OnlyOvertakenSuffer
CHECK_DEADLOCK FALSE
