SPECIFICATION Spec
CONSTANTS
    Listeners = {"l1", "l2"}
    Subs <- MCSubs
    Priority <- MCPriority
    DoneOnly = {"e"}
    CountSize = 8
    FailingStore = TRUE
    MaxChanges = 2
INVARIANTS
    TypeOK
    StoredIsAgreed
    AbortReachesAccepted
    NoEventLeft
CHECK_DEADLOCK FALSE
