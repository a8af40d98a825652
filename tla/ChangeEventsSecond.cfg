SPECIFICATION Spec
CONSTANTS
    Listeners = {"l1", "l2"}
    Subs <- SingleSubs
    Priority <- SinglePriority
    DoneOnly = {}
    CountSize = 8
    FailingStore = FALSE
    MaxChanges = 2
INVARIANTS
    SecondEvent
CHECK_DEADLOCK FALSE
