SPECIFICATION FairSpec
CONSTANTS
    Threads = {t1, t2, t3, t4}
    QueueSize = 3
    Tickets = 4
INVARIANTS
    TypeOK
    Exclusion
    NoTicketLost
    NoLostWakeup
PROPERTIES
    FirstComeFirstServed
    TurnComes
