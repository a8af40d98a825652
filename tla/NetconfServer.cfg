SPECIFICATION FairSpec
CONSTANTS
    Threads = {t1, t2}
    Sessions = {s1, s2}
INVARIANTS
    TypeOK
    PollIsSafe
    FreedOnce
    BusyIsLocked
    IndicesInside
PROPERTIES
    EndedIsFreed
    ServerStops
