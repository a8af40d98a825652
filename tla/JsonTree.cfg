SPECIFICATION FairSpec
CONSTANTS
    MaxNodes = 4
    Contents = {"none", "STRING", "NUMBER", "junk"}
INVARIANTS
    TypeOK
    TreeLinks
    WalkOnLiveNodes
    WholeTreeFreed
    OnlyOrphansLeft
    AcceptedShape
PROPERTIES
    SiblingsKept
    FreeTerminates
    RecognisesGrammar
