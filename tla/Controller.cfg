SPECIFICATION FairSpec
CONSTANTS
    Names = {"a", "b"}
    Nodes <- AllNodes
    Configs <- SomeConfigs
    Garbage <- SomeGarbage
    IntSize = 1048576
    MaxRuns = 2
INVARIANTS
    TypeOK
    Faithful
    NoOutputOnError
    OneTornFile
    ControlLists
PROPERTY
    RunsEnd
