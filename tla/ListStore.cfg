SPECIFICATION FairSpec
CONSTANTS
    Clients = {a, b}
    Switches = {64, 65}
    Cells <- SomeCells
    Configs <- SomeConfigs
    FirstRows <- OneList
    MaxConnections = 3
    MaxStores = 2
    MaxRestarts = 1
INVARIANTS
    TypeOK
    DenseLists
    MixedOnlyInWindow
    AddedIsStored
PROPERTIES
    StoredStays
    StoreEnds
