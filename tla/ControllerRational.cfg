SPECIFICATION Spec
CONSTANTS
    Names = {"a", "b"}
    Nodes <- AllNodes
    Configs <- SampleConfigs
    Garbage <- SomeGarbage
    IntSize = 1048576
    MaxRuns = 1
INVARIANT CycleTimeIsRational
