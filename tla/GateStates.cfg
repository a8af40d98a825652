SPECIFICATION Spec
CONSTANT Inputs <- AllInputs
INVARIANTS
    LoopDecodes
    GatesKept
