SPECIFICATION Spec
CONSTANTS
    MaxNodes = 3
    Contents = {"none", "NUMBER"}
INVARIANT AllMemoryFreed
