SPECIFICATION Spec
CONSTANTS
    MaxNodes = 3
    Contents = {"none", "STRING"}
INVARIANT EmptyOnlyInEmptyGroup
