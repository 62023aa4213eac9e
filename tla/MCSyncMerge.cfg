SPECIFICATION Spec
CONSTANTS
    NodeId = {1, 2, 3, 4}
    MaxNodes = 3
    MaxSequence = 1
INVARIANTS
    TypeOK
    MergesClocks
    FullOnlyWhenTooMany
CHECK_DEADLOCK FALSE
