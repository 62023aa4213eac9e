SPECIFICATION Spec
CONSTANTS
    Address = {a1, a2, a3}
    MaxNodes = 2
    Length = {2, 3, 4}
    SymbolSize = 2
    RepairCount = 1
    NumberSpace = 2
    None = None
    Garbage = Garbage
    MaxMessages = 3
    MaxRestarts = 1
INVARIANTS
    TypeOK
    
    OnlyTwinsMix

    
CHECK_DEADLOCK FALSE
