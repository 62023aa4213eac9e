SPECIFICATION Spec
CONSTANTS
    Node = {n1, n2, n3}
    Owner = n1
    NoOwner = NoOwner
    Absent = Absent
    Halted = Halted
    EnvelopeId = {1, 2}
    MaxNodes = 3
    MaxSequence = 5
    MaxSlabs = 4
    BufferRecords = 3
    Faults = {}
    Overhear = FALSE
    Members = {}
    MaxMessages = 4
    MaxNet = 2
INVARIANTS
    TypeOK
    MemoryMatchesRecords
    ResponsesAreReceivable
    MessagesReadable
PROPERTIES
    StoredForGood
    ImplementsHistory
SYMMETRY Symmetry
CHECK_DEADLOCK FALSE
