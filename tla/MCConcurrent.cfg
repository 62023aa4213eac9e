SPECIFICATION EstablishedSpec
CONSTANTS
    Node = {n1, n2, n3}
    Owner = n1
    NoOwner = NoOwner
    Absent = Absent
    Halted = Halted
    EnvelopeId = {1, 2}
    MaxNodes = 3
    MaxSequence = 8
    MaxSlabs = 7
    BufferRecords = 7
    Faults = {}
    Overhear = FALSE
    Members = {n2, n3}
    MaxMessages = 7
    MaxNet = 1
INVARIANTS
    CausalDelivery
SYMMETRY Symmetry
CHECK_DEADLOCK FALSE
