SPECIFICATION EstablishedSpec
CONSTANTS
    Node = {n1, n2, n3}
    Owner = n1
    NoOwner = NoOwner
    Absent = Absent
    Halted = Halted
    EnvelopeId = {1, 2}
    MaxNodes = 3
    MaxSequence = 7
    MaxSlabs = 6
    BufferRecords = 6
    Faults = {}
    Overhear = TRUE
    Members = {n2}
    MaxMessages = 6
    MaxNet = 1
INVARIANTS
    ConsistentSenderOrder
    CauseDelivered
CHECK_DEADLOCK FALSE
