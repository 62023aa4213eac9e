SPECIFICATION MeetingSpec
CONSTANTS
    Node = {n1, n2, n3}
    Owner = n1
    NoOwner = NoOwner
    Absent = Absent
    Halted = Halted
    EnvelopeId = {1, 2}
    MaxNodes = 3
    MaxSequence = 5
    MaxSlabs = 4
    BufferRecords = 4
    Faults = {}
    Overhear = FALSE
    Members = {}
    MaxMessages = 4
    MaxNet = 0
INVARIANTS
    OneExchangeSyncs
PROPERTIES
    Delivered
CHECK_DEADLOCK FALSE
