SPECIFICATION EstablishedMeetingSpec
CONSTANTS
    Node = {n1, n2, n3}
    Owner = n1
    NoOwner = NoOwner
    Absent = Absent
    Halted = Halted
    EnvelopeId = {1, 2}
    MaxNodes = 2
    MaxSequence = 5
    MaxSlabs = 3
    BufferRecords = 3
    Faults = {"oversize", "outgrow", "readd", "forget", "reopen"}
    Overhear = FALSE
    Members = {n2}
    MaxMessages = 5
    MaxNet = 0
INVARIANTS
    
    UsersAreNodes
    ChannelsSound
CHECK_DEADLOCK FALSE
