SPECIFICATION Spec
CONSTANTS
    Node = {n1, n2, n3, n4}
    MaxNodes = 3
    MaxSequence = 4
    EnvelopeId = {1, 2, 3}
INVARIANTS
    TypeOK
    NewestIsMax
    FirstSequenceSound
    OwnMessageAccepted
PROPERTIES
    SequenceGrowsByOne
    ReceivedOnce
SYMMETRY Symmetry
CHECK_DEADLOCK FALSE
