SPECIFICATION Spec
CONSTANTS
    Record <- MCRecord
    Slabs = 2
    Room = 4
    MaxSequence = 1
    NoWriter = NoWriter
    NoReader = NoReader
INVARIANTS
    TypeOK
    CursorsFindFirst
    ReadsInOrder
    ReadsToEnd
    HeadersTellBodies
PROPERTIES
    ImplementsLog
    CommittedForGood
CHECK_DEADLOCK FALSE
