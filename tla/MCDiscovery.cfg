SPECIFICATION Spec
CONSTANTS
    d1 = d1
    d2 = d2
    d3 = d3
    c1 = c1
    c2 = c2
    Node = {d1, d2, d3}
    Channel = {c1, c2}
    Knows <- MCKnows
    Announces <- MCAnnounces
    HelloDuration = 2
    MaxInbox = 4
    None = None
INVARIANTS
    TypeOK
    NothingWaits
    NoStorm
PROPERTIES
    HellosGoOn
    EveryChannelAsked
