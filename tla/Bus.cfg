SPECIFICATION FairSpec
CONSTANTS
    g1 = g1
    g2 = g2
    s1 = s1
    s2 = s2
    Loggers = {g1, g2}
    Subscribers = {s1, s2}
    Cap = 2
    MaxEvents = 2
INVARIANTS
    NoSendOnClosed
    InOrder
    Accounted
PROPERTIES
    NeverBlocks
CHECK_DEADLOCK FALSE
