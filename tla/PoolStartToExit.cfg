SPECIFICATION FairSpec
CONSTANTS
    s1 = s1
    s2 = s2
    s3 = s3
    Servers = {s1, s2, s3}
INVARIANTS
    ConnectedHasSession
    ChannelSafe
    NoOrphans
PROPERTIES
    KeepsPromise
    ConnectAllEnds
CHECK_DEADLOCK FALSE
