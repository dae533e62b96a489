SPECIFICATION FairCatalogSpec
CONSTANTS
    p1 = p1
    Watcher = Watcher
    Pages = {p1}
    ChannelCap = 2
    WireCap = 1
    MaxCatalogs = 2
    MaxRestarts = 1
INVARIANTS
    StreamUpToDate
    DiskFollows
PROPERTIES
    StreamCatchesUp
CHECK_DEADLOCK FALSE
