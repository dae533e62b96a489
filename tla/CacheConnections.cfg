SPECIFICATION FairSpec
CONSTANTS
    c1 = c1
    c2 = c2
    c3 = c3
    u1 = u1
    u2 = u2
    d1 = d1
    d2 = d2
    Clients = {c1, c2}
    Servers <- CollidingServers
    ToolNames <- TwoTools
    Offers <- OffersColliding
    Updaters = {u1}
    Texts = {d1}
    UpstreamText = UpstreamText
    NoText = NoText
    NoTool = NoTool
    NoRoute = NoRoute
    DiskFaults = TRUE
    MaxRestarts = 1
INVARIANTS
    RoutesMatchTools
    ServedHaveRoutes
    OverrideInForce
    MemoryCoversDisk
PROPERTIES
    CatalogShowsOverrides
    OverrideTakesEffect
CHECK_DEADLOCK FALSE
