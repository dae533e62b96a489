SPECIFICATION Spec
CONSTANTS
    c1 = c1
    c2 = c2
    c3 = c3
    u1 = u1
    u2 = u2
    d1 = d1
    d2 = d2
    Clients = {c1, c2, c3}
    Servers <- OneServer
    ToolNames <- OneTool
    Offers <- OffersOneTool
    Updaters = {u1}
    Texts = {d1}
    UpstreamText = UpstreamText
    NoText = NoText
    NoTool = NoTool
    NoRoute = NoRoute
    DiskFaults = FALSE
    MaxRestarts = 1
INVARIANTS
    ServedShowOverrides
CHECK_DEADLOCK FALSE
