SPECIFICATION Spec
CONSTANTS
    c1 = c1
    c2 = c2
    c3 = c3
    u1 = u1
    u2 = u2
    d1 = d1
    d2 = d2
    Clients = {c1}
    Servers <- OneServer
    ToolNames <- TwoTools
    Offers <- OffersTwoTools
    Updaters = {u1, u2}
    Texts = {d1}
    UpstreamText = UpstreamText
    NoText = NoText
    NoTool = NoTool
    NoRoute = NoRoute
    DiskFaults = FALSE
    MaxRestarts = 0
INVARIANTS
    Saved
CHECK_DEADLOCK FALSE
