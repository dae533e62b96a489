SPECIFICATION Spec
CONSTANTS
    p1 = p1
    p2 = p2
    l1 = l1
    m1 = m1
    m2 = m2
    k1 = k1
    NoServers = NoServers
    NoForm = NoForm
    NoModel = NoModel
    NoKey = NoKey
    Pages = {p1, p2}
    ServerLists = {l1}
    Models = {m1, m2}
    DefaultModel = m1
    Keys = {k1}
    MaxInFlight = 2
    MaxLoads = 2
    MaxSaves = 2
    MaxCrashes = 1
INVARIANTS
    SavedSettingsKept
    MemoryAgrees
    ServersKept
    ModelKept
SYMMETRY PageSymmetry
CHECK_DEADLOCK FALSE
