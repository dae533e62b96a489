SPECIFICATION FairSpec
CONSTANTS
    p1 = p1
    r1 = r1
    r2 = r2
    rec1 = rec1
    rec2 = rec2
    a1 = a1
    a2 = a2
    NoRun = NoRun
    Pages = {p1}
    Runs = {r1, r2}
    Ids = {rec1}
    Bodies <- AllIds
    NoBody <- NoIds
    Applies = {}
    MaxInFlight = 2
    Overtaking = TRUE
    Faults = TRUE
INVARIANTS
    SelectionShown
PROPERTIES
    PageCatchesUp
CHECK_DEADLOCK FALSE
