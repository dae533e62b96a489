SPECIFICATION Spec
CONSTANTS
    q1 = q1
    q2 = q2
    Requests = {q1, q2}
    Runs <- OneRun
    NoRun = 0
    Bodies <- OneBody
    NoBody <- NoBodies
    Names = {"a b", "a_b"}
    Safe <- OneSafe
    Lines = {1}
    Cap = 2
    InboxCap = 1
    MaxOthers = 2
    MaxSecond = 1
    MaxRestarts = 1
INVARIANTS
    TypeOK
    SavedIsKept
    ReportFollowsLog
    ListedLoads
SYMMETRY RequestSymmetry
CHECK_DEADLOCK FALSE
