SPECIFICATION FairSpec
CONSTANTS
    c1 = c1
    c2 = c2
    t1 = t1
    t2 = t2
    r1 = r1
    r2 = r2
    NoRun = NoRun
    NoTool = NoTool
    Callers = {c1, c2}
    Tools = {t1}
    Runs = {r1, r2}
    Bodies <- StatBodies
    NoBody <- NoCounts
    Cap = 2
    MaxCalls = 1
    MaxDiscoveries = 1
INVARIANTS
    OneAnalysis
    ErrorsWithinCalls
PROPERTIES
    CountsGrow
    NoOldAnswer
    AnalysisEnds
CHECK_DEADLOCK FALSE
