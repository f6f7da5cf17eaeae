SPECIFICATION FairSpec
CONSTANTS
    c1 = c1
    t1 = t1
    t2 = t2
    f1 = f1
    Conns = {c1}
    Threads = {t1, t2}
    Files = {f1}
    FullScan = {c1}
    MaxRuns = 2
    BatchLimit = 1
    AllowDbFailure = FALSE
    NoThread = NoThread
    NoConn = NoConn
INVARIANTS
    NothingLeaks
    DeletedIsQuiet
PROPERTIES
    RunsEnd
