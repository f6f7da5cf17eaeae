SPECIFICATION Spec
CONSTANTS
    c1 = c1
    t1 = t1
    t2 = t2
    f1 = f1
    f2 = f2
    Conns = {c1}
    Threads = {t1, t2}
    Files = {f1, f2}
    FullScan = {}
    MaxRuns = 2
    BatchLimit = 1
    AllowDbFailure = TRUE
    NoThread = NoThread
    NoConn = NoConn
SYMMETRY Symmetry
INVARIANTS
    TypeOK
    OneActiveRun
    QueueClosed
    VerdictMatchesRows
    DownloadedOnce
    EnginesUnderLock
PROPERTIES
    HistoryIsFinal
