SPECIFICATION Spec
CONSTANTS
    c1 = c1
    c2 = c2
    startup = startup
    jump = jump
    Conns = {c1}
    Mode <- OneSinceLast
    FullScan = {}
    Planners = {startup}
    Startup = startup
    Day = 4
    At = 1
    Hours = 4
    Overlap = 2
    Quiet = 2
    Jitter = 1
    MaxDays = 2
    AllowDates = FALSE
    MaxTime = 17
    MaxOk = 2
    NoConn = NoConn
INVARIANTS
    TypeOK
    NothingLeftBehind
