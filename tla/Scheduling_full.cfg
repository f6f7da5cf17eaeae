SPECIFICATION Spec
CONSTANTS
    c1 = c1
    c2 = c2
    startup = startup
    jump = jump
    Conns = {c1, c2}
    Mode <- FullAndDaily
    FullScan = {c1}
    Planners = {startup}
    Startup = startup
    Day = 4
    At = 1
    Hours = 4
    Overlap = 1
    Quiet = 0
    Jitter = 0
    MaxDays = 1
    AllowDates = FALSE
    MaxTime = 13
    MaxOk = 2
    NoConn = NoConn
PROPERTIES
    CatchupFindsMissedWindows
