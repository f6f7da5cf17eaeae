SPECIFICATION Spec
CONSTANTS
    c1 = c1
    c2 = c2
    startup = startup
    jump = jump
    Conns = {c1}
    Mode <- OneRolling
    FullScan = {}
    Planners = {startup}
    Startup = startup
    Day = 4
    At = 1
    Hours = 4
    Overlap = 0
    Quiet = 2
    Jitter = 0
    MaxDays = 1
    AllowDates = FALSE
    MaxTime = 17
    MaxOk = 2
    NoConn = NoConn
PROPERTIES
    QuietFileTakenNext
