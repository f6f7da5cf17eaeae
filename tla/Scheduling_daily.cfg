SPECIFICATION Spec
CONSTANTS
    c1 = c1
    c2 = c2
    startup = startup
    jump = jump
    Conns = {c1}
    Mode <- OneCalendar
    FullScan = {}
    Planners = {startup, jump}
    Startup = startup
    Day = 4
    At = 0
    Hours = 4
    Overlap = 0
    Quiet = 1
    Jitter = 1
    MaxDays = 2
    AllowDates = TRUE
    MaxTime = 13
    MaxOk = 2
    NoConn = NoConn
INVARIANTS
    NoWindowRepeated
PROPERTIES
    JobsCollectTheirDay
