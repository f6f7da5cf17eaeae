SPECIFICATION Spec
CONSTANTS
    c1 = c1
    c2 = c2
    f1 = f1
    f2 = f2
    f3 = f3
    j1 = j1
    j2 = j2
    mail = mail
    webhook = webhook
    MaxRuns = 2
    RunIds <- MCRunIds
    Conns <- MCConns
    Files <- MCFiles
    Has <- MCHas
    Forbidden <- MCForbidden
    Jobs <- MCJobs
    Channels <- MCChannels
    Legacy <- MCLegacy
    Orders <- MCOrders
    BatchSize = 1
    Faults = {"unknown"}
    Down <- MCDown
    MaxTries = 2
    Threshold = 1
    Overlap = FALSE
SYMMETRY Symmetry
INVARIANTS
    TypeOK
    RecoverySparesTheLiving
    OrderIsHonoured
    AlertsAreOut
    PanelAddsUp
    ResultsAreHonest
