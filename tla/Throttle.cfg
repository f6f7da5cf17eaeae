SPECIFICATION FairSpec
CONSTANTS
    w1 = w1
    w2 = w2
    w3 = w3
    e1 = e1
    e2 = e2
    h1 = h1
    Workers = {w1, w2, w3}
    Engines = {e1, e2}
    EngineOf <- ThreeWorkers
    Hosts = {h1}
    HostOf <- OneHost
    Parallelism = 2
    Spacing = 2
    MaxManagers = 2
    MaxAttempts = 1
    NoWorker = NoWorker
CHECK_DEADLOCK FALSE
INVARIANTS
    TypeOK
    PermitsConserved
PROPERTIES
    LaunchesSpaced
    CancelledWaitersLeave
    WaitersAreServed
