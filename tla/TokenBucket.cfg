SPECIFICATION FairSpec
CONSTANTS
    w1 = w1
    w2 = w2
    w3 = w3
    r1 = r1
    r2 = r2
    c1 = c1
    c2 = c2
    Workers = {w1, w2, w3}
    Runs = {r1, r2}
    RunOf <- ThreeWorkers
    Conns = {c1, c2}
    ConnOf <- ThreeConns
    Global = Global
    Limited = {c1, Global}
    Rate <- SlowAndGlobal
    Capacity <- SmallBursts
    Chunks = {1, 4}
    MaxChunks = 1
    NoBucket = NoBucket
CHECK_DEADLOCK FALSE
INVARIANTS
    TypeOK
    WaitsAreShort
PROPERTIES
    Metered
    ConsumesEnd
