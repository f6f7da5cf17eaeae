SPECIFICATION Spec
CONSTANTS
    c1 = c1
    c2 = c2
    upper = upper
    lower = lower
    tree = tree
    flat = flat
    Connections = {c1, c2}
    FullScan = {c2}
    Overwriting = {c1}
    Remotes = {upper, lower}
    Filtered <- MCFiltered
    LooksLike <- MCLooksLike
    Confs = {tree, flat}
    Names <- MCNames
    Candidate <- MCCandidate
    Fold <- MCFold
    Room = 1
    BatchSize = 2
    MaxListed = 2
    MaxEdits = 1
    NoName = NoName
    NoRemote = NoRemote
    NoFile = NoFile
    Gone = Gone
INVARIANTS
    TypeOK
    PreviewIsKept
    PlannedAreQueued
PROPERTIES
    PathsAreStable
    NoFileLost
CHECK_DEADLOCK FALSE
