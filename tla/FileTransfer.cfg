SPECIFICATION FairSpec
CONSTANTS
    MaxVersion = 4
    Size <- FourSizes
    Sized = {1, 3, 4}
    Dated = {1, 3, 4}
    Reliable = {1, 4}
    Time <- FourTimes
    Tolerance = 2
    Policies = {"skip", "overwrite", "replace"}
    Retries = 1
    MaxFaults = 2
CHECK_DEADLOCK FALSE
INVARIANTS
    TypeOK
    SizeMatchesListing
    NoSplice
    StaleNotPublishedUnchecked
PROPERTIES
    DownloadsEnd
    Converges
