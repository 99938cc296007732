SPECIFICATION MCFairSpec
CONSTANTS
    VCJobs = {v1}
    DIDJobs = {}
    WithCallback = {v1}
    Attempts = 2
    Concurrency = 1
    MaxStalledCount = 1
    ServicesMayFail = TRUE
    Administered = FALSE
    MaxRetries = 0
    MaxEnds = 1
    HttpRequests = {"r1", "r2"}
    Deliveries = {"s1", "s2"}
    MaxServerJobs = 1
    PeersMayFail = TRUE
    Inputs <- SixInputs
    Environments <- TwoEnvironments
INVARIANTS ServicesOutliveUse
PROPERTIES JobsFinish ShutdownEnds StopEnds
CHECK_DEADLOCK FALSE
