SPECIFICATION MCSpec
CONSTANTS
    VCJobs = {}
    DIDJobs = {d1}
    WithCallback = {d1}
    Attempts = 1
    Concurrency = 1
    MaxStalledCount = 1
    ServicesMayFail = TRUE
    Administered = TRUE
    MaxRetries = 1
    MaxEnds = 2
    m1 = m1
    m2 = m2
    Programs = {m1, m2}
    Listed <- TwoFiles
    Present = {"001", "002", "004"}
    NodeFile = "004"
    SaasFile = "003"
    MaxCommands = 2
    Callers = {"c", "d"}
    KeyIds = {"k"}
    Organizations = {"o"}
    MaxVersions = 1
    MaxRenewals = 2
    Traced = {"p", "q", "r"}
    Routes = {"a", "b"}
    IgnoredRoutes = {"a"}
    EnableTracing = TRUE
    EnableMetrics = TRUE
INVARIANTS WorkPerAttempt CompletedCallsBack NoneLeftRunning
    RecordsAreTrue AbsentIsAbsent FiguresAreTrue
CHECK_DEADLOCK FALSE
