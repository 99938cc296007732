SPECIFICATION FairSpec
CONSTANTS
    Identifiers = {i1}
    Requests = {r1, r2}
    Max = 2
    RedisMayFail = FALSE
    MaxRestarts = 1
PROPERTIES WindowsEnd
