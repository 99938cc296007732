SPECIFICATION MCSpec
CONSTANTS
    i1 = i1
    Identifiers = {i1, i2}
    Requests = {r1, r2, r3}
    Max = 2
    RedisMayFail = TRUE
    MaxRestarts = 1
    k1 = k1
    k2 = k2
    c1 = c1
    c2 = c2
    m1 = m1
    o1 = o1
    o2 = o2
    Absent = Absent
    Orgs = {o1}
    Keys = {k1, k2}
    Environments = {"live"}
    Admins = {m1}
    RoleOf <- AdminRole
    Calls = {c1, c2}
    RequestsPerDay <- TwoPlans
    Statuses = {"active", "cancelled"}
    Operations = {"api_call"}
    LastDay = 2
    MaxRecords = 3
    Actions = {"request"}
    Users = {c1, c2}
    Period <- ByTheHour
    Limit <- FewPerHour
    Length <- Calendar
    LastTick = 12
    Subscribers = {o1, o2}
    PaymentIds = {k1, k2}
    Clerks = {c1, c2}
    LastDate = 1
SYMMETRY RowSymmetry
INVARIANTS LimitIsKept
    DailyBound RotatedHasReplacement AggregatesFollow
    QuotasHold
    EndIsPaidFor
