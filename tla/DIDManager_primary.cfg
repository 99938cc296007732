SPECIFICATION MCFairSpec
CONSTANTS
    Parts = {"dids"}
    Absent = Absent
    Verifiers = {}
    Users = {u1}
    Attestations = {a1}
    Passports = {}
    Calls = {r1, r2}
    DbMayFail = FALSE
    LedgerMayFail = FALSE
    SigningMayFail = FALSE
    IdsAreUuids = TRUE
    MaxRestarts = 0
    MaxLinks = 1
    NoRequest = NoRequest
    NoRow = NoRow
    Owners = {u1}
    DIDs = {d1, d2, d3}
    Requests = {r1, r2}
    Ops = {"createPrimary", "sign", "signWith", "setPrimary"}
    KeyConfigured = TRUE
    QueriesMayFail = FALSE
    MaxDIDRestarts = 0
INVARIANTS PrimaryKept
PROPERTIES SetPrimaryTakesEffect CallsEnd
