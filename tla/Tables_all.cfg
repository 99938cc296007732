SPECIFICATION MCSpec
CONSTANTS
    Absent = Absent
    Verifiers = {}
    Users = {u1, u2}
    Attestations = {a1, a2}
    Passports = {p1, p2}
    Calls = {c1, c2}
    DbMayFail = TRUE
    LedgerMayFail = TRUE
    SigningMayFail = FALSE
    IdsAreUuids = TRUE
    MaxRestarts = 1
    MaxLinks = 2
    NoRequest = NoRequest
    NoRow = NoRow
    Parts = {"passports", "dids"}
    Owners = {u1, u2}
    DIDs = {p1, p2, d3}
    Requests = {c1, c2}
    Ops = {"create", "createPrimary", "sign", "setPrimary", "delete"}
    KeyConfigured = FALSE
    QueriesMayFail = TRUE
    MaxDIDRestarts = 1
SYMMETRY Symmetry
INVARIANTS LinkedIsOnLedger CreatedIsComplete OnePrimary
