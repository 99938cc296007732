SPECIFICATION DIDSpec
CONSTANTS
    NoRequest = NoRequest
    NoRow = NoRow
    Owners = {u1}
    DIDs = {d1, d2, d3}
    Requests = {r1, r2}
    Ops <- AllOps
    KeyConfigured = TRUE
    QueriesMayFail = FALSE
    MaxDIDRestarts = 0
PROPERTIES SetPrimaryTakesEffect
