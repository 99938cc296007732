SPECIFICATION AttSpec
CONSTANTS
    Absent = Absent
    Users = {u1}
    Attestations = {a1, a2}
    Verifiers = {v1, v2}
    DbMayFail = FALSE
    LedgerMayFail = FALSE
    SigningMayFail = FALSE
    IdsAreUuids = FALSE
    MaxRestarts = 0
INVARIANTS VerificationAccepts
