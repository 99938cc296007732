SPECIFICATION Spec
CONSTANTS
    Absent = Absent
    Verifiers = {}
    Users = {u1}
    Attestations = {a1, a2}
    Passports = {p1}
    Calls = {c1}
    DbMayFail = FALSE
    LedgerMayFail = FALSE
    SigningMayFail = FALSE
    IdsAreUuids = TRUE
    MaxRestarts = 0
    MaxLinks = 2
SYMMETRY Symmetry
INVARIANTS AnchoredPassportVerifies
