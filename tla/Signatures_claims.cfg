SPECIFICATION MCSpec
CONSTANTS
    a1 = a1
    Absent = Absent
    Users = {u1}
    Attestations = {a1, a2}
    Verifiers = {v1, v2}
    DbMayFail = TRUE
    LedgerMayFail = TRUE
    SigningMayFail = TRUE
    IdsAreUuids = TRUE
    MaxRestarts = 1
    Missing = Missing
    PublicKeys <- ThreeKeys
    MulticodecPrefix <- ThreeIs
    Byte = 4
    Base = 3
    Lifetimes = {0, 2}
    Verifications = {"c1"}
    ClockSkew = 1
    MaxCredentials = 2
    LastInstant = 4
    LibraryMayFail = TRUE
    ByteBits = 2
    Size = 3
    Indices <- Around
    Domains <- TwoHosts
    Paths <- FourPaths
    WebKeys = {"k1", "k2"}
    MaxPublished = 3
    Drafts <- TwoDrafts
    SigningKeys = {1, 2}
    Copies = {"c1"}
    EditValue = 9
    LastDay = 2
    Numbers <- BelowZeroAndAbove
    Lists <- FourLists
    MaxProofs = 2
    LastTime = 1
    Ids <- FourIds
    Uuids <- OneUuid
    HexPrefix <- HexBeginnings
    BasePaths <- TwoBases
    MaxShared = 2
    Visited <- EveryPage
    MaxVisits = 2
    MaxFilter = 1
    MaxMade = 2
    MaxPending = 2
INVARIANTS AcceptedIsSigned
