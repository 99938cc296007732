SPECIFICATION MCSpec
CONSTANTS
    t1 = t1
    t2 = t2
    c1 = c1
    c2 = c2
    c3 = c3
    Tokens <- TwoTokens
    Calls <- ThreeCalls
    Durable <- OneToken
    MaxRestarts = 1
    u1 = u1
    u2 = u2
    a1 = a1
    i1 = i1
    g1 = g1
    w1 = w1
    w2 = w2
    h1 = h1
    h2 = h2
    k1 = k1
    k2 = k2
    q1 = q1
    Nil = Nil
    Nobody = Nobody
    Unset = Unset
    Holders = {u1, u2}
    HeldBy <- HeldByFirst
    ProofIds = {i1}
    Proofs = {g1}
    Checks = {w1, w2}
    Statements <- SomeStatements
    PrivateValues <- SomeValues
    Bits = 2
    Field = 31
    HashOf <- TextElements
    TextBefore <- BeforeInOrder
    SetSize = 2
    SnarkMayFail = TRUE
    Stellar = {"stellar"}
    Evm = {"optimism"}
    Configurations <- OneOfEither
    DefaultNetwork = "stellar"
    Hashes = {h1, h2}
    Anchorers = {k1, k2}
    Askers = {q1}
    MaxOps = 1
    HashMemoTaken = TRUE
    LedgersMayFail = TRUE
    MaxSequence = 1
    Emails = {h1, h2}
    Passwords = {"p1", "p2"}
    UserIds = {k1, k2}
    Sessions = {"s1", "s2"}
    EmailIsUnique = TRUE
    UsersMayFail = TRUE
    TemplateIds = {"farm-origin", "product-passport", "own"}
    BuiltIn <- TwoBuiltIn
    SupplyChain = {"farm-origin"}
    Schemas <- CustomSchemas
    Claims <- SomeClaims
    BatchLength = 2
    MaxDocuments = 2
    MaxCustom = 1
SYMMETRY LedgerSymmetry
INVARIANTS GenerationIsExact
    AnswersHold
    WelcomedCanLogin
    MadeValidates EachInputHasItsResult
PROPERTIES Refines RecoveryIsComplete
CHECK_DEADLOCK FALSE
