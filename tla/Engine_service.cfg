CONSTANTS
    r1 = r1
    r2 = r2
    tx1 = tx1
    tx2 = tx2
    TxIds = {tx1, tx2}
    Requests = {r1, r2}
    EmptyId = EmptyId
    Amounts = {0, 2, 3}
    RiskLimit = 2
    FromVersions = {1, 2, 3}
    SeededIds = {tx2}
    SeededAmount = 1
    NoSnapshot = NoSnapshot
    NoModel = NoModel
    NoCommand = NoCommand
    e1 = e1
    e2 = e2
    h1 = h1
    h2 = h2
    h3 = h3
    t1 = t1
    Events = {e1, e2}
    InvalidEvents = {e2}
    Topics = {t1}
    Handlers = {h1, h2, h3}
    Broken = {}
    Flaky = {h1, h2, h3}
    MaxRetries = 2
    BackoffBase = 1
    FailureCap = 4
    n1 = n1
    n2 = n2
    n3 = n3
    u1 = u1
    u2 = u2
    NoNode = NoNode
    NoUser = NoUser
    OrgRequests = {r1, r2}
    Nodes = {n1, n2, n3}
    Users = {u1, u2}
    Founders = {u1}
    Seeded = {n1, n2}
    SeedParent <- UnderTheRoot
    SeedOwner = u1
    MaxTransfers = 1
    MaxMoves = 3
SPECIFICATION MCSpec
INVARIANTS
    TypeOK
    StoreIsSound
    ReadSideIsCurrent
    ShownIsOwnAndFinal
    BrokerIsSound
    OrgTypeOK
    CyclesAreTainted
    HandoversHold
    OnlyTheEntitled
PROPERTIES
    ImplementsLedger
    AcceptedBecomesVisible
    SentIsSettled
    RequestsEnd
