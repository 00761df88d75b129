CONSTANTS
    c1 = c1
    c2 = c2
    Clients = {c1, c2}
    NoClient = NoClient
    Unit = 3
    Rate = 2
    Burst = 2
    IdleLimit = 3
    IdleCap = 4
    MaxSpan = 3
    r1 = r1
    r2 = r2
    k1 = k1
    u1 = u1
    NoKey = NoKey
    Requests = {r1, r2}
    Targets = 1
    Keys = {k1}
    MaxRetryAttempts = 1
    CacheTTL = 1
    Healths = {"up", "erring", "down"}
    BrokenClients = {r2}
    MinSample = 2
    Window = 3
    HalfOpenLimit = 2
    FailNum = 1
    FailDen = 2
    Cooldown = 1
    Users = {u1}
    MaxFamilies = 2
    MaxTokens = 3
SPECIFICATION AccessSpec
INVARIANTS
    TypeOK
    LimitsHold
    BreakerIsSound
    SessionsAreSound
PROPERTIES
    ImplementsTokenBucket
    OpenHolds
    ProxyGoesOn
    OrphansExpire
