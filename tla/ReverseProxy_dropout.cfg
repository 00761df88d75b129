CONSTANTS
    NoKey = NoKey
    Requests = {r1}
    Targets = 1
    Keys = {}
    MaxRetryAttempts = 1
    CacheTTL = 1
    Healths = {"up", "erring"}
    BrokenClients = {}
    MinSample = 2
    Window = 3
    HalfOpenLimit = 2
    FailNum = 1
    FailDen = 2
    Cooldown = 1
SPECIFICATION FairSpec
PROPERTIES
    DropoutsTrip
