CONSTANTS
    w1 = w1
    credentials = credentials
    added = added
    x = x
    y = y
    tk = tk
    ingress = ingress
    rego = rego
    edited = edited
    key1 = key1
    key2 = key2
    key3 = key3
    key4 = key4
    auth = auth
    other = other
    alice = alice
    bob = bob
    Nobody = Nobody
    Workloads = {w1}
    Paths = {credentials, added}
    SeedVersions <- SeedVersion
    Payloads = {x}
    SeedData = x
    TransitKeys = {tk}
    Policies = {ingress}
    RegoTexts = {rego, edited}
    SeedText = rego
    KeyIds = {key1, key2, key3, key4}
    SeedKeys = {key1, key2}
    Roles = {"admin", "security-engineer", "developer"}
    Methods = {"GET"}
    ClientIds = {auth, other}
    Gateway = auth
    SeedMetrics = 1
    SeedAudit = 2
    AuditCap = 3
    MaxCalls = 3
    Rotatable = {credentials, added}
    Users = {alice, bob}
    UserRoles <- RolesOf
    FirstUser = bob
    s1 = s1
    s2 = s2
    p1 = p1
    p2 = p2
    Jobs = {1, 2}
    Sessions = {s1, s2}
    SeedSession = s1
    Window = 2
    Documents = {11, 12}
    SeedDocuments = {11}
    Prompts = {p1, p2}
    SeedPrompts = {p1}
    LogCap = 2
    SeedLogs = 1
    Live = TRUE
    ChatTexts <- SomeChats
    RagTexts <- SomeQueries
    Overrides = {"gpt-4o"}
    Settings <- SomeSettings
    NewMemories = {"window"}
    MaxLoads = 1
    Strangers = {2}
    IacSettings = {1, 2, 3}
    SeedSettings = 1
    Weights = {0, 10, 50}
    ScanSteps = 4
    MaxVersion = 4
    MaxSyncs = 3
    MaxScalings = 3
    MaxRollbacks = 2
    Core <- CoreNodes
    BasePort = 8080
    Pods = 2
    Names = {"Postgres DB"}
    Slug <- Slugs
    WorkloadLevels = {"normal", "outage"}
    Offered = {"POST /transactions", "GET /metrics"}
    Disk <- Entries
    Keyed = FALSE
    HistoryCap = 1
    TraceCap = 1
    Builds = {1, 2}
    MaxRestarts = 1
    MaxSends = 1
    MaxScans = 1
    t1 = t1
    t2 = t2
    t3 = t3
    Transactions = {t1, t2, t3}
    SeedOrder <- Seeds
    NewTopics = {"orders"}
    Forms <- SomeForms
    NewSchemas <- SomeSchemas
    MaxTopics = 2
    MaxSchemas = 3
    MaxReplays = 2
    Suites = {"unit", "chaos"}
    Lines <- SuiteLines
    UserCounts = {500, 5000}
    SeedUsers = 500
    None = None
    MaxRuns = 2
    MaxNotes = 2
SPECIFICATION MCSpec
INVARIANTS
    TypeOK
    ViewsAgree
    SpinnersMatchCalls
    SettingsStick
    ChatsAreTold
    GitOpsTypeOK
    ClusterIsTold
    StreamsAreTold
    DeliveryIsCurrent
    RolloutsAreSafe
    SuitesAreOnView
PROPERTIES
    ChangesAreAudited
CHECK_DEADLOCK FALSE
