CONSTANTS
    r1 = r1
    r2 = r2
    p1 = p1
    p2 = p2
    d1 = d1
    d2 = d2
    e1 = e1
    e2 = e2
    t1 = t1
    t2 = t2
    i1 = i1
    w1 = w1
    w2 = w2
    k1 = k1
    k2 = k2
    Requests = {r1, r2}
    NoRequest = NoRequest
    NoCopy = NoCopy
    Passwords = {p1, p2}
    LockAfter = 2
    MfaAttempts = 2
    VerifyAttempts = 1
    Channels = {"email"}
    MaxBegun = 5
    Users = {d1, d2}
    NoUser = NoUser
    Seeded = {d1}
    Confirmed = {d1}
    Attributes = {"profile"}
    Addresses = {e1, e2}
    SeedAddress <- OwnAddress
    MaxDirectory = 4
    Companies = {d1, d2}
    NoTenant = NoTenant
    FirstCompany = d1
    Domains = {e1, e2}
    SeedDomain = e1
    Leader = d1
    Teams = {t1, t2}
    NoTeam = NoTeam
    SeedTeam = t1
    Invitations = {i1}
    NoInvitation = NoInvitation
    Workspaces = {w1, w2}
    NoWorkspace = NoWorkspace
    SeedSpace = w1
    MaxChanges = 4
    Tenants = {"global", "acme"}
    Names = {"GUEST", "MEMBER", "SYSTEM_ADMIN", "API_CLIENT"}
    NoRole = "none"
    Permissions = {"tenant:read", "users:read", "users:write", "*"}
    Covers <- Wildcards
    SeedRoles <- DefaultRoles
    Keys = {k1, k2}
    SeedKeys = {k1}
    KeyTenant <- OfAcme
    KeyScopes <- ReadUsers
    NewRoles <- SomeRoles
    Asked <- SomeAsks
    MaxRoles = 2
    MaxEvaluations = 2
SPECIFICATION IdentitySpec
SYMMETRY Symmetry
INVARIANTS
    TypeOK
    FieldsHold
    ResetsCounted
    NoEntryUnderLock
    DirectoriesAreSound
    MembershipHolds
    AccessIsDecided
CHECK_DEADLOCK FALSE
