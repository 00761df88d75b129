CONSTANTS
    r1 = r1
    r2 = r2
    k1 = k1
    Requests = {r1, r2}
    Tenants = {"global", "acme"}
    Names = {"MEMBER", "API_CLIENT"}
    NoRole = "no role"
    Permissions = {"users:read", "users:write"}
    Covers <- Same
    SeedRoles <- OneRole
    Keys = {k1}
    SeedKeys = {}
    KeyTenant <- OfAcme
    KeyScopes <- Scopes
    NewRoles <- Circle
    Asked <- SomeAsks
    MaxRoles = 2
    MaxBegun = 3
SPECIFICATION Spec
INVARIANTS
    DenyTakesPrecedence
