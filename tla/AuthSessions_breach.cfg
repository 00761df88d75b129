CONSTANTS
    r1 = r1
    r2 = r2
    r3 = r3
    u1 = u1
    Requests = {r1}
    Users = {u1}
    MaxFamilies = 1
    MaxTokens = 3
SPECIFICATION Spec
INVARIANTS
    BreachPurgesSessions
