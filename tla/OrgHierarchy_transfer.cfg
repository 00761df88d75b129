CONSTANTS
    r1 = r1
    r2 = r2
    n1 = n1
    n2 = n2
    n3 = n3
    u1 = u1
    u2 = u2
    u3 = u3
    NoNode = NoNode
    NoUser = NoUser
    OrgRequests = {r1}
    Nodes = {n1, n2}
    Users = {u1, u2, u3}
    Founders = {u1}
    Seeded = {n1, n2}
    SeedParent <- UnderTheRoot
    SeedOwner = u1
    MaxTransfers = 2
    MaxMoves = 0
SPECIFICATION OrgSpec
PROPERTIES
    OnlyOwnersGiveAway
