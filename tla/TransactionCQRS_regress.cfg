CONSTANTS
    r1 = r1
    r2 = r2
    r3 = r3
    tx1 = tx1
    tx2 = tx2
    TxIds = {tx1}
    Requests = {r1}
    EmptyId = EmptyId
    Amounts = {2}
    RiskLimit = 2
    FromVersions = {1}
    SeededIds = {}
    SeededAmount = 1
    NoSnapshot = NoSnapshot
    NoModel = NoModel
    NoCommand = NoCommand
SPECIFICATION Spec
PROPERTIES
    ProjectionNeverRegresses
CHECK_DEADLOCK FALSE
