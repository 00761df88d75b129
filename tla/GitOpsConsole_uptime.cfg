CONSTANTS
    IacSettings = {1, 2}
    SeedSettings = 1
    Weights = {10}
    ScanSteps = 1
    MaxVersion = 3
    MaxSyncs = 1
    MaxScalings = 0
    MaxRollbacks = 0
SPECIFICATION MCSpec
INVARIANTS
    UptimeIsContinuous
