CONSTANTS
    e1 = e1
    e2 = e2
    h1 = h1
    h2 = h2
    h3 = h3
    t1 = t1
    Events = {e1}
    InvalidEvents = {}
    Topics = {t1}
    Handlers = {h1}
    Broken = {h1}
    Flaky = {}
    MaxRetries = 3
    BackoffBase = 2
    FailureCap = 8
SPECIFICATION FairSpec
PROPERTIES
    AlwaysFailingIsDeadLettered
