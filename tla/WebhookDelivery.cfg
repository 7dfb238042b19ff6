SPECIFICATION DeliveryFairSpec
CONSTANTS
    JobIds = {d1}
    Workers = {w1, w2}
    None = None
    MaxAttempts = 2
    MaxDelay = 0
    Retention = 4
    Lag = 1
    MaxFaults = 2
    Dispatchers = {p1}
    h1 = h1
    h2 = h2
    a = a
    o1 = o1
    o2 = o2
    Webhooks <- MCWebhooks
    Scope <- MCScope
    Events <- MCEvents
INVARIANTS
    PostsWithinLimit
    VerdictIsTrue
PROPERTIES
    RecordedDeliveryIsFinal
    PendingIsResolved
