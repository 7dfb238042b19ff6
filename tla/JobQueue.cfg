SPECIFICATION FairSpec
CONSTANTS
    JobIds = {j1, j2}
    Workers = {w1, w2}
    None = None
    MaxAttempts = 2
    MaxDelay = 1
    Retention = 4
    Lag = 1
    MaxFaults = 1
INVARIANTS
    TypeOK
    ExclusiveExecution
PROPERTIES
    RefinesQueue
    RetryWaitsForBackoff
    SettlesUnlessStranded
