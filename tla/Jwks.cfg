SPECIFICATION Spec
CONSTANTS
    Keys = {k1, e1}
    RsaKeys = {k1}
    Requests = {r1, r2}
    None = None
    CacheTtl = 2
    HttpTimeout = 1
    MaxRotations = 3
CHECK_DEADLOCK FALSE
PROPERTIES
    AcceptsOnlyRecentKeys
    RefusesOnlyNewKeys
