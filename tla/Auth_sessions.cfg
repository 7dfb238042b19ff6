SPECIFICATION Spec
CONSTANTS
    Requests = {r1, r2}
    Sids = {s1, s2}
    Tokens = {t1}
    None = None
    Ops = {"signIn", "refresh", "signOut", "signOutAll", "change", "delete", "ban", "expireSession"}
    Threshold = 2
    MaxGen = 2
    MaxFailures = 0
    MaxDropped = 0
CHECK_DEADLOCK FALSE
SYMMETRY Symmetry
INVARIANTS
    TypeOK
    RotatesOnlyLiveToken
    OnlyBulkUpdatesDeadlock
PROPERTIES
    RevokeAllCoversKnown
