SPECIFICATION Spec
CONSTANTS
    Requests = {r1, r2}
    Sids = {s1, s2}
    Tokens = {t1, t2, t3}
    None = None
    Ops = {"signIn", "signOut", "forget", "reset", "verify", "delete"}
    Threshold = 2
    MaxGen = 0
    MaxFailures = 3
    MaxDropped = 1
CHECK_DEADLOCK FALSE
SYMMETRY Symmetry
INVARIANTS
    RecoveryTokenUsedOnce
    GuessesBounded
    OnlyBulkUpdatesDeadlock
PROPERTIES
    ResetAndDeleteLeaveNoSession
    ForgetSupersedesKnown
