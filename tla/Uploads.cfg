SPECIFICATION FairSpec
CONSTANTS
    FileIds = {f1}
    Requests = {r1, r2, r3}
    None = None
    MaxBytes = 2
    Backends = {"local", "s3"}
    MaxArriving = 1
    MaxFaults = 1
CHECK_DEADLOCK FALSE
INVARIANTS
    TypeOK
    ReadableHasObject
    ReapedLeavesNoObject
PROPERTIES
    RefinesFile
    ReservationIsSettled
