SPECIFICATION FairSpec
CONSTANTS
    Requests = {r1, r2, r3, r4, r5}
    None = None
    Visitors = {r1, r2, r3, r4}
    Images = {r1, r2, r3}
    Stranger = r2
    Caller <- MCCaller
    Body <- MCBody
    SessionCallers = {"alice"}
    TextBodies = {"json"}
    SchemaColumns <- IntendedColumns
    MaxFaults = 1
CHECK_DEADLOCK FALSE
INVARIANTS
    TypeOK
    HandlerRunsOnce
    ReplaysOnlySettled
PROPERTIES
    InFlightEnds
