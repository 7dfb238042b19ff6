SPECIFICATION Spec
CONSTANTS
    Requests = {r1, r2}
    None = None
    Visitors = {}
    Images = {}
    Stranger = None
    Caller <- MCCaller
    Body <- MCBody
    SessionCallers = {"alice"}
    TextBodies = {"json"}
    SchemaColumns <- MigratedColumns
    MaxFaults = 0
CHECK_DEADLOCK FALSE
INVARIANTS
    OneAtATime
