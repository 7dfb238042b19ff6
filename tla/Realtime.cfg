SPECIFICATION FairFanoutSpec
CONSTANTS
    a = a
    b = b
    c1 = c1
    Users = {a, b}
    Clients = {c1}
    UserOf <- MCUserOf
    Replicas = {r1, r2}
    Everyone = Everyone
    Offline = Offline
    Capacity = 1
    MaxRows = 2
    MaxBroadcasts = 1
    MaxFaults = 1
CHECK_DEADLOCK FALSE
INVARIANTS
    NoSilentGap
    OwnEventsInOrder
PROPERTIES
    ConnectedClientIsTold
