SPECIFICATION Spec
CONSTANTS
    n1 = n1
    n2 = n2
    n3 = n3
    r1 = r1
    r2 = r2
    r3 = r3
    NoNode = NoNode
    Nodes = {n1, n2}
    Parallel = 1
    MaxQueued = 1
    Requests = {r1, r2, r3}
    Streams = {r1, r2, r3}
    MaxRetries = 1
    Home <- NoAffinity
    Faults = {"disconnect"}
    MaxFlips = 0
SYMMETRY Symmetric
INVARIANTS
    TypeOK
    SlotsAccounted
    QueueAccounted
    NoStrandedWaiter
PROPERTIES
    ImplementsScheduling
CHECK_DEADLOCK FALSE
