SPECIFICATION Spec
CONSTANTS
    p1 = p1
    p2 = p2
    Processes = {p1, p2}
    Edges = {"edge"}
    Occurrences = {"t1"}
    NumEvents = 1
    NumSinks = 2
    MaxAttempts = 2
    InitialInterval = 1
    MaxInterval = 1
    Lease = 3
    Timeout = 1
    MaxLag = 1
    Cooldown = 1
    Horizon = 1
    ClaimBatch = 1
    RetentionBatch = 1
    Replay = {TRUE, FALSE}
SYMMETRY Interchangeable
INVARIANTS
    EventStatusAgrees
    SendsBounded
    DeliveredWasAccepted
    DeadLetterExhausted
    NoOverlappingSends
PROPERTIES
    KeepsPromise
CHECK_DEADLOCK FALSE
