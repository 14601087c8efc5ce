SPECIFICATION FairSpec
CONSTANTS
    p1 = p1

    Processes = {p1}
    Edges = {"edge"}
    Occurrences = {"t1"}
    NumEvents = 2
    NumSinks = 1
    MaxAttempts = 3
    InitialInterval = 1
    MaxInterval = 2
    Lease = 2
    Timeout = 1
    MaxLag = 0
    Cooldown = 2
    Horizon = 3
    ClaimBatch = 1
    RetentionBatch = 1
    Replay = {FALSE}
PROPERTIES
    EventuallyClosed
    CooldownHonoured
CHECK_DEADLOCK FALSE
