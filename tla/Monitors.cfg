SPECIFICATION FairSpec
CONSTANTS
    Services = {"a", "b"}
    Interval = 1
    IntervalCap = 3
    MaxChanges = 1
    MaxRequests = 1
    MaxFaults = 1
INVARIANTS
    TypeOK
PROPERTIES
    StopIsSilent
    FailureIsWhole
    Settles
CHECK_DEADLOCK FALSE
