SPECIFICATION Spec
CONSTANTS
    NumTargets = 3
    Kinds = {"down"}
    Sinks = {discord, webhook}
    MaxEvents = 2
    MaxMoves = 3
    MaxLocks = 1
SYMMETRY Interchangeable
INVARIANTS
    OutboxSound
    ReplayArrives
    ReplayEnds
PROPERTIES
    DispatchesKept
CHECK_DEADLOCK FALSE
