SPECIFICATION FairSpec
CONSTANTS
    Processes = {"p", "q"}
    Slots = {"s1", "s2"}
    Flaws = {{}, {"target"}}
    TTL = 1
    Cooldown = 1
    MaxTime = 2
    MaxChanges = 2
    MaxFaults = 1
INVARIANTS
    TypeOK
    RecoveriesAnswerFailures
    ToldOnce
PROPERTIES
    EdgesAnnounced
    BaselinesSettle
CHECK_DEADLOCK FALSE
