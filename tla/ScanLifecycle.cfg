SPECIFICATION FairSpec
CONSTANTS
    Scanners = {"scheduled", "scan"}
    Pingers = {"loop", "monitor"}
    Main = "loop"
    Actions = {"scan", "monitor"}
    Empty = {2}
    ReadsFail = FALSE
    MaxCommit = 2
    MaxRows = 3
    MaxFaults = 1
INVARIANTS
    TypeOK
    OneAtATime
    LabelsNotAhead
    RunningRowsExplained
PROPERTIES
    FailedScanKeeps
    Settles
CHECK_DEADLOCK FALSE
