SPECIFICATION FairSpec
CONSTANTS
    Processes = {"p", "q"}
    Tokens = {"default", "again"}
    Default = "default"
    None = "none"
    MaxKeys = 4
    MaxTampers = 1
    MaxFaults = 1
INVARIANTS
    TypeOK
    OldRowsMarked
    ArmedOpens
PROPERTIES
    TokenOneShot
    ResetFinished
CHECK_DEADLOCK FALSE
