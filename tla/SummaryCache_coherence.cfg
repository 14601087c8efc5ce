SPECIFICATION FairSpec
CONSTANTS
    r1 = r1
    w2 = w2
    w1 = w1
    Readers = {r1}
    Writers = {w1, w2}
    NumParts = 2
    StatusPart = 2
    WriteSets = {{1, 2}, {0, 2}}
    NumCommits = 2
INVARIANTS
    ExpiredIsNotLive
    CacheIsCurrent
    ReadsReturnedWrites
PROPERTIES
    CommitsSurface
CHECK_DEADLOCK FALSE
