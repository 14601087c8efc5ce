SPECIFICATION Spec
CONSTANTS
    r1 = r1
    r2 = r2
    w1 = w1
    Readers = {r1, r2}
    Writers = {w1}
    NumParts = 2
    StatusPart = 2
    WriteSets = {{1, 2}, {0, 2}}
    NumCommits = 1
INVARIANTS
    AgentsNotAhead
CHECK_DEADLOCK FALSE
