SPECIFICATION Spec
CONSTANTS
    w1 = w1
    w2 = w2
    Writers = {w1, w2}
    Targets = {"routes"}
    Parent = "routes"
    Children = {}
    Reported = {"healthy", "unhealthy"}
    StabilitySamples = 2
    Debounce = 1
    MaxLag = 0
    MaxTime = 3
    MaxCommits = 5
    MaxIncarnations = 2
SYMMETRY Interchangeable
INVARIANTS
    SamplesAreNews
    EdgeIsNew
    FailureStartKnown
PROPERTIES
    EdgesLinkUp
CHECK_DEADLOCK FALSE
