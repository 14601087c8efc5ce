SPECIFICATION Spec
CONSTANTS
    w1 = w1
    Writers = {w1}
    Targets = {"container"}
    Parent = "routes"
    Children = {}
    Reported = {"healthy"}
    StabilitySamples = 2
    Debounce = 1
    MaxLag = 0
    MaxTime = 2
    MaxCommits = 3
    MaxIncarnations = 1
PROPERTIES
    NotApplicableIsSilent
CHECK_DEADLOCK FALSE
