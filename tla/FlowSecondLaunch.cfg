SPECIFICATION FairSpec
CONSTANTS
    r1 = r1
    r2 = r2
    p1 = p1
    p2 = p2
    Runs = {r1}
    NSteps = 3
    OnFailure <- MCOneRun
    Watched <- MCWatchedOne
    Instances = {p1, p2}
    Faults = {}
    MaxLaunches = 2
PROPERTY OrphansOnly
CHECK_DEADLOCK FALSE
