SPECIFICATION FairSpec
CONSTANTS
    r1 = r1
    r2 = r2
    p1 = p1
    p2 = p2
    Runs = {r1}
    NSteps = 3
    OnFailure <- MCOneRun
    Watched <- MCWatchedOne
    Instances = {p1}
    Faults = {"early_remove"}
    MaxLaunches = 1
PROPERTY ActiveNotDeleted
CHECK_DEADLOCK FALSE
