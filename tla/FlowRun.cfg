SPECIFICATION FairSpec
CONSTANTS
    r1 = r1
    r2 = r2
    p1 = p1
    p2 = p2
    Runs = {r1}
    NSteps = 3
    OnFailure <- MCOneRun
    Watched <- MCWatchedOne
    Instances = {p1}
    Faults = {"panic", "delete_error"}
    MaxLaunches = 3
INVARIANTS
    TypeOK
    NoOrphans
    LifeInv
    StatusMatchesSteps
    PollComplete
PROPERTIES
    StepsInOrder
    LifecycleSpec
    StopEndsRun
CHECK_DEADLOCK FALSE
