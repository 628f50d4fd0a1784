SPECIFICATION FairSpec
CONSTANTS
    w1 = w1
    w2 = w2
    NoWorkflow = NoWorkflow
    Workflows = {w1}
    MaxRuns = 1
    MaxLog = 1
    MaxTicks = 2
    MaxErrors = 0
INVARIANT CompletedOnce
CHECK_DEADLOCK FALSE
