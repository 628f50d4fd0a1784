SPECIFICATION FairSpec
CONSTANTS
    w1 = w1
    w2 = w2
    NoWorkflow = NoWorkflow
    Workflows = {w1, w2}
    MaxRuns = 2
    MaxLog = 1
    MaxTicks = 2
    MaxErrors = 1
INVARIANTS
    TypeOK
    NothingLost
    PromptPollsExact
PROPERTIES
    RunAnnounced
CHECK_DEADLOCK FALSE
