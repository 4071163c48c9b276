SPECIFICATION FairSpec
CONSTANTS
    w1 = w1
    w2 = w2
    Default = w1
    Workspaces <- MCWorkspaces
    Events <- MCEvents
    Scenarios <- MCScenarios
    Window = 2
    LongWindow = 3
    StuckTicks = 1
    LoopThreshold = 3
    RateDivisor = 8
    MaxRetries = 2
    Reversals = 3
    Drops = 3
    OverCalls = 2
    BaselineCalls = 2
    SpikeFactor = 3
    Sustain = 2
    MinHealthy = 2
    JunkThreshold = 2
    BadStages = 2
    MinCalls = 2
    CostFactor = 5
    MinRuns = 2
    RunsKept = 3
INVARIANTS
    TypeOK
    
    
PROPERTIES
    GenericDefers
    StallsAreReported
CHECK_DEADLOCK FALSE
