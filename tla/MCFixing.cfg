SPECIFICATION FixingSpec
CONSTANTS
    w1 = w1
    w2 = w2
    Default = w1
    None = none
    OptIn = TRUE
    Signals <- MCSignals
    Tasks = {1, 2, 3}
    Cases <- MCCases
    Texts <- MCTexts
    Blocks <- MCBlocks
    Fixed = "fixed"
    Marks = {"m"}
    Dashed = {"--"}
    Context = 1
    MaxEdits = 1
    MaxApprovals = 2
INVARIANTS
    TypeOK
    NoMixups
    
    EditsSurvive
    HunksAreExact
PROPERTY DetectionsSurface
CHECK_DEADLOCK FALSE
