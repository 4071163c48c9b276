SPECIFICATION Spec
CONSTANTS
    Requests = {r1, r2}
    Pipeline = pipeline
    Poller = poller
    MaxPr = 2
SYMMETRY RequestSymmetry
INVARIANTS
    DeliveredOneWay
    OpenPrIsIndexed
    FinishedIsExpiring
    ResolvedHasCause
    MergeIsLogged
CHECK_DEADLOCK FALSE
