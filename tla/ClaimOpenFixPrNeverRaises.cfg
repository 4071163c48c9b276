SPECIFICATION Spec
CONSTANTS
    Requests = {r1, r2}
    Pipeline = pipeline
    Poller = poller
    MaxPr = 2
INVARIANT OpenFixPrNeverRaises
CHECK_DEADLOCK FALSE
