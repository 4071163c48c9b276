SPECIFICATION FairSpec
CONSTANTS
    Requests = {r1}
    Pipeline = pipeline
    Poller = poller
    MaxPr = 2
PROPERTY MergeIsNoticed
CHECK_DEADLOCK FALSE
