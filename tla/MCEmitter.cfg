SPECIFICATION FairSpec
CONSTANTS
    p1 = p1
    p2 = p2
    None = none
    Producers <- MCProducers
    Workers <- MCWorkers
    MaxEvents = 2
    Capacity = 2
    MaxShutdowns = 1
INVARIANTS
    OneWorker
    Flushed
PROPERTIES
    
    QueuedIsPosted
CHECK_DEADLOCK FALSE
