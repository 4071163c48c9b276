SPECIFICATION EdgeSpec
CONSTANTS
    Sockets = {s1, s2}
    Events = {e1, e2}
    MaxLists = 3
    Interval = 15
    Timeout = 3
    Ttl = 90
    MaxHearts = 3
    Sources = {"app", "web"}
    MaxBuffer = 2
    MaxLog = 4
INVARIANTS
    TypeOK
    EventsOnce
    
    LogIsAnswered
CHECK_DEADLOCK FALSE
