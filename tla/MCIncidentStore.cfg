SPECIFICATION FairSpec
CONSTANTS
    Writers = {w1, w2, w3}
    Creator = creator
    Fields = {status, interpretation}
    Values = {v0, v1}
    Default = v0
    Absent = absent
    Free = free
INVARIANTS
    NoLostUpdate
    RowMirrorsRecord
PROPERTIES
    ImplementsAtomic
    UpdatesReturn
CHECK_DEADLOCK FALSE
