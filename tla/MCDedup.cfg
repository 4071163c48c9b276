SPECIFICATION FairSpec
CONSTANTS
    t1 = t1
    t2 = t2
    t3 = t3
    fpA = fpA
    None = none
    Fingerprints = {fpA}
    Triggers <- MCTriggers
    Fp <- MCFp
INVARIANTS
    NoTwins
    EveryHitCounted
PROPERTY TriggersReturn
CHECK_DEADLOCK FALSE
