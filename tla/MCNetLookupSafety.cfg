SPECIFICATION FairSpec
CONSTANTS
    Thread = {t1, t2, t3}
    Net = {a, b}
    MaxHandle = 4
    Nobody = nobody
    NoNet = none
INVARIANTS HandlesDistinct IssuedResolve
PROPERTY AllocationsReturn
CHECK_DEADLOCK FALSE
