SPECIFICATION FairSpec
CONSTANTS
    Conns = {h1, h2}
    Targets = {t1}
    LeaseIds = {l1, l2}
    NoLease = NoLease
    NoConn = NoConn
    NoTarget = NoTarget
    Poisoned = {}
    LateCalls = TRUE
CHECK_DEADLOCK FALSE
INVARIANTS
    LeasesHaveAHandler
    FrameIsOwn
PROPERTIES
    GoneLetsGo
