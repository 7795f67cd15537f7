SPECIFICATION Spec
CONSTANTS
    Conns = {h1}
    Targets = {t1, t2}
    LeaseIds = {l1, l2}
    NoLease = NoLease
    NoConn = NoConn
    NoTarget = NoTarget
    Poisoned = {t1}
    LateCalls = FALSE
INVARIANTS
    LeasesHaveAHandler
CHECK_DEADLOCK FALSE
