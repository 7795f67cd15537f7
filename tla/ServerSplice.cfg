SPECIFICATION Spec
CONSTANTS
    Conns = {h1, h2}
    Targets = {t1}
    LeaseIds = {l1, l2}
    NoLease = NoLease
    NoConn = NoConn
    NoTarget = NoTarget
    Poisoned = {}
    LateCalls = FALSE
INVARIANTS
    EveryFrameIsOwn
CHECK_DEADLOCK FALSE
