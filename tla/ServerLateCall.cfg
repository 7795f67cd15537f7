SPECIFICATION Spec
CONSTANTS
    Conns = {h1}
    Targets = {t1}
    LeaseIds = {l1}
    NoLease = NoLease
    NoConn = NoConn
    NoTarget = NoTarget
    Poisoned = {}
    LateCalls = FALSE
PROPERTIES
    ParkedStaysParked
CHECK_DEADLOCK FALSE
