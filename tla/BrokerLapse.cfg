SPECIFICATION FairSpec
CONSTANTS
    instrument = instrument
    camera = camera
    scanner = scanner
    Clients = {c1, c2}
    Pollers = {c2}
    Cameras = {camera}
    Scanners = {}
    Instruments = {}
    Rank <- RankLone
    LeaseIds = {l1, l2}
    LoopIds = {p1, p2}
    NoLease = NoLease
    NoTarget = NoTarget
    NoLoop = NoLoop
    SlowCameras = {}
    FaultyCameras = {}
    Geometries = {"unset"}
    Ops = {"start", "grant", "renew", "expire"}
PROPERTIES
    LapsedIsReclaimed
