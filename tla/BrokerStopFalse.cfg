SPECIFICATION Spec
CONSTANTS
    instrument = instrument
    camera = camera
    scanner = scanner
    Clients = {c1}
    Pollers = {}
    Cameras = {camera}
    Scanners = {}
    Instruments = {}
    Rank <- RankLone
    LeaseIds = {l1}
    LoopIds = {p1, p2}
    NoLease = NoLease
    NoTarget = NoTarget
    NoLoop = NoLoop
    SlowCameras = {camera}
    FaultyCameras = {}
    Geometries = {"unset"}
    Ops = {"start", "stop"}
INVARIANTS
    NoLoopIsDoomed
