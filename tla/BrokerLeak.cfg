SPECIFICATION Spec
CONSTANTS
    instrument = instrument
    camera = camera
    scanner = scanner
    Clients = {c1}
    Pollers = {}
    Cameras = {camera}
    Scanners = {}
    Instruments = {instrument}
    Rank <- RankCamera
    LeaseIds = {l1, l2}
    LoopIds = {p1, p2}
    NoLease = NoLease
    NoTarget = NoTarget
    NoLoop = NoLoop
    SlowCameras = {}
    FaultyCameras = {camera}
    Geometries = {"unset"}
    Ops = {"start", "grant", "expire"}
INVARIANTS
    ClaimsAreBacked
