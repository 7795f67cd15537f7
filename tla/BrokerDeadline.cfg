SPECIFICATION Spec
CONSTANTS
    instrument = instrument
    camera = camera
    scanner = scanner
    Clients = {c1}
    Pollers = {}
    Cameras = {}
    Scanners = {scanner}
    Instruments = {}
    Rank <- RankScanner
    LeaseIds = {l1}
    LoopIds = {p1, p2}
    NoLease = NoLease
    NoTarget = NoTarget
    NoLoop = NoLoop
    SlowCameras = {}
    FaultyCameras = {}
    Geometries = {"short", "long"}
    Ops = {"start", "stop", "reconfigure"}
INVARIANTS
    ScanFitsItsDeadline
