SPECIFICATION Spec
CONSTANTS
    instrument = instrument
    camera = camera
    scanner = scanner
    Clients = {c1, c2}
    Pollers = {}
    Cameras = {camera}
    Scanners = {scanner}
    Instruments = {}
    Rank <- RankPair
    LeaseIds = {l1}
    LoopIds = {p1, p2}
    NoLease = NoLease
    NoTarget = NoTarget
    NoLoop = NoLoop
    SlowCameras = {camera}
    FaultyCameras = {}
    Geometries = {"short", "long", "unset"}
    Ops = {"start", "reconfigure", "grant", "stop", "expire"}
SYMMETRY ClientSymmetry
INVARIANTS
    NothingLeftStopped
    ClaimsAreBacked
