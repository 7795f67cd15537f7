SPECIFICATION Spec
CONSTANTS
    instrument = instrument
    camera = camera
    scanner = scanner
    Clients = {c1, c2}
    Pollers = {}
    Cameras = {}
    Scanners = {scanner}
    Instruments = {}
    Rank <- RankScanner
    LeaseIds = {l1, l2, l3}
    LoopIds = {p1, p2, p3}
    NoLease = NoLease
    NoTarget = NoTarget
    NoLoop = NoLoop
    SlowCameras = {}
    FaultyCameras = {}
    Geometries = {"short"}
    Ops = {"start", "grant"}
SYMMETRY ClientSymmetry
INVARIANTS
    LeasedIsAlwaysDark
