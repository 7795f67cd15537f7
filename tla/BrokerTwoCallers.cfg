SPECIFICATION Spec
CONSTANTS
    instrument = instrument
    camera = camera
    scanner = scanner
    Clients = {c1, c2}
    Pollers = {}
    Cameras = {}
    Scanners = {}
    Instruments = {instrument}
    Rank <- RankInstrument
    LeaseIds = {l1, l2, l3}
    LoopIds = {p1}
    NoLease = NoLease
    NoTarget = NoTarget
    NoLoop = NoLoop
    SlowCameras = {}
    FaultyCameras = {}
    Geometries = {"short"}
    Ops = {"grant", "call", "expire"}
SYMMETRY ClientSymmetry
INVARIANTS
    AlwaysSoleDriver
