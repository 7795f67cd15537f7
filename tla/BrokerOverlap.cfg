SPECIFICATION Spec
CONSTANTS
    instrument = instrument
    camera = camera
    scanner = scanner
    Clients = {c1, c2}
    Pollers = {}
    Cameras = {camera}
    Scanners = {}
    Instruments = {instrument}
    Rank <- RankCamera
    LeaseIds = {l1, l2}
    LoopIds = {p1, p2}
    NoLease = NoLease
    NoTarget = NoTarget
    NoLoop = NoLoop
    SlowCameras = {camera}
    FaultyCameras = {camera}
    Geometries = {"unset"}
    Ops = {"start", "stop", "grant", "renew", "call", "expire", "fail", "peek"}
SYMMETRY ClientSymmetry
INVARIANTS
    SoleDriver
    LeasedIsDark
    LiveCameraIsPowered
    GrantsAreWhole
PROPERTIES
    ImplementsLeaseTable
