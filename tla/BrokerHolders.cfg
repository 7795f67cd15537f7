\* Holders renew in time; cameras raise, scans lack parameters.
SPECIFICATION Spec
CONSTANTS
    instrument = instrument
    camera = camera
    scanner = scanner
    Clients = {c1, c2}
    Pollers = {}
    Cameras = {camera}
    Scanners = {scanner}
    Instruments = {}
    Rank <- RankPair
    LeaseIds = {l1, l2}
    LoopIds = {p1, p2}
    NoLease = NoLease
    NoTarget = NoTarget
    NoLoop = NoLoop
    SlowCameras = {camera}
    FaultyCameras = {camera}
    Geometries = {"short", "unset"}
    Ops = {"start", "stop", "grant", "renew", "call", "peek"}
SYMMETRY ClientSymmetry
INVARIANTS
    LeaseOwnsItsClaims
    SoleHolder
    GrantsAreWhole
