SPECIFICATION FairClientSpec
CONSTANTS
    Devices = {camera, scanner}
    MaxAttempts = 3
    MaxSegments = 2
CHECK_DEADLOCK FALSE
INVARIANTS
    NothingLeftBehind
    KnownSegmentsAreReclaimed
PROPERTIES
    SweepsOnlyTheDead
