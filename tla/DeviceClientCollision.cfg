SPECIFICATION FairClientSpec
CONSTANTS
    Devices = {camera}
    MaxAttempts = 3
    MaxSegments = 1
PROPERTIES CollisionIsRetried
CHECK_DEADLOCK FALSE
