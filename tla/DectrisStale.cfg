SPECIFICATION Spec
CONSTANTS
    Exposures = {1, 2}
    TriggersPerArm = 2
    Faults = {"late"}
    MaxFaults = 2
    MaxShots = 4
    MaxArms = 4
INVARIANTS NoFrameIsStale
CHECK_DEADLOCK FALSE
