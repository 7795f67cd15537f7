SPECIFICATION Spec
CONSTANTS
    Exposures = {1, 2}
    TriggersPerArm = 2
    Faults = {"unreached", "lost", "unfetched", "late", "drained", "armed", "triggered",
              "disarmed", "written", "crossed", "restarted"}
    MaxFaults = 2
    MaxShots = 3
    MaxArms = 4
INVARIANTS FrameTimeCovers FrameIsOfItsTrigger ArmedIsHeld
CHECK_DEADLOCK FALSE
