SPECIFICATION FairSpec
CONSTANTS
    Devices = {camera}
    Control = instrument
    Wedged = {}
    HasBlanker = TRUE
    ParkMayFail = TRUE
    Interrupts = TRUE
    Nobody = Nobody
CHECK_DEADLOCK FALSE
INVARIANTS
    ExitedIsDark
    WatchdogSparesTheLiving
PROPERTIES
    TeardownEnds
    OrphanIsGone
