SPECIFICATION FairSpec
CONSTANTS
    Devices = {camera}
    Control = instrument
    Wedged = {camera}
    HasBlanker = TRUE
    ParkMayFail = FALSE
    Interrupts = FALSE
    Nobody = Nobody
PROPERTIES
    TeardownEnds
CHECK_DEADLOCK FALSE
