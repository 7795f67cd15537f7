SPECIFICATION Spec
CONSTANTS
    Devices = {camera}
    Control = instrument
    Wedged = {}
    HasBlanker = TRUE
    ParkMayFail = FALSE
    Interrupts = FALSE
    Nobody = Nobody
PROPERTIES
    GraceIsGiven
CHECK_DEADLOCK FALSE
