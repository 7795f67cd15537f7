SPECIFICATION Spec
CONSTANTS
    Devices = {camera}
    Control = instrument
    Wedged = {}
    HasBlanker = TRUE
    ParkMayFail = FALSE
    Interrupts = TRUE
    Nobody = Nobody
INVARIANTS
    LeavesTheBeamOff
CHECK_DEADLOCK FALSE
