SPECIFICATION SupervisorSpec
CONSTANTS
    Kinds <- OneKind
    Labels <- OneLabel
    Fronts = {f1, f2}
    Broker = broker
    MaxDeaf = 1
    MaxDialogs = 1
PROPERTIES AddressGoesWithIt
CHECK_DEADLOCK FALSE
