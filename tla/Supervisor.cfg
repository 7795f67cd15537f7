SPECIFICATION FairSupervisorSpec
CONSTANTS
    Kinds <- AllKinds
    Labels <- BothLabels
    Fronts = {f1, f2, f3}
    Broker = broker
    MaxDeaf = 1
    MaxDialogs = 1
CHECK_DEADLOCK FALSE
INVARIANTS
    FrontEndsGoFirst
    OverMeansGone
PROPERTIES
    AskedIsOver
    LossIsNoticed
