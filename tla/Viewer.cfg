SPECIFICATION FairSpec
CONSTANTS
    Scanner = scanner
    Camera = camera
    Nobody = nobody
    Widget = widget
    Stranger = stranger
    Watched = {scanner}
    Owns = FALSE
    JoinsInTime = TRUE
    MaxJobs = 2
    MaxFrames = 1
    MaxFolders = 2
CHECK_DEADLOCK FALSE
INVARIANTS
    RecordsWhereItShows
    LeaseHasAnOwner
    LeavesNothing
PROPERTIES
    AnswersArrive
