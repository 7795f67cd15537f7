SPECIFICATION Spec
CONSTANTS
    a1 = a1
    a2 = a2
    s1 = s1
    s2 = s2
    v1 = v1
    haadf = haadf
    bf = bf
    Acquirers <- OneAcquirer
    Savers <- MCSavers
    Viewers <- MCViewers
    Recorders <- OneRecorders
    Streams <- OneStreams
    Datasets <- MCDatasets
    MaxIndex = 4
    MaxAttempt = 2
    MaxTime = 1
    MaxFrames = 2
    MaxActs = 3
    MaxFaults = 1
INVARIANT EndedHoldsNothing
CHECK_DEADLOCK FALSE
