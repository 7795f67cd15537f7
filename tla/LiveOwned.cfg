\* One thread owns the object and restarts it: a script, a test, a display.
SPECIFICATION FairSpec
CONSTANTS
    Callers = {ui}
    Starter = ui
    Restartable = TRUE
    Workers = {w1, w2, w3}
    NoThread = NoThread
    NoError = NoError
    NoFrame = NoFrame
    MaxFrames = 2
INVARIANTS
    RunningIsTruthful
    StopMeansFree
    CountIsThisRun
PROPERTIES
    StopTakesEffect
