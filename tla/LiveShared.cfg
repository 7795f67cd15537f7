\* The broker's use: started once, stopped by every handler thread.
SPECIFICATION FairSpec
CONSTANTS
    Callers = {opener, h1, h2}
    Starter = opener
    Restartable = FALSE
    Workers = {w1}
    NoThread = NoThread
    NoError = NoError
    NoFrame = NoFrame
    MaxFrames = 2
INVARIANTS
    RunningIsTruthful
    StopMeansFree
PROPERTIES
    StopTakesEffect
