SPECIFICATION FairSpec
CONSTANTS
    viewer = viewer
    other = other
    tick = tick
    worker = worker
    rival = rival
    Clients = {viewer, other}
    Threads = {tick, worker, rival}
    ProcessOf <- Both
    MaxSize = 3
    MaxSegments = 4
    Nobody = Nobody
INVARIANTS
    AnswerIsMine
    FrameIsMine
    OneAtTheDevice
PROPERTIES
    SentIsAnswered
