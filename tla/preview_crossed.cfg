\* Two tabs share the worker thread.
CONSTANTS
    Tabs = {k1, k2}
    Sessions = {s1, s2}
    Downloads = {}
    None = None
    Setups <- WorkerOnly
    MayFail = FALSE
    MayCut = FALSE
    MaxFrames = 1
    MaxEdits = 0
    MayClear = FALSE
SPECIFICATION FairSpec
PROPERTY CatchesUp
CHECK_DEADLOCK FALSE
