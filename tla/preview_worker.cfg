\* Two tabs, of one session or of two, and no engine pool.
CONSTANTS
    Tabs = {k1, k2}
    Sessions = {s1, s2}
    Downloads = {}
    None = None
    Setups <- WorkerOnly
    MayFail = TRUE
    MayCut = TRUE
    MaxFrames = 2
    MaxEdits = 1
    MayClear = TRUE
SPECIFICATION Spec
SYMMETRY Symmetry
INVARIANT TypeOK
PROPERTY NeverBackwards
CHECK_DEADLOCK FALSE
