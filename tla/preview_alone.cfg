\* One tab, both lanes, and an engine that always renders.
CONSTANTS
    Tabs = {k1}
    Sessions = {s1}
    Downloads = {z1}
    None = None
    Setups <- EitherLane
    MayFail = FALSE
    MayCut = FALSE
    MaxFrames = 3
    MaxEdits = 2
    MayClear = FALSE
SPECIFICATION FairSpec
INVARIANT DownloadCurrent
PROPERTIES NeverBackwards CatchesUp IndicatorSettles DownloadAnswered
CHECK_DEADLOCK FALSE
