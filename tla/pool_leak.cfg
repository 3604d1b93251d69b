\* A conversion is dropped while its engine is being started.
CONSTANTS
    Dirs = {d1}
    Engines = {e1, e2}
    Callers = {r1}
    Impatient = {r1}
    None = None
    Capacity = 1
    IdleReap = 1
    MaxId = 3
    MaxClock = 1
    MayClog = FALSE
    Text = Text
    NewLine = NewLine
    Nothing = Nothing
    MaxItems = 0
    MaxBody = 0
    MaxStream = 0
    MaxLines = 0
SPECIFICATION Spec
INVARIANT EnginesAccounted
