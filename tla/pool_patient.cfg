\* Two tasks that are never dropped convert for three sessions, capacity 2.
CONSTANTS
    Dirs = {d1, d2, d3}
    Engines = {e1, e2, e3}
    Callers = {r1, r2}
    Impatient = {}
    None = None
    Capacity = 2
    IdleReap = 1
    MaxId = 3
    MaxClock = 1
    MayClog = TRUE
    Text = Text
    NewLine = NewLine
    Nothing = Nothing
    MaxItems = 3
    MaxBody = 2
    MaxStream = 6
    MaxLines = 4
SPECIFICATION Spec
SYMMETRY Symmetry
INVARIANTS TypeOK EnginesAccounted PoolBounded
PROPERTY IdleReaped
