\* One task may be dropped at any await while another converts or prewarms.
CONSTANTS
    Dirs = {d1}
    Engines = {e1, e2}
    Callers = {r1, r2}
    Impatient = {r1}
    None = None
    Capacity = 1
    IdleReap = 1
    MaxId = 4
    MaxClock = 0
    MayClog = TRUE
    Text = Text
    NewLine = NewLine
    Nothing = Nothing
    MaxItems = 0
    MaxBody = 0
    MaxStream = 0
    MaxLines = 0
SPECIFICATION FairSpec
PROPERTY ConvertSettles
