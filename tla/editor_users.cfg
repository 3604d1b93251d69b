CONSTANTS
    m = m
    x = x
    bindings = bindings
    paper = paper
    Files = {m, x}
    Main = m
    None = None
    Slots = {bindings, paper}
    First = bindings
    Template <- MCTemplate
    Tasks = {t1, t2}
    Setups <- Users
    MaxEdits = 2
    MaxGen = 2
SYMMETRY Symmetry
SPECIFICATION Spec
CHECK_DEADLOCK FALSE
INVARIANTS TypeOK NothingTypedIsLost OpenFileIsShown SettledIsSaved
