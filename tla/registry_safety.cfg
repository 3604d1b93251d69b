\* Two requests open sessions for two users, with room for one session each.
CONSTANTS
    Users = {u1, u2}
    Slots = {blank, example}
    Tokens = {t1, t2}
    None = None
    Creators = {c1, c2}
    Handlers = {}
    Gc = Gc
    Cap = 1
    IdleTimeout = 0
    OrphanEvery = 1
    MaxClock = 1
    MaxRestarts = 1
SPECIFICATION Spec
SYMMETRY Symmetry
INVARIANTS TypeOK IndicesAgree PerUserCap LiveDirsExist
PROPERTY ImplementsSlotDirectory
