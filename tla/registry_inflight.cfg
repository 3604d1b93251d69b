\* One request opens sessions while another works on one of them, across an
\* expiry, a sweep and a crash.
CONSTANTS
    Users = {u1}
    Slots = {blank}
    Tokens = {t1, t2}
    None = None
    Creators = {c1}
    Handlers = {h1}
    Gc = Gc
    Cap = 1
    IdleTimeout = 1
    OrphanEvery = 2
    MaxClock = 3
    MaxRestarts = 1
SPECIFICATION FairSpec
INVARIANTS LiveDirsExist GoneMeansExpired
PROPERTIES OrphansRemoved IdleCollected
