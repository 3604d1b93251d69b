CONSTANTS
    m = m
    d = d
    dm = dm
    r1 = r1
    r2 = r2
    Paths = {m, d, dm}
    Parent <- MCParent
    Base <- MCBase
    Rank <- MCRank
    None = None
    Dir = Dir
    Tasks = {r1, r2}
    Setups <- Mixes
    QuotaBytes = 2
    QuotaFiles = 3
    UploadMax = 2
    CountMod = 32
    MaxFields = 2
    MaxCount = 4
    MaxBytes = 5
    MaxStray = 1
SPECIFICATION Spec
INVARIANTS TypeOK NothingUncounted QuotaHolds EntryExists CountNeverWraps
