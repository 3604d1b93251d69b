\* Three ways in, the way out, and in again.
CONSTANTS
    Paths <- MCPaths
    Ext <- MCExt
    Rank <- MCRank
    Inputs <- MCInputs
    Seeds <- MCSeeds
    MaxEntries = 3
    MaxDepth = 2
    RatioCap = 1
    QuotaArchive = 5
    QuotaUpload = 2
    QuotaSession = 4
    MaxOthers = 1
SPECIFICATION Spec
CHECK_DEADLOCK FALSE
INVARIANTS TypeOK ImportedIffSound ImportExact OverlayMerges OverlayCounted ExportComplete RoundTrip
    EntryOpens
