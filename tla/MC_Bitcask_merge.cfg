CONSTANTS
    Key = {k1, k2}
    Val = {v1, v2}
    Tombstone = Tombstone
    NoLoc = NoLoc
    NoValue = NoValue
    NotFound = NotFound
    NoMeta = NoMeta
    Clients = {c1}
    Mergers = {m1, m2}
    MergeLock = TRUE
    CursorAtHeader = FALSE
    MaxRowsPerFile = 2
    MaxWrites = 2
    MaxMerges = 2
    MaxCrashes = 1
    MaxFailures = 1
SPECIFICATION SerialSpec
INVARIANT GeneratorAheadOfDisk
INVARIANT WritingFileIsNewest
PROPERTY Refinement
PROPERTY ForeachLastWins
