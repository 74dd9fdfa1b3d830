CONSTANTS
    Key = {k1, k2}
    Val = {v1, v2}
    Tombstone = Tombstone
    NoLoc = NoLoc
    NoValue = NoValue
    NotFound = NotFound
    NoMeta = NoMeta
    Clients = {c1}
    Mergers = {m1}
    MergeLock = FALSE
    CursorAtHeader = FALSE
    MaxRowsPerFile = 2
    MaxWrites = 4
    MaxMerges = 0
    MaxCrashes = 2
    MaxFailures = 1
SPECIFICATION CrashSpec
INVARIANT TypeOK
INVARIANT KeydirPointsToLiveRow
INVARIANT GeneratorAheadOfDisk
PROPERTY Refinement
PROPERTY ForeachLastWins
CHECK_DEADLOCK FALSE
