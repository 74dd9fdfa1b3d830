CONSTANTS
    Key = {k1, k2}
    Val = {v1, v2}
    Tombstone = Tombstone
    NoLoc = NoLoc
    NoValue = NoValue
    NotFound = NotFound
    NoMeta = NoMeta
    Clients = {c1}
    Mergers = {m1}
    MergeLock = FALSE
    CursorAtHeader = FALSE
    MaxRowsPerFile = 2
    MaxWrites = 4
    MaxMerges = 0
    MaxCrashes = 1
    MaxFailures = 1
SPECIFICATION DropSpec
INVARIANT KeydirPointsToLiveRow
PROPERTY Refinement
CHECK_DEADLOCK FALSE
