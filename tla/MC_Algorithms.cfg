CONSTANTS
    Key = {k1, k2}
    Val = {v1}
    Tombstone = Tombstone
    NoLoc = NoLoc
    FileIds = {1, 2, 3}
    MaxRows = 2
SPECIFICATION Spec
INVARIANT RecoveryInWriteOrder
INVARIANT HintEquivalence
INVARIANT RowReadBack
