SPECIFICATION SourceSpec
CONSTANTS
    a = a
    b = b
    Tasks = {a}
    Anchor = {a}
    Vis = {"open", "mine", "done"}
    Ended = {"done"}
    Moves <- Lifecycle
    OwnMoves <- Lifecycle
    Mine = {"mine"}
    Sil = {0}
    MaxTime = 3
    ReconcileEvery = 1
    MaxFaults = 1
    MaxSyncs = 1
    MaxLists = 1
    MaxWrites = 1
    MaxLoad = 2
    DiskFails = FALSE
    NoRow = NoRow
INVARIANTS
    SourceRepairable
    SyncRejectHonest
