SPECIFICATION SourceSpec
CONSTANTS
    a = a
    b = b
    Tasks = {a}
    Anchor = {a}
    Vis = {"open", "mine", "done"}
    Ended = {"done"}
    Moves <- Lifecycle
    OwnMoves <- Lifecycle
    Mine = {"mine"}
    Sil = {0}
    MaxTime = 2
    ReconcileEvery = 1
    MaxFaults = 1
    MaxSyncs = 0
    MaxLists = 0
    MaxWrites = 0
    MaxLoad = 2
    DiskFails = FALSE
    NoRow = NoRow
INVARIANTS
    SignedOutClean
