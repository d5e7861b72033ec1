SPECIFICATION FairSpec
CONSTANTS
    a = a
    b = b
    Tasks = {a, b}
    Anchor = {a}
    Vis = {"open", "done"}
    Ended = {"done"}
    Moves <- AllMoves
    Sil = {0}
    MaxTime = 3
    ReconcileEvery = 2
    MaxFaults = 1
    MaxSyncs = 1
    MaxLoad = 1
    DiskFails = TRUE
    NoRow = NoRow
INVARIANTS
    TypeOK
    SingleFlight
    NoTriggerLost
    CursorSound
    Repairable
PROPERTIES
    NeverOlder
    ImplementsReplica
    CompletionIsNews
    Converges
