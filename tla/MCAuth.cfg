SPECIFICATION Spec
CONSTANTS
    a = a
    b = b
    None = None
    Accounts = {a}
    MaxRefreshes = 1
    MaxClients = 2
INVARIANTS
    AuthTypeOK
    SourceFollows
    StoredFollows
    StoppedStaysDown
PROPERTIES
    StreamCatchesUp
