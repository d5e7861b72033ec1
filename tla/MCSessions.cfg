SPECIFICATION Spec
CONSTANTS
    a = a
    Tasks = {a}
    Ttl = 3
    KeepAlive = 2
    MaxLaunches = 3
    MaxSources = 2
    SignIns = {3}
    Crowded = FALSE
INVARIANTS
    SessTypeOK
    RegistryTrue
    NotStranded
    RenewedInTime
PROPERTIES
    
    RelaunchIsSilent
