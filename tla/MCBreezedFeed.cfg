SPECIFICATION Spec
CONSTANTS
    a = a
    b = b
    Tasks = {a, b}
    Browser = {a, b}
    MaxConcurrent = 1
    Ttl = 3
    Heartbeat = 2
    MaxFailures = 3
    Attached = TRUE
PROPERTIES
    ChangeReachesLaptop
