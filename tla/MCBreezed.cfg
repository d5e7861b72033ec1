SPECIFICATION Spec
CONSTANTS
    a = a
    b = b
    Tasks = {a}
    Browser = {}
    MaxConcurrent = 1
    Ttl = 3
    Heartbeat = 2
    MaxFailures = 3
    Attached = FALSE
INVARIANTS
    BeatInTime
PROPERTIES
    StrandedEnds
    AnsweredIsServed
