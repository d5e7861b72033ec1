SPECIFICATION SchedFairSpec
CONSTANTS
    a = a
    b = b
    k = k
    Tasks = {a, b}
    Remote = {k}
    Interactive = {a}
    Homeless = {b}
    MaxAttempts = 2
    MaxConcurrent = 1
    Rows = {1, 2, 3, 4}
    NoTask = NoTask
    NoRow = NoRow
    MaxCalls = 1
    MaxFaults = 1
    MaxSessions = 1
CHECK_DEADLOCK FALSE
INVARIANTS
    SchedTypeOK
    TimerArmed
    SingleRunner
    RecurringKept
PROPERTIES
    ClearedStays
    DueIsServed
