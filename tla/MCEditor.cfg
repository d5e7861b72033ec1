SPECIFICATION Spec
CONSTANTS
    h = h
    e = e
    orig = orig
    a = a
    note = note
    title = title
    Edits = {h, e}
    World = {orig, a}
    Heading = h
    Orig = orig
    Note = note
    Title = title
    MaxAsked = 4
    MaxFlight = 2
    Overlap = FALSE
    None = None
CHECK_DEADLOCK FALSE
INVARIANTS
    TypedKept
PROPERTIES
    NoClobber
    SavedOrTold
