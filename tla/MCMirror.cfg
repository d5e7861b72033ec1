SPECIFICATION Spec
CONSTANTS
    a = a
    b = b
    Tasks = {a, b}
    Hooks = {"home", "page"}
    Togglers = {"page"}
    FirstRows <- Mine
    Remote = TRUE
    MaxChanges = 2
    MaxWaiting = 1
    None = None
SYMMETRY Symmetry
INVARIANTS
    MirrorTold
    AnsweredHidden
