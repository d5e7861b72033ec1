SPECIFICATION Spec
CONSTANTS
    d = d
    e = e
    t = t
    p = p
    q = q
    Dirs = {d, e}
    Tasks = {t}
    Ptys = {p}
    MaxTabs = 2
    MaxMade = 3
    MaxMoves = 1
    None = None
SYMMETRY Symmetry
CHECK_DEADLOCK FALSE
INVARIANTS
    TabsTypeOK
    NoOrphan
    MarksInView
