SPECIFICATION Spec
CONSTANTS
    Clients = {c1, c2}
    Points = {p1}
    Pass = Pass
    None = None
    UserColor = "B"
    FirstColor = "B"
    UndoLimit = 1
    ResignStreak = 1
    ResignMinMoves = 2
    Steps = {2}
    Ops = {"move", "resign"}
    MayNotOpen = FALSE
    MaxMoves = 4
    MaxHints = 2
    MaxCrashes = 0
SYMMETRY ClientSymmetry
PROPERTY ResultWriteOnce
CHECK_DEADLOCK FALSE
