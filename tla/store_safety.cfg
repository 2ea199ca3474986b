SPECIFICATION Spec
CONSTANTS
    Clients = {c1, c2}
    Points = {p1}
    Pass = Pass
    None = None
    UserColor = "B"
    FirstColor = "W"
    UndoLimit = 1
    ResignStreak = 1
    ResignMinMoves = 2
    Steps = {1, 3}
    Ops = {"move", "undo", "resign", "hint", "delete"}
    MayNotOpen = TRUE
    MaxMoves = 5
    MaxHints = 1
    MaxCrashes = 1
SYMMETRY ClientSymmetry
INVARIANTS
    TypeOK
    MovesContiguous
    ReplayLegal
    CacheMatchesDb
    UndoBounded
    WriteLockBrief
PROPERTIES
    StatusSealed
CHECK_DEADLOCK FALSE
