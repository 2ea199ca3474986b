SPECIFICATION FairSpec
CONSTANTS
    Clients = {c1, c2}
    Points = {p1}
    Pass = Pass
    None = None
    UserColor = "B"
    FirstColor = "B"
    UndoLimit = 1
    ResignStreak = 1
    ResignMinMoves = 2
    Steps = {2}
    Ops = {"move", "undo", "score"}
    MayNotOpen = FALSE
    MaxMoves = 3
    MaxHints = 1
    MaxCrashes = 0

INVARIANTS
    OneInCriticalSection
    UserOnTurn
PROPERTIES
    RefinesRecord
    RequestsEnd
CHECK_DEADLOCK FALSE
