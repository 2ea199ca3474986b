SPECIFICATION Spec
CONSTANTS
    Games = {g1, g2}
    Tasks = {t1}
    SlotCount = 1
    Stones = {a, b}
    Puzzle = Puzzle
    None = None
    Ops = {"create", "place", "undo", "hint", "read", "review", "daily", "resign"}
    Concurrent = FALSE
    MaxStones = 3
    MaxFailures = 2
SYMMETRY FullSymmetry
INVARIANTS
    OwnerIsSynced
    ReadsOwnBoard
CHECK_DEADLOCK FALSE
