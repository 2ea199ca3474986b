SPECIFICATION Spec
CONSTANTS
    Games = {g1, g2}
    Tasks = {t1, t2}
    SlotCount = 2
    Stones = {a, b}
    Puzzle = Puzzle
    None = None
    Ops = {"create", "place", "undo", "hint"}
    Concurrent = TRUE
    MaxStones = 3
    MaxFailures = 1
SYMMETRY FullSymmetry
INVARIANTS
    TypeOK
    GenmoveOnOwnBoard
    NoSharing
CHECK_DEADLOCK FALSE
