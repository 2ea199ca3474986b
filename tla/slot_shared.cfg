SPECIFICATION Spec
CONSTANTS
    Games = {g1, g2}
    Tasks = {t1, t2}
    SlotCount = 1
    Stones = {a, b}
    Puzzle = Puzzle
    None = None
    Ops = {"create", "place"}
    Concurrent = TRUE
    MaxStones = 3
    MaxFailures = 0
SYMMETRY TaskSymmetry
INVARIANT GenmoveOnOwnBoard
CHECK_DEADLOCK FALSE
