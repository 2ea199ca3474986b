SPECIFICATION Spec
CONSTANTS
    Size = 3
    Komi = 13
    None = None
    MaxMoves = 6
INVARIANTS
    PositionIsSound
    KoIsRetake
    ScoreIsFair
CHECK_DEADLOCK FALSE
