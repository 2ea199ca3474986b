SPECIFICATION Spec
CONSTANTS
    Callers = {t1, t2}
    Sizes = {s9, s19}
    DefaultSize = s19
    Stones = {a, b}
    Pass = Pass
    None = None
    MaxPlays = 3
    MaxFaults = 2
SYMMETRY Symmetry
INVARIANTS TypeOK BoardIsTold AnswerIsOwn
CHECK_DEADLOCK FALSE
