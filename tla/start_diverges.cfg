SPECIFICATION Spec
CONSTANTS
    Callers = {t1, t2}
    Sizes = {s9, s19}
    DefaultSize = s19
    Stones = {a, b}
    Pass = Pass
    None = None
    MaxPlays = 2
    MaxFaults = 2
SYMMETRY Symmetry
INVARIANT StartMatches
CHECK_DEADLOCK FALSE
