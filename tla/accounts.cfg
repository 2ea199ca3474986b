\* Sessions, ownership, rate limits, visits and reports.
SPECIFICATION AccountsSpec
CONSTANTS
    Handlers = {h1}
    Ttl = 2
    Interval = 1
    NoOne = NoOne
    MaxTokens = 2
    MaxNow = 4
    MaxUpsets = 1
    Owners = {v1, v2}
    Accounts = {a1, a2}
    Games = {g1}
    Requests = {r1, r2}
    Nobody = Nobody
    LimitKeys = {k1}
    MaxHits = 2
    Window = 2
    MaxClock = 7
    Visitors = {c1}
    Workers = {w1, w2}
    Beacons = {b1, b2}
    NoSalt = NoSalt
    Retention = 1
    MaxInstant = 4
    MaxDraws = 2
    Calls = {q1}
    Nicknames = {n1, adm}
    Admins = {adm}
    Testers = {}
    Setups <- SetupsChosen
    NoRow = NoRow
    MinExposed = 1
    MaxSessions = 2
    MaxGames = 2
    MaxLength = 1
    Endings <- EndingsSeen
    LastDay = 1
INVARIANTS
    AccountsTypeOK
    StampsKept
    EndedRightly
    OwnershipIsEarned
    LinkBindsGames
    SlidingWindow
    VisitorsCountOnce
    LogTellsWhoIsIn
    FiguresHold
    SpectatorsSee
CHECK_DEADLOCK FALSE
