\* Professional games, puzzles, search queries and reviews.
SPECIFICATION ContentSpec
CONSTANTS
    Texts = {ga, gb}
    Twice = {ga}
    Absent = Absent
    Cap = 2
    MaxRows = 2
    MaxRuns = 2
    MaxIndex = 2
    MaxNew = 1
    Kifus = {1, 2}
    Year = 2
    Century = 2
    LastMonth = 4
    NoDate = NoDate
    NoGame = NoGame
    Curated <- Written
    Archive <- Problems
    Fewest = 2
    MaxDay = 1
    MaxAsked = 2
    NoPuzzle = NoPuzzle
    Unset = Unset
    Queries = {q}
    Uploads = {u1, u2}
    NoWriter = NoWriter
    Delay = 0
    Reach = 1
    MaxDate = 1
    MaxFigure = 2
    MaxImports = 2
    Plays = {p1, p2}
    Reviewers = {r1, r2}
    Nothing = Nothing
    MaxReviewed = 1
    MaxRecord = 2
    MaxBegun = 2
INVARIANTS
    ContentTypeOK
    RefusedOnlyByRace
    SavedMeansImported
    ImportsDisturbNobody
    ShelvesAreComplete
    GradedAsShown
    ListedIsFetched
    ReviewOfGrowingGame
CHECK_DEADLOCK FALSE
