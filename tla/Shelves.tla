------------------------------- MODULE Shelves -------------------------------
(* What visitors are shown of the library: the tabs of the list, the       *)
(* themes and the game of the month.  Pure queries over the rows; the      *)
(* calendar and the library move under them.  A date counts months.        *)
EXTENDS Integers, FiniteSets

CONSTANTS
    Kifus,        \* a finite set of numbers
    Year,         \* months in a year
    Century,      \* the date the 21st century began
    LastMonth,    \* bound: the calendar
    NoDate,       \* DT missing or not an ISO date
    NoGame

Months == 0..LastMonth
Collections == {"masterpiece", "world", "recent"}
Events == {"none", "world_cup", "honinbo", "castle_game"}
ShelfRows == [collection: Collections, event: Events, date: Months \cup {NoDate}]

ASSUME ShelvesAssumption ==
    /\ Year \in Nat \ {0} /\ {LastMonth, Century} \subseteq Nat /\ NoDate \notin Int
    /\ Kifus \subseteq Nat /\ IsFiniteSet(Kifus) /\ NoGame \notin Nat \cup ShelfRows

VARIABLES today, shelf
shelfVars == <<today, shelf>>

\* classify_collection for the ingest and the seeds; uploads are "recent"
Classify(event) == IF event = "world_cup" THEN "world" ELSE "masterpiece"

ShelvesInit ==
    /\ today = 0
    /\ shelf = [g \in Kifus |-> NoGame]

OnShelf == {g \in Kifus : shelf[g] # NoGame}

\* An importer's row; the date is not in the future
Import(g, event, date, uploaded) ==
    /\ shelf[g] = NoGame
    /\ date # NoDate => date <= today
    /\ shelf' = [shelf EXCEPT ![g] =
                    [collection |-> IF uploaded THEN "recent" ELSE Classify(event),
                     event |-> event, date |-> date]]
    /\ UNCHANGED today

Withdraw(g) ==
    /\ g \in OnShelf
    /\ shelf' = [shelf EXCEPT ![g] = NoGame]
    /\ UNCHANGED today

NextMonth ==
    /\ today < LastMonth
    /\ today' = today + 1
    /\ UNCHANGED shelf

ShelvesNext ==
    \/ \E g \in Kifus, event \in Events, date \in Months \cup {NoDate}, uploaded \in BOOLEAN :
          Import(g, event, date, uploaded)
    \/ \E g \in Kifus : Withdraw(g)
    \/ NextMonth

ShelvesSpec == ShelvesInit /\ [][ShelvesNext]_shelfVars

(***************************************************************************)
(* SQL conditions on game_date: NULL satisfies none of them                *)
(***************************************************************************)
Since(g, date) == shelf[g].date # NoDate /\ shelf[g].date >= date
Before(g, date) == shelf[g].date # NoDate /\ shelf[g].date < date
InMonth(g, m) == shelf[g].date # NoDate /\ shelf[g].date % Year = m

\* list_pro_games: "recent" goes by the date, the other tabs hold the rest
OnlyOlder(g) == Before(g, today - Year)      \* mutant: without IS NULL
NotRecent(g) == Before(g, today - Year) \/ shelf[g].date = NoDate
Tab(tab) ==
    {g \in OnShelf : IF tab = "recent" THEN Since(g, today - Year)
                     ELSE shelf[g].collection = tab /\ NotRecent(g)}

\* The order "recent", NULLS LAST, then the newest id
Precedes(g, h) ==
    \/ shelf[g].date = shelf[h].date /\ g > h
    \/ /\ shelf[g].date # NoDate
       /\ shelf[h].date = NoDate \/ shelf[g].date > shelf[h].date
InOrder(set, Less(_, _)) ==                  \* ORDER BY
    CHOOSE rows \in [1..Cardinality(set) -> set] :
        \A m, n \in DOMAIN rows : m < n => Less(rows[m], rows[n])
PageOf(tab, limit, offset) ==
    LET rows == InOrder(Tab(tab), Precedes)
    IN  [n \in {n \in 1..limit : offset + n \in DOMAIN rows} |-> rows[offset + n]]

\* THEMES and theme_query_clause
Theme(slug) ==
    {g \in OnShelf : CASE slug = "masterpieces"  -> shelf[g].collection = "masterpiece"
                       [] slug = "world-finals"  -> shelf[g].collection = "world"
                       [] slug = "cwi"           -> shelf[g].collection = "cwi"
                       [] slug = "honinbo"       -> shelf[g].event = "honinbo"
                       [] slug = "castle-games"  -> shelf[g].event = "castle_game"
                       [] slug = "21st-century"  -> Since(g, Century)}

\* candidates_for_month, pick_index and pick_for_month
Candidates(m) ==
    LET masters == {g \in OnShelf : InMonth(g, m) /\ shelf[g].collection = "masterpiece"}
    IN  IF masters # {} THEN masters ELSE {g \in OnShelf : InMonth(g, m)}
PickIndex(digest, n) == (digest % n) + 1
Pick(m, digest) ==
    IF Candidates(m) = {} THEN NoGame
    ELSE InOrder(Candidates(m), <)[PickIndex(digest, Cardinality(Candidates(m)))]

-----------------------------------------------------------------------------
ShelvesTypeOK == today \in Months /\ shelf \in [Kifus -> ShelfRows \cup {NoGame}]

(* A game of the seeds or the ingest is on exactly one tab of the list,    *)
(* also without a date and while it ages from one tab to the other; and    *)
(* leafing through a tab, by pages of any size, shows every game of it     *)
(* once.                                                                   *)
OneTab ==
    /\ \A g \in OnShelf : shelf[g].collection # "recent" =>
          Cardinality({tab \in Collections : g \in Tab(tab)}) = 1
    /\ \A tab \in Collections, limit \in 1..(Cardinality(Kifus) + 1) : \A g \in Tab(tab) :
          LET Page(k) == PageOf(tab, limit, k * limit)
              Shows(k, n) == n \in DOMAIN Page(k) /\ Page(k)[n] = g
          IN  \E k \in 0..Cardinality(Kifus), n \in 1..limit :
                 /\ Shows(k, n)
                 /\ \A j \in 0..Cardinality(Kifus), m \in 1..limit :
                       Shows(j, m) => <<j, m>> = <<k, n>>

(* A month with a game has a game of the month, whatever its number is     *)
(* hashed to, and it is a masterpiece if the month has one.                *)
MonthHasPick ==
    \A m \in 0..(Year - 1), digest \in 0..Cardinality(Kifus) :
        LET pick == Pick(m, digest)
        IN  /\ pick = NoGame <=> \A g \in OnShelf : ~InMonth(g, m)
            /\ pick # NoGame => /\ InMonth(pick, m)
                                /\ (\E g \in Theme("masterpieces") : InMonth(g, m))
                                      => pick \in Theme("masterpieces")

(* Every game is on its tab and every month that has games has its pick.   *)
ShelvesAreComplete == OneTab /\ MonthHasPick
=============================================================================
