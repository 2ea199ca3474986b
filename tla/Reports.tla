------------------------------ MODULE Reports ------------------------------
(* What the console, the player's statistics and the spectators are told   *)
(* of the games: queries over sessions, games and sockets, which come and  *)
(* go under them.  A request goes by the session row it loaded until its   *)
(* commit; by then the session may be gone and its id be another's.  The   *)
(* accounts that share games are the subject of Ownership, the log of      *)
(* logins that of Sessions, the games' own rules that of GameStore.        *)
EXTENDS Integers, FiniteSets, FiniteSetsExt, Sequences

CONSTANTS
    Calls,             \* sign-ins and creations of games under way
    Nicknames,
    Admins, Testers,   \* reserved nicknames, and those of the test harness
    Setups,            \* per nickname, the ranks, boards, handicaps and players chosen
    NoRow,
    MinExposed,        \* _MIN_EXPOSED_MOVES
    MaxSessions,       \* bound: sessions ever begun
    MaxGames,          \* bound: the largest game id
    MaxLength,         \* bound: moves of a game
    Endings,           \* bound: how games are seen to end, <<status, winner>>
    LastDay            \* bound: the calendar

ASSUME ReportsAssumption ==
    /\ Admins \cup Testers \subseteq Nicknames /\ MinExposed \in Nat
    /\ DOMAIN Setups = Nicknames
    /\ \A n \in Nicknames : \A setup \in Setups[n] : setup.rank # NoRow
    /\ {MaxSessions, MaxGames, MaxLength, LastDay} \subseteq Nat
    /\ Endings \subseteq {"finished", "resigned"} \X {"user", "ai"}

SessionIds == 1..MaxSessions
GameIds == 1..MaxGames
SignedEntries == [name: Nicknames, login: 1..MaxSessions]
GameEntries == [session: SessionIds \cup {NoRow}, name: Nicknames, login: 1..MaxSessions,
                under: 1..MaxSessions, setup: UNION {Setups[n] : n \in Nicknames},
                status: {"active", "finished", "resigned"}, winner: {"user", "ai", NoRow},
                moves: 0..MaxLength, started: 0..LastDay, finished: 0..LastDay \cup {NoRow}]

ASSUME NoRowAssumption ==
    /\ NoRow \notin Int /\ NoRow \notin SignedEntries /\ NoRow \notin GameEntries
    /\ NoRow \notin {"user", "ai"} /\ NoRow \notin [moves: 0..MaxLength]

VARIABLES
    utc,        \* today
    signed,     \* sessions: nickname, and (history) which login it is
    entered,    \* history: logins so far
    games,      \* games, with (history) the login that asked for it and the one
                \* that had its session id when it was stored
    call,       \* the handlers of create_session and create_game
    sockets     \* the keys of ws._connections
reportVars == <<utc, signed, entered, games, call, sockets>>

Signed == {i \in SessionIds : signed[i] # NoRow}
Extant == {g \in GameIds : games[g] # NoRow}
NoCall == [does |-> "nothing"]
Next1(ids) == 1 + Max({0} \cup ids)          \* SQLite hands out max(rowid) + 1

ReportsInit ==
    /\ utc = 0
    /\ signed = [i \in SessionIds |-> NoRow]
    /\ entered = 0
    /\ games = [g \in GameIds |-> NoRow]
    /\ call = [c \in Calls |-> NoCall]
    /\ sockets = {}

(***************************************************************************)
(* What happens                                                            *)
(***************************************************************************)

\* create_session up to its first commit
Enter(name) ==
    /\ entered < MaxSessions
    /\ entered' = entered + 1
    /\ signed' = [signed EXCEPT ![Next1(Signed)] = [name |-> name, login |-> entered']]
    /\ UNCHANGED <<utc, games, sockets>>
SignIn(name) == name \notin Admins /\ Enter(name) /\ UNCHANGED call

\* _reserved_key_taken: two requests may both find a reserved name free
FindFree(c, name) ==
    /\ call[c] = NoCall /\ name \in Admins
    /\ \A i \in Signed : signed[i].name # name
    /\ call' = [call EXCEPT ![c] = [does |-> "enter", name |-> name]]
    /\ UNCHANGED <<utc, signed, entered, games, sockets>>
SignInReserved(c) ==
    /\ call[c].does = "enter" /\ Enter(call[c].name)
    /\ call' = [call EXCEPT ![c] = NoCall]

\* Logout, purge and disconnect; the foreign key empties session_id
Dangling(i) == games                         \* mutant: without foreign_keys=ON
Detached(i) == [g \in GameIds |-> IF g \in Extant /\ games[g].session = i
                                  THEN [games[g] EXCEPT !.session = NoRow] ELSE games[g]]
SignOut(i) ==
    /\ i \in Signed
    /\ signed' = [signed EXCEPT ![i] = NoRow]
    /\ games' = Detached(i)
    /\ UNCHANGED <<utc, entered, call, sockets>>

\* get_current_session loads the row; create_game stores the game under the
\* id and the nickname it had.  The foreign key asks for a session with that
\* id, whoever's it is by now
LoadSession(c, i) ==
    /\ call[c] = NoCall /\ i \in Signed
    /\ call' = [call EXCEPT ![c] = [does |-> "create", session |-> i, name |-> signed[i].name,
                                    login |-> signed[i].login]]
    /\ UNCHANGED <<utc, signed, entered, games, sockets>>

NewGame(c, setup) ==
    /\ call[c].does = "create" /\ call[c].session \in Signed
    /\ Next1(Extant) \in GameIds
    /\ games' = [games EXCEPT ![Next1(Extant)] =
          [session |-> call[c].session, name |-> call[c].name, login |-> call[c].login,
           under |-> signed[call[c].session].login, setup |-> setup, status |-> "active",
           winner |-> NoRow, moves |-> 0, started |-> utc, finished |-> NoRow]]
    /\ call' = [call EXCEPT ![c] = NoCall]
    /\ UNCHANGED <<utc, signed, entered, sockets>>

\* The foreign key finds nobody, a commit fails, or the client hangs up
CallFails(c) ==
    /\ call[c] # NoCall
    /\ call' = [call EXCEPT ![c] = NoCall]
    /\ UNCHANGED <<utc, signed, entered, games, sockets>>

\* Rounds and undos, of the maker or of another session of its account
RecordLength(g, n) ==
    /\ g \in Extant /\ games[g].status = "active"
    /\ games' = [games EXCEPT ![g].moves = n]
    /\ UNCHANGED <<utc, signed, entered, call, sockets>>

\* Two passes, a settled position, the player's resignation or the loss
\* streak: result, winner and finished_at come with the status
EndGame(g, status, winner) ==
    /\ g \in Extant /\ games[g].status = "active"
    /\ games' = [games EXCEPT ![g].status = status, ![g].winner = winner,
                              ![g].finished = utc]
    /\ UNCHANGED <<utc, signed, entered, call, sockets>>

\* genmove answers with a resignation: the one end without finished_at
EngineResigns(g) ==
    /\ g \in Extant /\ games[g].status = "active"
    /\ games' = [games EXCEPT ![g].status = "resigned", ![g].winner = "user"]
    /\ UNCHANGED <<utc, signed, entered, call, sockets>>

Erase(g) ==
    /\ g \in Extant
    /\ games' = [games EXCEPT ![g] = NoRow]
    /\ UNCHANGED <<utc, signed, entered, call, sockets>>

Connect(g) == /\ g \in Extant
              /\ sockets' = sockets \cup {g}
              /\ UNCHANGED <<utc, signed, entered, games, call>>
HangUp(g) == /\ g \in sockets
             /\ sockets' = sockets \ {g}
             /\ UNCHANGED <<utc, signed, entered, games, call>>

NewDay == /\ utc < LastDay
          /\ utc' = utc + 1
          /\ UNCHANGED <<signed, entered, games, call, sockets>>

ReportsNext ==
    \/ \E c \in Calls :
        \/ \E name \in Nicknames : FindFree(c, name)
        \/ \E i \in SessionIds : LoadSession(c, i)
        \/ SignInReserved(c) \/ CallFails(c)
        \/ \E setup \in UNION {Setups[n] : n \in Nicknames} :
              call[c].does = "create" /\ setup \in Setups[call[c].name] /\ NewGame(c, setup)
    \/ \E name \in Nicknames : SignIn(name)
    \/ \E i \in SessionIds : SignOut(i)
    \/ \E g \in GameIds :
        \/ \E n \in 0..MaxLength : RecordLength(g, n)
        \/ \E end \in Endings : EndGame(g, end[1], end[2])
        \/ EngineResigns(g) \/ Erase(g) \/ Connect(g) \/ HangUp(g)
    \/ NewDay

ReportsSpec == ReportsInit /\ [][ReportsNext]_reportVars

(***************************************************************************)
(* The console                                                             *)
(***************************************************************************)
Of(status) == {g \in Extant : games[g].status = status}
Won(set, winner) == {g \in set : games[g].winner = winner}
Decided == Of("finished") \cup Of("resigned")
Online == sockets \cap Extant

\* The sum of the values of f, counted out
Total(f) == Cardinality(UNION {{v} \X (1..f[v]) : v \in DOMAIN f})

Summary ==
    [total |-> Cardinality(Extant), active |-> Cardinality(Of("active")),
     finished |-> Cardinality(Of("finished")), resigned |-> Cardinality(Of("resigned")),
     aiResigned |-> Cardinality(Won(Of("resigned"), "user")),
     decisive |-> Cardinality(Decided), userWins |-> Cardinality(Won(Decided, "user")),
     moves |-> Total([g \in Extant |-> games[g].moves]),
     liveSessions |-> Cardinality({games[g].session : g \in Online} \ {NoRow}),
     liveGames |-> Cardinality(sockets)]

SessionRow(i) ==
    [games |-> Cardinality({g \in Extant : games[g].session = i}),
     active |-> Cardinality({g \in Of("active") : games[g].session = i}),
     connected |-> \E g \in Online : games[g].session = i]
ListSessions == [i \in Signed |-> SessionRow(i)]

\* list_games: the filters; invalid dates are none
GamesListed(status, name, from, to) ==
    {g \in Extant : /\ status \in {NoRow, games[g].status}
                    /\ name \in {NoRow, games[g].name}
                    /\ from = NoRow \/ games[g].started >= from
                    /\ to = NoRow \/ games[g].started < to + 1}

\* session_detail of a live session: games and figures go by the nickname
SessionDetail(i) ==
    LET theirs == {g \in Extant : games[g].name = signed[i].name}
    IN  [name |-> signed[i].name, games |-> theirs, active |-> Cardinality(theirs \cap Of("active")),
         wins |-> Cardinality(Won(theirs, "user")), losses |-> Cardinality(Won(theirs, "ai"))]

\* stats: a bucket per day of the window, today the last
Span(days) == (utc - (days - 1))..utc
Buckets(days) ==
    [d \in Span(days) |->
        [started |-> Cardinality({g \in Extant : games[g].started = d}),
         finished |-> Cardinality({g \in Extant : games[g].finished = d})]]
NicknameSummary ==
    [name \in {games[g].name : g \in Extant} |->
        LET theirs == {g \in Extant : games[g].name = name}
        IN  [games |-> Cardinality(theirs), wins |-> Cardinality(Won(theirs, "user")),
             losses |-> Cardinality(Won(theirs, "ai"))]]

\* What was chosen for the games, a choice left open not counted.  The
\* lists are cut after top entries: which of the rarest stay is open
Chosen(set, what) == {games[g].setup[what] : g \in set} \ {NoRow}
With(set, what, v) == {g \in set : games[g].setup[what] = v}
PickCounts(what) == [v \in Chosen(Extant, what) |-> Cardinality(With(Extant, what, v))]

\* GET /api/stats over the games a player owns
Tally(set) == LET wins == Cardinality(Won(set, "user"))
              IN  [total |-> Cardinality(set), wins |-> wins, losses |-> Cardinality(set) - wins]
Breakdown(set) ==
    LET Group(g) == <<games[g].setup.rank, games[g].setup.handicap, games[g].winner>>
    IN  [k \in {Group(g) : g \in set} |-> Cardinality({g \in set : Group(g) = k})]
PlayerStats(owned) ==
    LET mine == owned \cap Decided
        By(what) == [v \in Chosen(mine, what) |-> Tally(With(mine, what, v))]
    IN  [whole |-> Tally(mine), by |-> [what \in {"rank", "board", "player"} |-> By(what)],
         breakdown |-> Breakdown(mine)]

(***************************************************************************)
(* spectate.py                                                             *)
(***************************************************************************)
Hidden(g, names) ==
    \/ games[g].name \in names
    \/ \E i \in Signed : games[g].session = i /\ signed[i].name \in names
AnyLength(g) == g \in Decided                       \* mutant: however short
Exposed(g) == g \in Decided /\ games[g].moves >= MinExposed
Running(g) == games[g].status = "active" /\ games[g].session \in Signed
Spectatable ==
    {g \in Extant : (Exposed(g) \/ Running(g)) /\ ~Hidden(g, Admins) /\ ~Hidden(g, Testers)}

\* Lists are cut, newest first
Limit(asked, most) == Max({1, Min({asked, most})})
NewestFirst(ids, limit) == {i \in ids : Cardinality({j \in ids : j > i}) < limit}

\* The list, newest first, and the page of one game; later ids begin later
ListSpectatable(asked) ==
    [g \in NewestFirst(Spectatable, Limit(asked, 100)) |->
        [name |-> games[g].name, live |-> games[g].status = "active"]]
SpectateGame(g) == IF g \in Spectatable THEN [moves |-> games[g].moves] ELSE NoRow

-----------------------------------------------------------------------------
ReportsTypeOK ==
    /\ utc \in 0..LastDay /\ entered \in 0..MaxSessions
    /\ signed \in [SessionIds -> SignedEntries \cup {NoRow}]
    /\ \A g \in Extant :
          /\ games[g].session \in Signed \cup {NoRow} /\ games[g].name \in Nicknames
          /\ games[g].moves \in 0..MaxLength
          /\ games[g].winner = NoRow <=> games[g].status = "active"
    /\ \A c \in Calls : call[c].does \in {"nothing", "enter", "create"}
    /\ sockets \subseteq GameIds

(* Ids of sessions are used again, games are not: what the console reads   *)
(* through session_id is about the login a game was stored under, and      *)
(* never about the next one with its id.  That is the login that asked for *)
(* it, unless this one ended while the request was under way and its id    *)
(* was given out again before the game was stored.                         *)
Adopted(g) == games[g].under # games[g].login
Lasts(login) == \E i \in Signed : signed[i].login = login
FiguresAreOwn ==
    /\ \A i \in Signed :
          SessionRow(i).games = Cardinality({g \in Extant : games[g].under = signed[i].login})
    /\ \A g \in Extant : Adopted(g) => ~Lasts(games[g].login)

(* The pages agree: states and outcomes add up to the totals, the wins and *)
(* losses per nickname to the decided games, the days to all games begun   *)
(* and, but for those the engine resigned out of hand, to all decided; the *)
(* losses a player is told, by subtraction, are the ones counted for the   *)
(* console, and as many sessions are live as rows show a connection.       *)
(* Split by rank, or by rank, handicap and winner, a player's wins add up  *)
(* to the whole; split by AI player, what is missing chose none.           *)
FiguresAgree ==
    LET sum == Summary
        named == NicknameSummary
        all == Buckets(LastDay + 1)
        rows == ListSessions
        dateless == {g \in Decided : games[g].finished = NoRow}
    IN  /\ sum.total = sum.active + sum.finished + sum.resigned
        /\ sum.decisive = Total([n \in DOMAIN named |-> named[n].wins + named[n].losses])
        /\ sum.userWins = Total([n \in DOMAIN named |-> named[n].wins])
        /\ sum.total = Total([d \in DOMAIN all |-> all[d].started])
        /\ sum.decisive = Cardinality(dateless) + Total([d \in DOMAIN all |-> all[d].finished])
        /\ Cardinality(dateless) <= sum.aiResigned
        /\ sum.liveSessions = Cardinality({i \in Signed : rows[i].connected})
        /\ Total(PickCounts("rank")) = sum.total
        /\ \A i \in Signed :
              LET detail == SessionDetail(i)
                  told == PlayerStats(detail.games).whole
              IN  told.losses = detail.losses /\ told.wins = detail.wins
        /\ \A owned \in SUBSET Decided :
              LET told == PlayerStats(owned)
                  Wins(what) == Total([v \in DOMAIN told.by[what] |-> told.by[what][v].wins])
                  open == {g \in owned : games[g].setup.player = NoRow}
              IN  /\ Total(told.breakdown) = told.whole.total
                  /\ Wins("rank") = told.whole.wins
                  /\ Wins("player") = told.whole.wins - Cardinality(Won(open, "user"))

(* Each figure of the console is about its own login, and none contradicts *)
(* another page's.                                                         *)
FiguresHold == FiguresAreOwn /\ FiguresAgree

(* Spectators see a game in progress exactly while the login that made it  *)
(* lasts, and a decided one that is long enough whoever has left; never    *)
(* one of an administrator's or of the test harness, also when the session *)
(* is gone.  A game stored under the next login with its id is in progress *)
(* for them while this one lasts, and never shows a reserved name.         *)
SpectatorsSee ==
    LET seen == Spectatable
    IN  \A g \in Extant :
          LET kept == games[g].name \in Admins \cup Testers
          IN  /\ ~Adopted(g) =>
                    (g \in seen <=> ~kept /\ IF games[g].status = "active"
                                             THEN Lasts(games[g].login)
                                             ELSE games[g].moves >= MinExposed)
              /\ Adopted(g) /\ g \in seen =>
                    ~kept /\ (games[g].status = "active" => Lasts(games[g].under))

=============================================================================
