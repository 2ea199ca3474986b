----------------------------- MODULE Ownership -----------------------------
(* Whose game is it: games belong to the session that made them, which may *)
(* end at any time and detaches them, and to the account that session was  *)
(* linked to.  Requests act on the session row they loaded at their start. *)
(* A session is named once and for all: the reuse of its id is the subject *)
(* of Sessions, and of Reports for a game on its way to be stored.         *)
EXTENDS Naturals, FiniteSets

CONSTANTS
    Owners,     \* sessions that may come to exist
    Accounts,   \* accounts at the identity provider
    Games,
    Requests,   \* requests being served at the same time
    Nobody      \* NULL

GameRows == [session: Owners \cup {Nobody}, account: Accounts \cup {Nobody}]

ASSUME OwnershipAssumption ==
    Nobody \notin Owners \cup Accounts \cup Games /\ Nobody \notin GameRows

VARIABLES
    live,      \* rows of sessions
    linked,    \* sessions.account_id
    known,     \* rows of accounts
    game,      \* rows of games: session_id and account_id, or Nobody
    request,   \* the handlers
    maker,     \* history: who created each game
    linkedTo,  \* history: the accounts a session has been linked to
    late       \* history: games made with a row older than their session's last link
ownVars == <<live, linked, known, game, request, maker, linkedTo, late>>
ownHistory == <<maker, linkedTo, late>>

Made == {g \in Games : game[g] # Nobody}
Idle == [op |-> "idle", who |-> Nobody, row |-> Nobody, fresh |-> FALSE]

OwnershipInit ==
    /\ live = {}
    /\ linked = [s \in Owners |-> Nobody]
    /\ known = {}
    /\ game = [g \in Games |-> Nobody]
    /\ request = [r \in Requests |-> Idle]
    /\ maker = [g \in Games |-> Nobody]
    /\ linkedTo = [s \in Owners |-> {}]
    /\ late = {}

\* mutant: a session without an account owns the games without one
NullsMatch(g, s) == game[g].session = s \/ game[g].account = linked[s]

\* ownership.owns, and the WHERE clause of owned_games_clause
Owns(g, s) ==
    \/ game[g].session = s
    \/ linked[s] # Nobody /\ game[g].account = linked[s]

Free(r) == request[r].op = "idle"
Loads(r, op, who, row) ==
    request' = [request EXCEPT ![r] = [op |-> op, who |-> who, row |-> row, fresh |-> TRUE]]
Finish(r) == request' = [request EXCEPT ![r] = Idle]

-----------------------------------------------------------------------------
\* create_session
Arrive(s) ==
    /\ s \notin live
    /\ \A r \in Requests : request[r].who # s
    /\ linkedTo[s] = {} /\ \A g \in Games : maker[g] # s
    /\ live' = live \cup {s}
    /\ UNCHANGED <<linked, known, game, request, ownHistory>>

\* create_game: the session row is the one get_current_session loaded
StartGame(r, s) ==
    /\ Free(r) /\ s \in live
    /\ Loads(r, "create", s, linked[s])
    /\ UNCHANGED <<live, linked, known, game, ownHistory>>

CreateGame(r, g) ==
    /\ request[r].op = "create"
    /\ game[g] = Nobody /\ maker[g] = Nobody
    /\ request[r].who \in live        \* the foreign key
    /\ game' = [game EXCEPT ![g] = [session |-> request[r].who, account |-> request[r].row]]
    /\ maker' = [maker EXCEPT ![g] = request[r].who]
    /\ late' = IF request[r].fresh THEN late ELSE late \cup {g}
    /\ Finish(r)
    /\ UNCHANGED <<live, linked, known, linkedTo>>

\* delete_game, by anyone who owns it
RemoveGame(g, s) ==
    /\ s \in live /\ g \in Made /\ Owns(g, s)
    /\ game' = [game EXCEPT ![g] = Nobody]
    /\ UNCHANGED <<live, linked, known, request, ownHistory>>

-----------------------------------------------------------------------------
\* google_callback: whether the account exists is read before the first
\* write, everything else after it and in the same transaction
StartCallback(r, s, a) ==
    /\ Free(r)
    /\ Loads(r, IF a \in known THEN "relogin" ELSE "signup", s, a)
    /\ UNCHANGED <<live, linked, known, game, ownHistory>>

\* mutant: the account's foreign key is given the session's id
SessionForAccount(s, a) ==
    [g \in Games |-> IF g \in Made /\ game[g].session = s /\ game[g].account = Nobody
                     THEN [game[g] EXCEPT !.account = s] ELSE game[g]]
\* mutant: the games are not bound
NotBound(s, a) == game

\* The games of this session that have no account yet
Bound(s, a) ==
    [g \in Games |->
        IF g \in Made /\ game[g].session = s /\ game[g].account = Nobody
        THEN [game[g] EXCEPT !.account = a] ELSE game[g]]

\* A session that is gone by now is replaced by a new one, already linked
Callback(r, s) ==
    LET a == request[r].row
    IN  /\ request[r].op \in {"relogin", "signup"}
        /\ request[r].op = "signup" => a \notin known     \* the unique constraint
        /\ \/ request[r].who \in live /\ s = request[r].who
           \/ /\ request[r].who \notin live
              /\ s \notin live /\ linkedTo[s] = {}
              /\ \A g \in Games : maker[g] # s
              /\ \A q \in Requests \ {r} : request[q].who # s
        /\ known' = known \cup {a}
        /\ live' = live \cup {s}
        /\ linked' = [linked EXCEPT ![s] = a]
        /\ game' = Bound(s, a)
        /\ linkedTo' = [linkedTo EXCEPT ![s] = @ \cup {a}]
        /\ request' = [q \in Requests |->
                          IF q = r THEN Idle
                          ELSE IF request[q].who = s THEN [request[q] EXCEPT !.fresh = FALSE]
                          ELSE request[q]]
        /\ UNCHANGED <<maker, late>>

\* google_unlink writes only if the row it loaded was linked
StartUnlink(r, s) ==
    /\ Free(r) /\ s \in live
    /\ Loads(r, "unlink", s, linked[s])
    /\ UNCHANGED <<live, linked, known, game, ownHistory>>

Unlink(r) ==
    /\ request[r].op = "unlink"
    /\ request[r].row # Nobody => request[r].who \in live
    /\ linked' = IF request[r].row = Nobody THEN linked
                 ELSE [linked EXCEPT ![request[r].who] = Nobody]
    /\ Finish(r)
    /\ UNCHANGED <<live, known, game, ownHistory>>

\* A constraint is violated, the row is gone, or the client is
Refused(r) ==
    /\ ~Free(r)
    /\ Finish(r)
    /\ UNCHANGED <<live, linked, known, game, ownHistory>>

-----------------------------------------------------------------------------
\* DELETE FROM sessions: ON DELETE SET NULL detaches the games
Leave(s) ==
    /\ live' = live \ {s}
    /\ linked' = [linked EXCEPT ![s] = Nobody]
    /\ game' = [g \in Games |-> IF g \in Made /\ game[g].session = s
                                THEN [game[g] EXCEPT !.session = Nobody] ELSE game[g]]

\* end_session, the purge and the administrator's disconnect
SessionEnds(s) ==
    /\ s \in live
    /\ Leave(s)
    /\ UNCHANGED <<known, request, ownHistory>>

OwnershipNext ==
    \/ \E s \in Owners : Arrive(s) \/ SessionEnds(s)
    \/ \E r \in Requests, s \in Owners :
        \/ StartGame(r, s) \/ StartUnlink(r, s) \/ Callback(r, s)
        \/ \E a \in Accounts : StartCallback(r, s, a)
    \/ \E r \in Requests : Unlink(r) \/ Refused(r)
    \/ \E r \in Requests, g \in Games : CreateGame(r, g)
    \/ \E g \in Games, s \in Owners : RemoveGame(g, s)

OwnershipSpec == OwnershipInit /\ [][OwnershipNext]_ownVars

-----------------------------------------------------------------------------
OwnershipTypeOK ==
    /\ live \subseteq Owners /\ known \subseteq Accounts
    /\ linked \in [Owners -> Accounts \cup {Nobody}]
    /\ game \in [Games -> GameRows \cup {Nobody}]
    /\ request \in [Requests ->
          [op: {"idle", "create", "relogin", "signup", "unlink"},
           who: Owners \cup {Nobody}, row: Accounts \cup {Nobody}, fresh: BOOLEAN]]
    /\ maker \in [Games -> Owners \cup {Nobody}]
    /\ linkedTo \in [Owners -> SUBSET Accounts]
    /\ late \subseteq Games

(* Ownership is earned: a session may open a game only if it made it, or   *)
(* if its account is one the game's maker was linked to.  Unlinking,       *)
(* relinking, requests on stale rows and ended sessions hand no game on.   *)
OwnershipIsEarned ==
    \A g \in Made, s \in live : Owns(g, s) => s = maker[g] \/ linked[s] \in linkedTo[maker[g]]

(* google_callback binds "this session and its games": a linked session    *)
(* has no game without an account, except one whose creation had loaded    *)
(* the session before it was linked.                                       *)
LinkBindsGames ==
    \A g \in Made \ late : maker[g] \in live /\ linked[maker[g]] # Nobody => game[g].account # Nobody

(* A game bound to an account stays with it: through unlinking, relinking  *)
(* to another account and the end of the session.                          *)
BoundStays ==
    [][\A g \in Made : game[g].account # Nobody =>
          game'[g] = Nobody \/ game'[g].account = game[g].account]_game

=============================================================================
