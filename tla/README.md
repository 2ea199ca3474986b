# quite-baduk in TLA+

This directory models the server side of quite-baduk: a FastAPI process in which
one person plays Go against KataGo over a WebSocket, with SQLite for storage and
a small pool of KataGo processes, and around it keeps sessions, accounts, a
library of professional games, puzzles and statistics. The modules are translated
from `src/backend/app` and `src/backend/scripts`; TLC checks them on small
instances and TLAPS proves what matters most for every value of the constants.

    tlc -workers 2 -config store_safety.cfg MCGameStore.tla
    tlc -workers 2 -config slots_exclusive.cfg MCEngineSlots.tla
    tlc -workers 2 -config adapter_faults.cfg MCKataGoAdapter.tla
    tlc -workers 2 -config rules_small.cfg MCGoRules.tla
    tlc -workers 2 -config accounts.cfg MCAccounts.tla
    tlc -workers 2 -config content.cfg MCContent.tla
    tlapm GameStoreProofs.tla         (and the other *Proofs.tla)

`PROJECT.json` lists the runs, the mutants every property must kill, the source
lines behind each definition, the hazards and the theorems.

## 1. Inventory

| Component | State | Operations |
|---|---|---|
| Game service (`services/game_service.py`, `api/games.py`) | `games` row, `moves` table | create, place_move, undo_move, score_by_request, resign, hint, delete |
| Engine pool facade (`engine_pool.py`) | `_states`, `_adapter_owners`, `_game_locks` | get_adapter, adapter_owner, set/drop owner, release_game, game_lock |
| KataGo pool (`core/katago/pool.py`) | `_game_assignment` | adapter_for (sticky, least loaded), release |
| KataGo adapter (`core/katago/adapter.py`) | the process, its replay state, one asyncio.Lock | GTP request/response, restart and replay |
| WebSocket sessions (`api/ws.py`) | `_connections`, one DB session per socket | accept and evict, dispatch, disconnect |
| Rules (`core/rules`) | none: functions on `GameState` | play, pass, captures, ko, scoring, handicap |
| Transactions (`db.py`) | SQLite file, WAL, busy_timeout | autoflush, refresh, commit, rollback |
| Sessions (`api/session.py`, `last_seen_cache.py`, `session_purge.py`, `deps.py`) | `sessions`, `session_history`, stamps in memory | sign in, stamp, flush, purge, logout, disconnect, shutdown |
| Ownership (`ownership.py`, `api/auth_google.py`) | accounts, `account_id` of sessions and games | owns, link, unlink |
| Rate limiter (`rate_limit.py`) | a deque of times per key | check |
| Visit counter (`api/analytics.py`, `core/analytics`) | `visit_hits`, `analytics_salts`, salts in memory | hit, prune, count |
| Console, statistics, spectators (`api/admin.py`, `stats.py`, `spectate.py`) | committed rows, `_connections` | queries, disconnect |
| Professional games (`api/admin_pro.py`, `spectate_pro.py`, `core/pro`, `scripts/`) | `pro_games`, the saved index hash | upload, ingest, seed, repair, delete, view, list, pick |
| Puzzles (`services/daily_challenge.py`, `api/daily.py`, `scripts/ingest_gogameguru.py`) | none: a catalogue, and ids in browsers | import, today's, random, grade |
| Search console (`core/search_console`, `api/admin_search.py`) | `search_queries` | nightly sync, import, list |
| Analysis cache (`models/analysis_cache.py`, `api/analysis.py`) | rows by (game, move number) | lookup, replay, store |
| Web client (`src/web/lib/ws.ts`) | pending queue, reconnect timer | reconnect, give up on SESSION_REPLACED |

**How they interact.** A WebSocket handler and a REST request are coroutines of
one event loop. They share the module-level dictionaries of `engine_pool` and,
through a database session each, the SQLite file. A message runs place_move,
undo_move or score_by_request, which takes the game's `asyncio.Lock`, talks to
the game's KataGo process, commits and sets the rules-state cache. A game's end
*releases* it: pin, owner, cached state and the lock's entry are dropped.
Nothing interrupts a coroutine between two awaits; everything may happen at one.

**What is hard.** A WebSocket keeps the ORM row it loaded at accept, so every
other connection makes it stale. Engine calls take seconds, and the code reads
before them and writes after. Cache, row, table and board of the engine are
four copies of one position, written at four different moments. Every request
works on the session row it loaded at its start, and SQLite hands out the id of a
deleted newest row again. Importers read for minutes and commit once. A failed round
leaves attributes dirty in a session that lives on. A lock can be thrown away
while it is held. Processes are shared between games whose locks are different.
The server may restart anywhere. The full list, line by line, is under
`hazards` in `PROJECT.json`.

**What makes each part correct.**

* Game service: move numbers are 1..move_count; stored colours alternate from
  the side that opens; the cached state is a replay of the table; undos are
  limited; a finished game stays finished and its result is decided once; what
  was scored is what is on record.
* Pool and owners: a recorded owner's board is the owner's position; a
  generated move answers the position the user left; an analysis reads the
  position it was asked for; games do not share processes without need.
* Adapter: between calls a living process is on the board its callers have been
  told; a reply is read by whoever asked for it; a fault is recovered from.
* Rules: no stone without liberties stays; stones are conserved; the
  board-comparing ko is the book's ko; territory is what one side walls in.
* WebSocket: a request ends, also when its socket is replaced.
* Transactions: SQLite's write lock is never held across an engine call, nor
  across the crawl of another site.
* Sessions: no stamp is lost, the purge takes the idle only, the log of logins
  shows those as signed in who are, and tells nobody's end but of who is gone.
* Ownership: a game is opened by its maker and its maker's accounts; linking
  binds all games, and a bound game stays bound.
* Limiter and visits: the window slides; a visitor counts once a day, and pruning
  does not change the count.
* Figures: pages that count the same games agree; a session's figures are of the
  login its games were stored under, and the next login with its id gets at most what
  was on its way to be stored.
* Library and puzzles: the hash is unique without the database's help, the crawl
  is skipped only when nothing is missing, every game is on one tab; a turned
  puzzle is the same puzzle, graded on what was shown.

## 2. Plan

Done, in this order: `GameStore` (with its abstraction `GameRecord`),
`EngineSlots`, `GameStoreProofs`, `EngineSlotsProofs`, `KataGoAdapter`,
`GoRules`; then `Sessions`, `Ownership`, `RateLimiter`, `Visits`, `Reports`,
`Library`, `Shelves`, `Puzzles`, `SearchConsole`, `Reviews`. `MCAccounts` puts the
first five of these into one run, `MCContent` the other five. Then the proofs of the
first four modules: `GoRulesProofs`, `KataGoAdapterProofs`, the boards in
`EngineSlotsProofs`, and `GameRecordProofs` with the refinement; and of the others
`ReportsProofs`, `AccountsProofs` (`Ownership`, `RateLimiter`, `Visits`, `Sessions`
and the types of the modules of `MCAccounts`) and `ContentProofs` (the modules of
`MCContent`).

Every property of a passing run but liveness is now a theorem. Worth proving next:
that the imported half of the catalogue is sound, by following the stones of a file
through the fold.

Worth modelling next: the creation of a game with its opener, under an id the
caches still know.

## 3. The modules

### GameStore

One game as seen by any number of `Clients`: tabs, reconnecting sockets and REST
requests of the owner.

| Variable | In the code |
|---|---|
| `exists`, `db`, `moves` | the committed `games` row and `moves` rows (a function of `move_number`) |
| `writer` | the session whose open transaction holds SQLite's write lock |
| `cache` | `engine_pool._states[game]` |
| `lock`, `lockOf` | which Lock object `_game_locks[game]` holds; the one a handler waits for or holds |
| `live` | `ws._connections[game]` |
| `pc`, `row`, `dirty`, `pos`, `arg` | a handler: where it is, its ORM row and changed attributes, the GameState it works on, its argument |

The actions are the stretches of code between awaits at which another coroutine
can see something different:

* place_move: `StartMove` (checks on the row in hand, then waits for the lock),
  `LockMove` (refresh, status, cached or replayed state, the rules),
  `MoveEngine` (all engine calls, by outcome), `MoveCommit` (the batch),
  `MoveCache`, `MovePost` / `MoveStreak` / `MoveEnd` (pass scoring, loss streak
  and auto-resign), `MoveRelease`.
* undo_move: `StartUndo`, `LockUndo`, `UndoFlush` (the replay's SELECT flushes
  the DELETEs: write lock taken, shortened state cached), `UndoCommit`.
* score_by_request: `StartScore`, `ScoreEngine` (outside the lock), `LockScore`,
  `ScoreCommit`, `ScoreRelease`.
* REST: `StartHint`/`LockHint`/`HintCommit`,
  `StartResign`/`ResignCommit`/`ResignRelease`, `Delete`.
* Environment: `Connect` (evicts an idle predecessor; a busy one finds out when
  it sends), `Drop`, `Abort` (a commit or engine call fails), `Crash` (the
  process restarts; only committed data survives).

Choices a reader may ask about:

* An UPDATE writes the attributes that changed and no others (`Flush`);
  `refresh` returns the committed row under the session's own flushed changes
  (`Refreshed`). This is what SQLAlchemy does, and it is why a stale row is
  dangerous exactly where an attribute is changed from it.
* A failed commit ends the handler even where the code swallows the exception:
  the rollback expires the row and the next access of `game.id` raises outside a
  greenlet, before `release_game`.
* `UndoCommit` cannot fail: the transaction already holds the write lock.
* `LockMove` takes refresh and the cache read as one step: the lock is held and
  nobody else writes the cache of an active game meanwhile except undo and
  place_move, which hold it too.
* Delete takes the moves with the row (migration 0005 makes the key cascade).
* Whether the rules reject a stone is left open; whose turn it is is not.
* `create_game` is the initial state. The row is already visible while it talks
  to the engine; that window is left out. A creation that failed after
  its first commit leaves an active row without moves and without cached state;
  it is one of the initial states.

### GameRecord

What the lock-taking operations promise: a record grows by rounds, shrinks by
undos the user still has, and is sealed with its result when the game ends. No
connection, cache, lock or transaction. `MCGameStore` instantiates it with
`record <- Replay(moves)` and the committed status, winner and undo count.

### EngineSlots

The KataGo processes shared by several `Games`, one GTP command per step:
`assigned` is `KataGoPool._game_assignment`, `owner` is `_adapter_owners`,
`board` is what each process has on its board, `hist` stands for the rules state
of a game. `Reseed`, `Wipe`, `Replay`, `Loaded` are `_reseed_adapter`; `Sync` the
fast path of `_sync_adapter`; `Genmove`, `Finalize`, `Commit`, `Evaluate`,
`Release` the rest of place_move; `StartUndo`/`TakeBack` undo_move; `Ensure`
`ensure_slot_owner`, used by hint and by the first evaluation of a connection;
`StartReview` `analyze_game`; `StartDaily` the grading on slot 0; `Resign`
stands for every release that happens without the game's lock.

clear_board, boardsize, komi and profile are one step: each leaves an empty
board. Handicap stones are left out: they are placed by the reseed like any
other stone. Lock replacement is `GameStore`'s subject; here a lock is free or not.

### KataGoAdapter

One process behind its pipes, and what `EngineSlots` takes for granted.

| Variable | In the code |
|---|---|
| `holder` | `_lock` |
| `replay` | `_replay`: board size and plays, changed after a good reply |
| `proc` | `_proc`, with the process's own board and what is in its two pipes |
| `call` | each caller's command, how far it is, whether it is the second attempt |
| `faults` | deaths and timeouts since the last good call |

`EnsureAlive`, `ReplayWrite`, `ReplayRead` and `ReplayFails` are `_ensure_alive`
with `_replay_state`; `Started` is the end of `start`; `Send`, `Receive` and
`SendFails` are `send` with its single retry, and `Recorded` what `clear_board`,
`set_boardsize`, `play` and `genmove` store afterwards (in the same step as the
reply: there is no await between them); `Stream`, `Drain` and `DrainFails` are
`analyze`. `SendResets` is the one fault `send` does not retry: its `except` lists
BrokenPipeError and not ConnectionResetError, which `drain` raises as well, so the
caller is told at once and the replay state stays. `Execute` is KataGo, which answers in order and names nothing; `Die`
and `TimesOut` may strike at any point of a command or of a rebuild.

A reply read late answers somebody else's question, and two faults without a
good call between them can leave one behind. `OneAtATime` says that has not
happened; the properties are promises under it. A caller is not cancelled inside
the adapter. `undo` and `final_score` have no caller and `stop` is only called
at shutdown. The process abandoned by a timeout keeps running but nothing refers
to it, so it is not in the state.

### GoRules

`core/rules` as functions on boards: `Flood` is both `Board.group` and the
scorer's flood fill, `Captured` and `IsSuicide` are `captures.py`,
`IsKoViolation` is `ko.py`, `Territory` and `Score` are `scoring.py`; `Play` and
`PassMove` are `engine.py`. `laid`, `last` and `lifted` are not in the code: they
remember what a player at the board would, so that the properties need not
repeat the algorithm. The properties look for a walled-in *set* of stones
or empty points where the code follows groups, and for the stone that was just
taken where the code compares boards.

### Sessions

`table` and `history` are the two tables, `stamps` is `last_seen_cache._cache`,
`flush` the runs of `flush_due` (the loop's, the purge's, the shutdown's, which
overlap), `purge` the loop, `handler` the requests, `writer` the transaction that
holds the write lock.

* Requests: `CreateSession` and `CreateAudit` (two commits), `CreateLinked` (one),
  `Resolve` and `Stamp` (`get_current_session`), `EndSelect`/`EndCommit` (logout),
  `DisconnectSelect` with `DisconnectCommit`, or `DisconnectGone` for a row that is
  not there. What falls between the two commits of a sign-in may end the session
  before it is logged (`orphan`) or keep it from being logged at all (`HandlerFails`);
  its token then never reaches a browser (`issued`).
* Background: `LoopFlush`, `FlushStart`, `FlushRow` (the UPDATE of one row and its
  mark), `FlushCommit`, `FlushFails`; `PurgeFlush`, `PurgeSelect`, `PurgeCommit`.
* `BeginExit`, `Exit`, `Restart` are shutdown and startup, `Crash` loses the stamps.

A token names a login for good, an id does not. `reused` collects the logins that
were given an id which a request or the purge of the last holder still carried:
such a request stamps, ends or audits the newcomer, and the properties it would
break exclude exactly those. A disconnect by an id that is gone closes the open row of
whoever has the id next, without any request of the old session: the newcomer is
`reused`, because the administrator's request still went by the id. Every reading of the clock is an instant of its own.

### Ownership

`linked`, `known` and `game` are the columns, `request` what each handler loaded:
`StartGame`/`CreateGame`, `StartCallback`/`Callback` (`google_callback`: an account
found or inserted, the games of the session bound, or a new session for it),
`StartUnlink`/`Unlink`, `Refused` for the loser of two inserts, `RemoveGame`,
`SessionEnds`, which detaches games. `maker`, `linkedTo` and `late` are history:
`late` marks games created from a session row older than the session's link, the
one gap in what `google_callback` binds.

### RateLimiter

`bucket` is the deque of a key; `Check` is `RateLimiter.check`, one step since there
is no await under its lock. `granted` remembers every accepted hit, dropped or not.

### Visits

`Hit`, `SelectSalt`, `InsertSalt` or `Yield`, `Reselect` and `Record` are the
beacon with `daily_salt`; `cached` is `_salt_cache` of each worker; `Prune` the job.
A hash is the pair of visitor and salt. A day is two instants, so that midnight can
fall between the reading of the day and the row.

### Reports

Sessions, games and sockets come and go. A creation of a game has two steps, as its
handler has awaits between them: `LoadSession` (`get_current_session`) and `NewGame`,
the INSERT, whose foreign key asks for *a* session with the id and not for the one
that was loaded. Between the two a session may end and its id be given out again; the
game is then the newcomer's for every query that goes by `session_id`. History says
which login asked for a game (`login`) and which one it was stored under (`under`);
`Adopted` games are those where the two differ. A sign-in under a reserved name is two
steps too (`FindFree`, `SignInReserved`): two requests may both find the name free, as
`create_session` accepts. `CallFails` ends either in between.

`Summary`, `ListSessions`, `GamesListed`, `SessionDetail`, `Buckets`, `PickCounts`,
`NicknameSummary`, `PlayerStats`, `ListSpectatable` and `SpectateGame` are the queries
of `admin.py`, `stats.py` and `spectate.py`. The console's list of logins reads
`session_history`, whose steps are in `Sessions`: `LogTellsWhoIsIn` there says what
the list shows. The list of spectators is ordered by the time of the start alone,
newest first, so a game in progress may stand below one that is over, although the
docstring of `list_spectatable` puts those in progress on top. `EngineResigns` is kept
apart from `EndGame` because it is the one end that leaves `finished_at` empty.

### Library

`library` is `pro_games`; `imp` holds the runs of the upload, the seed, the ingest
and the repair, `holder` the one whose flushed transaction has the write lock. A
file is the game it records and whether it names its round, which the hash leaves
out; a hash is of the game, read or misread. `Read` is one turn of each importer's
loop with the autoflush of its SELECT; `Commit` its transaction, in which the
unique key may refuse the batch (`Refuse`). `Publish` lets the site change at any
moment, also between the fetch of its index page and the crawl.

### Shelves

Tabs, pages of any size, themes and the month's pick are operators over `shelf`, and
`InOrder` is ORDER BY; a date counts months, `Year` of them make a year, and a comparison with no date is false, as in SQL.

### Puzzles

The import, the eight turns of a board, ids there and back, today's puzzle,
`Picks` (`pick_random`) and grading. An id is the base's name with a turn, or
with none (`Whole`), or with a suffix that is no turn. `open` keeps the puzzles
browsers still show: an answer may come back days later. `CatalogueIsSound` says
what the catalogue must satisfy for the rest: a base has a name of its own,
stones on its board and no point twice.

### SearchConsole

The nightly job merges row by row (`MergeRow`) in one transaction; the upload
deletes Naver's rows and writes the new sheet in another. `writer` carries the
uncommitted table, so that a reader, a failure or a second upload in between sees
what SQLite shows it. `NextDate` and `Revise` are Google.

### Reviews

`Analyze` looks up the cache, for any move number, `Replay` rebuilds the position,
`AnalyzeDone` stores the engine's answer or loses to the row another review stored
first; rounds, undos and deletions happen meanwhile. Ids of games are used again, the
cache is never cleaned. The replay stops where the record ends, so a number ahead of
the game gets the last position there is, cached under the number; `ahead` remembers
which entries came about like that.

### MC modules

`MCGameStore`, `MCEngineSlots` and `MCKataGoAdapter` add symmetry sets,
`MCGameStore` the refinement mapping; `MCGoRules` adds nothing. `store_safety` uses
symmetry with a property that is an action property; `store_locked`, which checks
liveness, uses none.

`MCAccounts` and `MCContent` run five modules each side by side: `part` is
chosen at the start and only that module moves. The state space is the sum of
theirs, not their product; the modules share no variable, and where one needs rows of
another (`Reports` needs sessions and games) it has its own small copy of how they
change.

### Small differences from the code

Known, and judged not to matter for what is checked:

* `GameStore!ScoreEngine` does not ask for a minimum of moves first, so it scores in
  more states than the code; `SearchConsole!MergeRow` takes the write lock at the first
  row and not at the SELECT that flushes it.
* `EngineSlots!StartPlace` fetches the adapter and takes the lock in one step (a stale
  adapter can only be one of a pin that was released, which `Resign` causes anyway), and
  `StartDaily` leaves out the second stone that is tried on the borrowed board: either
  way slot 0 ends without an owner.
* `GoRules!Play` is not offered after two passes: `engine.play` does not check it, its
  caller place_move does, by the status.
* `Ownership!RemoveGame` loads the session and deletes the game in one step; ids of
  sessions are never given out again there, which is the subject of `Sessions` and, for
  games, of `Reports`.
* `Reports!Exposed` does not ask for a result, which every decided game has.

## 4. The runs

| Run | Question | Bounds |
|---|---|---|
| `store_safety` | do stale rows, failed commits, a delete and a restart corrupt the record, the cache or the status, in a handicap game whose engine may open with a pass; is the write lock only held to write? | 2 clients, one point and pass, 5 moves, 1 undo of 1 or 3 steps, 1 hint, 1 restart; move, undo, resign, hint, delete |
| `store_locked` | do the lock-taking operations implement `GameRecord`, one at a time, one result; does every request end under fair scheduling? | 2 clients, 3 moves, 1 undo of 2 steps, no restart; move, undo, score |
| `slots_exclusive` | games on processes of their own, handlers overlapping: is every board the right one? | 2 games, 2 slots, 2 handlers, 3 stones of 2 kinds, 1 failure |
| `slots_serial` | one process shared by 2 games, the review and the daily challenge, one handler at a time, failing anywhere: does the ownership table lie? | 1 slot, 3 stones, 2 failures |
| `adapter_faults` | does a process that dies or hangs ever leave a foreign answer or board behind? | 2 callers, 2 board sizes, 2 stones, 3 recorded plays, 2 faults in a row |
| `rules_small` | do captures, suicide, ko and scoring mean what they should? | 3x3, 6 stones, any passes |
| `accounts` | are stamps, the log of logins, ownership, limits, visitor counts, the console's figures and the spectators' page right, whoever comes, links, leaves or restarts meanwhile? | 2 logins, 4 instants, a failure or a restart; 2 visitors, 2 accounts, 1 game, 2 requests; 2 hits per 2 instants, 7 instants; 2 workers, 2 beacons, 2 salts; 2 logins, 2 games, 1 call under way, 2 days, 3 ways to end |
| `content` | are imports complete and refused only for a reason, games on their shelf, puzzles graded as shown, figures the latest, and reviews of the right position? | 2 games of which one is found twice, 2 rows, 2 runs or views, 2 index pages; 2 games over 5 months of 2-month years; 3 puzzles of 5 files; 1 query, 2 dates, 2 uploads; 1 game id used twice, 2 moves, 2 reviewers |

`CHECK_DEADLOCK FALSE` everywhere: the bounds stop the system, and a game with
nobody connected is a legitimate end.

**Why the bounds suffice.** Every hazard is between two handlers, or a handler
and a restart; a third adds only waiters, which the lock treats alike. Four
moves give two rounds, so a stale row may be a whole round behind, an undo may
remove less than, as much as and more than was played, and two passes can end
the game in both orders. One undo is enough to exceed a limit of one. Points are
symmetric for everything but captures, so one is enough in `GameStore`;
`EngineSlots` has two kinds of stones so that a board of the right length may
still be wrong. `RESIGN_STREAK_THRESHOLD` is 1 and `resign_min_moves` 2, so that
auto-resign is within reach. Two callers of an adapter are one inside and one
whose answer could be stolen; three recorded plays make a rebuild that can fail
at its start, in the middle and at its end. On 3x3 six stones suffice for
suicide, for a move that takes two groups and for a corner ko with its retake.

In `accounts` two logins are the old and the new holder of one id, and three
flushers are always there; four instants let a stamp fall before, within and after
a flush while another is marked but not committed. One game suffices for ownership,
since `Owns` looks at one game at a time; it was also checked with two (9.8 million
states), and `Sessions` with two handlers, with five instants, and with a failure
and a restart. Two workers are
the one that draws the salt and the one that finds it. One creation under way is
enough for an id to be given out again before it is stored; the reserved
names and the test harness's differ in nothing but the name for `Spectatable`, so
only the former occur; the two nicknames set up their games
differently, and the statistics are asked for every set of games an account may own; of
the endings a game may have (`Endings`) a counted win, a resignation of the player and
one of the engine are tried, which give each status and each winner. In `content` two rows and two runs are an importer and whoever commits or
looks at a game while it reads; the cap of two is reached by the two games; a year of two months has
dates before, at and after its cutoff; one game id given out twice is the reuse of
an id, and two moves a game that grows under its review or is asked about ahead.
Each property has a mutant, a plausible bug in a mapped definition which its run
must find. A property that joins two or three named parts is one question:
`PositionIsSound` and `ScoreIsFair` (rules), `EndedRightly` (sessions),
`VisitorsCountOnce`, `FiguresHold`, `ImportsDisturbNobody`, `ShelvesAreComplete`,
`ListedIsFetched`; `AccountsTypeOK` and `ContentTypeOK` join the types of their
modules. Of what both slot runs could check each checks the half its setting
endangers: with overlapping handlers the generated move and the pins, with one
shared process the owner and what is read. `RefinesRecord` includes `ResultWriteOnce`,
since `GameRecord` settles a game once.

**Fairness** (`store_locked`, formula `FairSpec`). `WF` on a handler's own steps:
asyncio runs every ready coroutine, and engine calls and SQLite's busy handler time
out. `SF` on taking the lock: `asyncio.Lock` serves its waiters in order, so one that keeps finding
the lock free now and then is served. Nothing is assumed of clients: they need
not send, connect or stay.

**What the violation runs show.** Each checks what a comment or document of the
repository says and finds the code does otherwise:

* `result_overwritten`: resign takes no lock and never refreshes, so a
  resignation and a round overwrite each other's result.
* `score_stale`: a score request settles the game on the position it read before
  waiting for the lock.
* `slot_shared`: two games on one process interleave between sync and genmove,
  and an engine move answers the wrong game.
* `start_diverges`: a process dies, the replay into the next one times out, the
  half-rebuilt process stays, and the next `start()` vouches for it.

Where a passing run states the same property (`store_locked` in its refinement,
`slots_exclusive`) it restricts `Ops`, or the overlap, to where the code does
guarantee it; `adapter_faults` counts faults. Together the two show where the
guarantee ends.

**Seen and not kept as runs.** `release_game` drops a lock that is held, so the
next handler gets a new one. Two are then inside (`OneInCriticalSection` fails with
resign and hint among `Ops`), but the game is over and one of them only asks the
engine for a hint, as `OneAtATime` proves. An engine that opens with a pass stays on move, and
every move of the user is refused with NOT_YOUR_TURN (`UserOnTurn` fails with
`MayNotOpen`). A game the AI resigns from genmove stores no SGF. Two concurrent
hints count once. An undo of an odd number of steps, or of the AI's opener,
leaves the AI on move. A round that ends in AI_ILLEGAL_MOVE leaves `move_count`
dirty, and with no cached state a later score request flushes it and holds the
write lock through its analysis. The loss streak survives an undo of the moves
it was counted on. An unlocked read, a resign, the daily challenge or a pin
given to another game in the middle of a round can each put a foreign board
under a recorded owner.

A review asked for ahead of the record (`analysis.py:37` takes any number up to 2000,
and `_replay_state_to` stops where the moves do) is cached under the number asked, and
served for it when the game has got there and the board is another; the web page
clamps the number, the comment at `analysis.py:39` expects clients that do not.
`ReviewOfGrowingGame` without `ahead` fails on this. A game whose creation is under
way while its session ends is stored under the next login that gets the id, under the
nickname of the first: the console counts it for the newcomer and spectators see it
while the newcomer stays (`FiguresAreOwn` and `SpectatorsSee` fail when `Adopted` games
are not told apart). A session that ends between the two commits of its sign-in leaves
an audit row that shows it as signed in for good, and a failure there leaves a session
without a row. A disconnect by an id that is gone closes a newcomer's row.

Of the other parts: `disconnect_session` looks for the session's sockets after the
foreign key has emptied `session_id`, so it closes none, although its docstring
says it does. A game resigned by the engine is decided but in no day's count of
finished games. `session_detail` says it goes by `nickname_key` and goes by the
nickname as written. A cached review survives an undo, the deletion of the game and
the reuse of its id, although the comment before the replay promises the board at
the move. The purge flushes so that its cutoff is exact, but a stamp another flush
has marked and not committed is skipped. The repair writes the round of a game back
to empty. A deleted game returns with the next seed or changed index page. The index
hash is saved although files could not be fetched. A beacon at midnight is hashed
with yesterday's salt and counted today, which the properties allow by counting
the day it read. The theme `cwi` filters a collection no importer writes; an
uploaded game with no date or an old one is on no tab. With a single puzzle left
by the filter, "next" may show a turn that looks the same; the 404 for "no other
match" is never reached. An empty file replaces Naver's snapshot by nothing. The
settings keep a session seven days, a comment in `api/session.py` says ninety.

## 5. The proofs

| Theorem | Says | Model-checked as |
|---|---|---|
| `GameStoreProofs!Invariant` | `Spec => []IInv` | |
| `GameStoreProofs!TypeCorrect` | `Spec => []TypeOK` | `TypeOK` in `store_safety` |
| `GameStoreProofs!NumbersContiguous` | `Spec => []MovesContiguous` | `store_safety` |
| `GameStoreProofs!UndosLimited` | `Spec => []UndoBounded` | `store_safety` |
| `GameStoreProofs!FinishedStays` | `Spec => StatusSealed` | `store_safety` |
| `EngineSlotsProofs!PinsAreExclusive` | `Spec => []NoSharing` | `slots_exclusive` |
| `AccountsProofs!OwnershipTypeCorrect` | `OwnershipSpec => []OwnershipTypeOK` | part of `AccountsTypeOK` |
| `AccountsProofs!Earned` | `OwnershipSpec => []OwnershipIsEarned` | `accounts` |
| `AccountsProofs!LinkBinds` | `OwnershipSpec => []LinkBindsGames` | `accounts` |
| `AccountsProofs!BoundForGood` | `OwnershipSpec => BoundStays` | |
| `AccountsProofs!LimiterTypeCorrect` | `LimiterSpec => []LimiterTypeOK` | part of `AccountsTypeOK` |
| `AccountsProofs!WindowSlides` | `LimiterSpec => []SlidingWindow` | `accounts` |
| `AccountsProofs!RefusalJustified` | `LimiterSpec => []RefusedWhenFull` | |
| `ContentProofs!GradesWhatIsShown` | `CatalogueIsSound /\ PuzzlesSpec => []GradedAsShown` | `content` |
| `ContentProofs!VariantsPlayAlike` | `CatalogueIsSound /\ PuzzlesSpec => []PlaysLikeBase` | |
| `ContentProofs!NextNeverRepeats` | `CatalogueIsSound /\ PuzzlesSpec => NextIsAnother` | |
| `AccountsProofs!VisitorsAreCounted` | `VisitsSpec => []VisitorsCountOnce` | `accounts` |
| `AccountsProofs!SessionsTypeCorrect` | `SessionsSpec => []SessionsTypeOK` | part of `AccountsTypeOK` |
| `AccountsProofs!StampsAreKept` | `SessionsSpec => []StampsKept` | `accounts` |
| `AccountsProofs!SessionsEndRightly` | `SessionsSpec => []EndedRightly` | `accounts` |
| `AccountsProofs!LogIsTold` | `SessionsSpec => []LogTellsWhoIsIn` | `accounts` |
| `AccountsProofs!AccountsTypes` | `AccountsSpec => []AccountsTypeOK` | `accounts` |
| `ContentProofs!ConsoleListsWhatCame` | `ConsoleSpec => []ListedIsFetched` | `content` |
| `ContentProofs!ReviewsShowTheGame` | `ReviewsSpec => []ReviewOfGrowingGame` | `content` |
| `ContentProofs!HashesKeptUnique` | `LibrarySpec => []RefusedOnlyByRace` | `content` |
| `ContentProofs!NothingIsSkipped` | `LibrarySpec => []SavedMeansImported` | `content` |
| `ContentProofs!ImportersStandAside` | `LibrarySpec => []ImportsDisturbNobody` | `content` |
| `ReportsProofs!SpectatorsSeeTheirs` | `ReportsSpec => []SpectatorsSee` | `accounts` |
| `ReportsProofs!FiguresNeverDiffer` | `ReportsSpec => []FiguresHold` | `accounts` |
| `ContentProofs!ShelvesShowAll` | `ShelvesSpec => []ShelvesAreComplete` | `content` |
| `ContentProofs!ContentTypes` | `CatalogueIsSound => (ContentSpec => []ContentTypeOK)` | `content` |
| `EngineSlotsProofs!SlotsType` | `Spec => []TypeOK` | `slots_exclusive` |
| `EngineSlotsProofs!GenmoveOnTheGame` | `Apart => (Spec => []GenmoveOnOwnBoard)` | `slots_exclusive` |
| `EngineSlotsProofs!OwnersAreSynced` | `Apart => (Spec => []OwnerIsSynced)` | `slots_serial` |
| `EngineSlotsProofs!ReadersReadTheirs` | `Apart => (Spec => []ReadsOwnBoard)` | `slots_serial` |
| `KataGoAdapterProofs!AdapterType` | `Spec => []TypeOK` | `adapter_faults` |
| `KataGoAdapterProofs!AdapterBoard` | `Spec => []BoardIsTold` | `adapter_faults` |
| `KataGoAdapterProofs!AdapterAnswer` | `Spec => []AnswerIsOwn` | `adapter_faults` |
| `GoRulesProofs!FloodIsRegion` | `Flood` returns the region of a point | |
| `GoRulesProofs!PositionsAreSound` | `Spec => []PositionIsSound` | `rules_small` |
| `GoRulesProofs!KoIsRetakeOnly` | `Spec => []KoIsRetake` | `rules_small` |
| `GoRulesProofs!ScoresAreFair` | `Spec => []ScoreIsFair` | `rules_small` |
| `GameRecordProofs!RecordInvariant` | `Spec => [](IInv /\ RecordInv)` | |
| `GameRecordProofs!ReplaysAreLegal` | `Spec => []ReplayLegal` | `store_safety` |
| `GameRecordProofs!CacheIsRecord` | `Spec => []CacheMatchesDb` | `store_safety` |
| `GameRecordProofs!OneAtATime` | `Spec => [](db.status = "active" \/ "hint" \notin Ops => OneInCriticalSection)` | `store_locked` |
| `GameRecordProofs!WritesAreBrief` | `"score" \notin Ops => (Spec => []WriteLockBrief)` | `store_safety` |
| `GameRecordProofs!UserToMove` | `WholeRounds => (Spec => []UserOnTurn)` | `store_locked` |
| `GameRecordProofs!ImplementsRecord` | `LocksOnly => (Spec => RefinesRecord)` | `store_locked` |

Those without a run were model-checked on the bounds of the run of their module
before they were proved (`RecordInv` on those of `store_safety` and
`store_locked` and on three more, with other openers and steps); since then the
proof says more than the run would.

They hold for any set of clients, points, games, handlers, visitors, accounts,
any limits, windows and board sizes and any choice of operations. Where a
theorem needs more, its statement says so, and the paragraphs below say what
happens otherwise. They rest only on the assumptions their modules name:
`GameAssumption` (colours are colours, limits are naturals, `None` is none of the
values it must be told from), `SlotsAssumption` (at least one slot, finitely
many games, distinct special values), `AdapterAssumption` (the default size is a size, the
special values are no moves, `None` is no process), `RulesAssumption` (the size
is a positive number, `None` is no board), `OwnershipAssumption` (NULL is no
session, account, game or row), `LimiterAssumption` and `PuzzlesAssumption`
(bounds are numbers), `VisitsAssumption` (at least one day of retention, "no salt" is
no salt), `ConsoleAssumption` (the window reaches back a day at least, finitely many
queries, uploads have names of their own), `ReviewsAssumption` ("nothing" is no
record), `LibraryAssumption` (at least one new game per run and one version of the
page, `Absent` is no importer, id or row), `ReportsAssumption` and `NoRowAssumption`
(bounds are numbers, NULL is no number, row,
winner or answer, a game always has a rank, as its column is NOT NULL), `ShelvesAssumption`
(finitely many games, dates are numbers, a missing date or game is no date or game), `SessionsAssumption`
(times and bounds are naturals, `NoOne` is no flush, row or stamp). The puzzle theorems and
`ContentTypes` take `CatalogueIsSound` as a hypothesis: it is a constant formula about the files, half of it the result of a
fold, which induction over data would have to prove; TLC evaluates it in
`content` with every state.

**The game service.** `MovesContiguous` is not inductive: it must be known that
the row a handler is about to write agrees with the table at the moment it
commits, although the table is protected only by a lock that is sometimes thrown
away. `IInv` is `TypeOK`, `Contiguous` (also for a deleted game), `UndoBounded`
and three facts:

1. *An active game is still on its first Lock object* (`db.status = "active" =>
   lock = 0`): only a release replaces it, and every release follows a commit
   that ended the game. With (2) this makes the lock do its work where it matters.
2. *At most one handler is in its write phase* (`OneWriter`), from the in-lock
   status check to the commit: the lock being the first one, whoever passes the
   check is alone.
3. *What each handler may hold* (`HandlerInv`): its row is a row (`Loaded`);
   which attributes are dirty at which step, in particular that the status is
   only dirty when it is an ending (`Changed`); stale rows and open
   transactions belong to games that are over (`Sealed`); the batch or the
   shortened table fits what is committed (`Fits`).

`IInv` was model-checked on the bounds of `store_safety`
before it was proved. The proof has one lemma per action. Most actions touch one
handler, so `StepKeeps` reduces them to that handler, the shared conjuncts, and
what others rely on; `WaitKeeps`, `ReplyKeeps`, `AnswerKeeps`, `ShutKeeps`,
`EndCommitKeeps` and `ReleaseKeeps` serve the shapes that recur.
`ReplayOfInterval` and `UndoCutsShort` say what `Replay` and an undo do to a
table without gaps. `FinishedStays` follows since a flush writes the status only
if it is dirty, and a dirty status is an ending.

**The record.** `RecordInv` stands on `IInv` and says what the handlers have to do
with the record they work on. `Alone`: two handlers are past their locks only when the
game is over and one of them is a hint; a release replaces the Lock object only after
the end, hints are the only operation that then still goes on. `Own(t)`, for each
handler: its position continues the table and is as long as its row says (`Held`);
an undo costs one, shortens the table, and the cache shows it first (`Undone`);
status and winner are written together (`Told`); which handlers may hold SQLite's
write lock (`Brief`); and, where only the lock's holders end a game, that the game
is still active while they work towards its end (`Deciding`). The proof has
one lemma per action, as for `IInv`. Three theorems have a hypothesis:

* `WritesAreBrief` excludes scoring: a stale connection may score a game that is
  over, flush its dirty `move_count` and hold the write lock through an analysis.
* `UserToMove` excludes an opener that may be missing and undos of an odd number of
  moves, after which it really is the engine's turn (section 4).
* `ImplementsRecord` excludes resign and delete, which take no lock: a resigned
  game may still receive the round that was under way. `LocksOnly` is all it
  takes: hints, stale rows, evictions, failures and crashes are allowed. Each
  commit of a round, an undo or an ending maps to the step of `GameRecord` of that
  name, every other step to a stutter.

**The pool.** `PinInv` adds to `NoSharing` that assignments are slots.
`LeastLoaded` shows by well-foundedness of `<` on `Nat` that the choice in
`SlotFor` exists and is least loaded; `OneIsFree`, by the pigeonhole principle,
that a game without a slot finds one of load 0 when there are no more games than
slots.

The boards are right only while handlers do not meet on a process; the
violation runs of section 4 show a foreign board as soon as they do. `Apart` states
it of the constants: one handler at a time, or no more games than slots, the
games' locks respected and no operation that leaves its own slot or lock. `Inv` is types,
pins, what step a handler may be at for its operation (`Course`), and under
`Apart` `BoardInv`: recorded owners are pinned to their slots and synced, a reseed
has loaded what it has got to (`SeedInv`), and a handler past it finds its game's position on
the board (`UseInv`).

**The adapter.** `Turns` says who holds the lock and what its command, step and retry
flag may be. `InStep` follows one exchange, and is claimed as long as the faults come
one at a time, because after two the adapter really is out of step: between two calls the pipes are empty
and the board is the one that was told (`Quiet`); within one the pipes hold the
command, its answer or nothing, and the board has followed it or not yet
(`Fits`). During the replay into a new process the board is the part
told so far (`Partly`).

**The rules.** `Flood` is a recursive function over sets of points, which the prover
cannot unfold by induction over data. `FillUnique` goes by least counterexample: of
the sets on which a solution of the recursion is not the region, one lacks as few
points as possible, and it grows into one that lacks fewer. With `FloodIsRegion`, captures leave no
walled-in set without liberties (`Breathes`), and each move's stones are the
earlier ones plus one minus the captured. The ko theorem needs only that a move recalls the
board before it (`Recalls`). In the score, territory of both sides at once
is excluded because a region of empty points has one border.

**Ownership.** `OwnInv` adds to types and `LinkBindsGames`: a link is remembered
and its session alive (`LinkIsRemembered`); a game's account is one of its maker's
and it is detached only when the maker has ended (`GameIsMakers`); and what a
request's copy of the session still tells (`RowIsHonest`), above all that a creation
whose copy is fresh sees the link. Without the last `LinkBindsGames` is not
inductive: a creation would insert an unbound game into a linked session.
`BoundForGood` follows since the one step that writes an account writes it only
where there is none.

**The limiter.** The bucket forgets, the property does not: `BucketIsTail` says that
the bucket is the end of all granted hits, `DroppedAreStale` that the ones it lost
are older than the window, clocks and lists being monotonic. Then a hit that is let
in either has fewer than `MaxHits` before it, or the one `MaxHits` places back has
been dropped and is stale.

**Puzzles.** `TransformIsInjective`, `TransformKeepsContact` and
`TransformKeepsEdge` treat the eight turns for every size; `ThereAndBack` is the
GTP coordinate, `IdLeadsBack` that an id finds its variant. `PuzzleInv` says that
the screen and every open puzzle is a variant of a base.

**The visit counts.** `VisitInv` links three copies of a day's salt: the row, the
workers' caches and what beacons and hits carry. A salt that was drawn is nobody's
until its INSERT (`Drawn`); rows of different days differ; while a day is `Recent`
its row cannot be pruned, so cache and row agree on it and a beacon that lost the race
finds the winner's row; a hit has the salt of the day it read, and no other day's
(`HitInv`). So two hits have the same hash exactly if they are of one visitor and
one day (`OneSalt`), and `HashesAreVisits` turns that into equal counts.

**The sessions.** `SessInv` follows a stamp on its way from the cache to the row.
`StampInv`: what the cache holds of a session is its last request, or, if the
cache was emptied, its row says so already; and a stamp its row has not is due or
being written. `FlushInv` makes that inductive although flushes overlap: what a
flush still carries is what the cache held when the flush began or older than a
stamp that came since, and a stamp that came since will be due again, because
the flush marks the entry with its start and not with the time it returned. So a
commit that puts an old value over a newer one leaves the newer one due.
`Covers(f, want)` is the promise of a forced flush that nobody disturbed: what was
wanted when it began is on the rows or among what it still writes, and nobody
writes anything older. The purge rests on it (what it selects by the rows was
idle), and so does a shutdown (what restarts has lost nothing). `Names` says what a
request's id is worth: it is the id of its token's row, or the row there now is
known to be a newcomer (`reused`). `RowsInv` ties audit rows to live rows, so that
closing the rows of an id closes nobody's who lives on.

For the log, `LogInv`: no token is logged twice; a sign-in on its way to its second
commit has a token the log does not know and no other request has; and an open row
has its session unless it was logged too late. It is inductive because every writer
that deletes sessions closes the rows of exactly their ids in the same commit
(`EndingsKeep`), and a sign-in adds one row at most (`LoggedKeeps`). Together with
`RowsInv` and `ClosedAreGone` it says that the holder of a live session's token has
one row, and it is open. `NextToken` and `NewId` go
by the largest of a set, `MaxOfNumbers`, by well-foundedness.

**The search console.** `ConsoleInv`: the job's table is what was committed with the
part of the sheet it has merged, and it holds the write lock from its first row on;
an upload that holds it has the committed rows of the other source in its table, to
which its commit adds one sheet (`JobInv`, `UploadInv`). A sheet names a key once, so that merging it row by row gives
`Figures` of the last fetch in any order.

**The reviews.** `ReviewInv`: what is cached and what an engine is still working on
`Reflects` the record at that move, unless the game was shortened, deleted or its id
given out again (`MaxOfIds`: a new id is larger than all there are). `Reflects` is the
position at the move, or an earlier one of the same game where the number was `ahead`
of it. `LongerRecord` and `PrefixIsRecord` say that a game that grows keeps its earlier
positions. One entry per move is the unique key's doing, and follows from `Inserted`.

**The library.** `LibInv` has a part for the table, one for the site and one for
each importer. `Unopposed`: as long as nobody else has committed, none of the hashes
a run has collected is in the table and the rows it will change are as it read them;
with the rows of one batch all different that leaves the database nothing to refuse.
A run that was overtaken (`raced`) is exempt, and so are its later refusals.
`Crawling`: the ingest never has anything unflushed, so it never takes the write lock
before its commit; a hash it has met is in the library or among its additions
(`Has`); and every file of the page it started from is still to be read, met, or
missed. The page is fetched twice, before the crawl and in it: what a version listed
stays on the site (`SiteInv`), so the later crawl loses nothing of the earlier page.
`TableInv` keeps a row's count equal to the views counted for it, because backfill
and repair write the columns that changed. `MaxOfIds` (the largest of the ids there
are, by well-foundedness of `<`) shows that a batch's ids are new.

**The reports.** Ids of sessions are given out again, logins are not. `SignedInv`:
live sessions are different logins, and ids do not run ahead of them. `AskedBy`: a
request's copy of its session is right about the login it holds as long as that login
lasts, and nothing is said of it afterwards. `MadeBy`: a game with a session was
stored under the login that has the session now, because a session's end empties the
column; one without a session was stored under nobody who is signed in; and where it
was stored under another login than the one that asked, this one is gone. The last
needs `AskedBy` at the INSERT: had the asking login lasted, its id would not have been
free to give out.

`FiguresAgree` relates sums to counts. `TotalByKey` says it once: what is counted by a
key and added up is the number of those whose key is among the counted, as the
sets of one key each are disjoint and their bijections put together are one
(`DisjointSum` is the case of two). `StatesAddUp`, `NicknamesAddUp`, `DaysAddUp`,
`SessionsAgree`, `ChoicesAddUp` and `SplitsAddUp` are its uses, one per page. What they
need of the rows is `FigureInv`, inductive on `ReportInv`: no date lies ahead of
today, a running game has no end and an ended one lacks it only when the engine
resigned (`Dated`).

`AccountsTypes` and `ContentTypes` put the inductive invariants of five modules each
side by side.

**The shelves.** Nothing moves that the queries do not read, so the types are the
invariant and the theorem is about the queries. `RowExists`: a finite set in a strict
order can be put in a row, each element at the place that the number of its
predecessors gives; `RowShowsOnce`, by the pigeonhole principle, that no row leaves one
out or shows one twice. `PrecedesIsStrict` is the order of the list, missing dates last
and equal ones by id. `PageAndPlace` divides a place by the size of a page, so every
game is at one place of one page, whatever the size. The attempt to prove it showed
that two games without a date are in the order of their ids, as SQL has it,
only if equality of dates is asked before either is compared, and `Precedes` says so.

**Only model-checked**: that every request ends (`RequestsEnd`: liveness and ENABLED
are out of the prover's reach); that the imported half of the catalogue is sound
(induction over the stones of a file); and the violation runs, whose properties are
false. No module uses RECURSIVE. `content` starts the library with a misread row or
with a site that lacks a file, and not with both; the theorems about `Library`
have no such restriction.

## 6. Not modelled

`PROJECT.json` gives the status of each component. Left out for good: the text of
SGF and CSV files, names, cookies, redirects and the exchange with Google (data and
wording); the heartbeat of a socket; engine health, the hourly histogram,
referrers, devices and countries (plain counts over rows); HTTP middleware,
settings and error pages; the web client, whose every behaviour a `Client` of
`GameStore` may show; scripts and deployment. The generated catalogue of problems
is data: `Puzzles` takes a few files that have each of its faults.

Left open: creating a game while it is already listed, and under an id the caches
still know; what happens between games of one account on two devices beyond
ownership.
