----------------------------- MODULE GameStore -----------------------------
(***************************************************************************)
(* One game of services/game_service.py as the database row, the moves     *)
(* table, the process-wide rules-state cache and the per-game lock see it. *)
(*                                                                         *)
(* Clients are database sessions: a WebSocket handler keeps the Game row   *)
(* it loaded at accept for its whole life, a REST request loads a fresh    *)
(* one.  Each await at which another coroutine can run and see something   *)
(* different is a step boundary; the KataGo conversation is reduced to its *)
(* outcome (module EngineSlots opens it up).  A legal stone is a point of  *)
(* Points: whether the rules reject a stone is left open, whose turn it is *)
(* is not.                                                                 *)
(***************************************************************************)
EXTENDS Integers, Sequences, FiniteSets

CONSTANTS
    Clients,         \* tabs, reconnecting sockets and REST requests of the owner
    Points,          \* coordinates a stone can be played on
    Pass, None,
    UserColor,       \* games.user_color
    FirstColor,      \* "B", or "W" when the game has handicap stones
    UndoLimit,       \* UNDO_LIMIT
    ResignStreak,    \* RESIGN_STREAK_THRESHOLD
    ResignMinMoves,  \* resign_min_moves
    Steps,           \* values of "steps" the clients send in an undo message
    Ops,             \* operations the clients use in this instance
    MayNotOpen,      \* the AI's opener may be missing: pass, resign or a failure
    MaxMoves, MaxHints, MaxCrashes  \* bounds of the model

Colors == {"B", "W"}
Opponent(c) == IF c = "B" THEN "W" ELSE "B"
AiColor == Opponent(UserColor)
Coords == Points \cup {Pass}
Move == [color : Colors, coord : Coords]

ASSUME GameAssumption ==
    /\ UserColor \in Colors /\ FirstColor \in Colors
    /\ UndoLimit \in Nat /\ ResignStreak \in Nat \ {0} /\ ResignMinMoves \in Nat
    /\ Steps \subseteq Nat \ {0}
    /\ MayNotOpen \in BOOLEAN
    /\ Pass \notin Points /\ None \notin Coords \cup Clients \cup Nat \cup Seq(Move)
    /\ MaxMoves \in Nat /\ MaxHints \in Nat /\ MaxCrashes \in Nat

VARIABLES
    exists,   \* the games row has not been deleted
    db,       \* the committed games row
    moves,    \* the committed moves table, by move_number
    writer,   \* client whose open transaction holds SQLite's write lock
    cache,    \* engine_pool._states[game]
    lock,     \* which Lock object engine_pool._game_locks[game] holds
    live,     \* ws._connections[game]: the connection that is still open
    pc,       \* what each client's handler is doing
    row,      \* its ORM copy of the games row
    dirty,    \* the attributes of that copy an UPDATE would write
    pos,      \* the GameState it works on
    arg,      \* the coordinate or the number of steps it was asked for
    lockOf,   \* the Lock object it waits for or holds (0 otherwise)
    crashes   \* bound: restarts of the process so far

store == <<exists, db, moves, writer>>
memory == <<cache, lock, live>>
local == <<pc, row, dirty, pos, arg, lockOf>>
vars == <<store, memory, local, crashes>>

Idle == "idle"
Closed == "closed"
Critical == {"move_engine", "move_commit", "move_cache", "move_post", "move_streak",
             "move_end", "move_release", "undo_flush", "undo_commit", "score_commit",
             "hint_engine"}
Waiting == {"move_wait", "undo_wait", "score_wait", "hint_wait"}
Busy == Critical \cup Waiting
          \cup {"score_engine", "score_release", "resign_commit", "resign_release"}

Statuses == {"active", "finished", "resigned"}
Positions == Seq(Move)
Rows == [status : Statuses, winner : {"user", "ai", None}, move_count : Nat,
         undo_count : Nat, hint_count : Nat, loss_streak : Nat,
         sgf : Positions \cup {None}]

-----------------------------------------------------------------------------
(* The rules engine, as far as turns go.                                   *)

BlackOpens(p) ==                             \* mutant: handicap ignored
    IF p = <<>> THEN "B" ELSE Opponent(p[Len(p)].color)
ToMove(p) == IF p = <<>> THEN FirstColor ELSE Opponent(p[Len(p)].color)

IsGameOver(p) == /\ Len(p) >= 2
                 /\ p[Len(p)].coord = Pass
                 /\ p[Len(p) - 1].coord = Pass

(* _replay_state: the surviving rows in move_number order.                 *)
Rank(S, n) == Cardinality({m \in S : m <= n})
Replay(m) == [i \in 1..Cardinality(DOMAIN m) |->
                 m[CHOOSE n \in DOMAIN m : Rank(DOMAIN m, n) = i]]

StateInHand == IF cache = None THEN Replay(moves) ELSE cache

-----------------------------------------------------------------------------
(* Rows, transactions and locks.                                           *)

(* Row d with the changed attributes of row r.                             *)
Over(d, r, changed) == [f \in DOMAIN d |-> IF f \in changed THEN r[f] ELSE d[f]]

NotRefreshed(t) == row[t]                    \* mutant: the stale row is trusted
(* db.refresh(game): the committed row, under this session's own           *)
(* uncommitted changes if it has flushed any.                              *)
Refreshed(t) == IF writer = t THEN Over(db, row[t], dirty[t]) ELSE db
StillDirty(t) == IF writer = t THEN dirty[t] ELSE {}

WholeRow(t) == row[t]                        \* mutant: the UPDATE writes every column
(* An UPDATE writes the attributes that changed, and only those.           *)
Flush(t) == Over(db, row[t], dirty[t])

CanWrite(t) == exists /\ writer \in {None, t}

NoLock(t) == TRUE                            \* mutant: handlers do not queue
LockFree(t) == \A u \in Clients \ {t} : ~(pc[u] \in Critical /\ lockOf[u] = lockOf[t])

Edit(t, r, changed) == /\ row' = [row EXCEPT ![t] = r]
                       /\ dirty' = [dirty EXCEPT ![t] = changed]
Goto(t, l) == pc' = [pc EXCEPT ![t] = l]

(* The handler ends: its database session is closed and rolled back.       *)
Shut(t) == /\ Goto(t, Closed)
           /\ Edit(t, None, {})
           /\ pos' = [pos EXCEPT ![t] = <<>>]
           /\ arg' = [arg EXCEPT ![t] = None]
           /\ writer' = IF writer = t THEN None ELSE writer
           /\ lockOf' = [lockOf EXCEPT ![t] = 0]
           /\ live' = IF live = t THEN None ELSE live

(* The operation is over and its answer or its GameError is sent: the      *)
(* WebSocket goes on unless it was replaced meanwhile, in which case       *)
(* sending raises and the handler ends.                                    *)
Reply(t, r, changed) ==
    LET open == live = t IN
    /\ Goto(t, IF open THEN Idle ELSE Closed)
    /\ Edit(t, IF open THEN r ELSE None, IF open THEN changed ELSE {})
    /\ pos' = [pos EXCEPT ![t] = <<>>]
    /\ arg' = [arg EXCEPT ![t] = None]
    /\ lockOf' = [lockOf EXCEPT ![t] = 0]
    /\ UNCHANGED live

Answer(t, r, changed) ==
    /\ Reply(t, r, changed)
    /\ writer' = IF writer = t /\ live # t THEN None ELSE writer

FlushOnly(t, newMoves) == /\ CanWrite(t)     \* mutant: flush() for commit()
                          /\ db' = Flush(t)
                          /\ moves' = newMoves
                          /\ writer' = t
                          /\ dirty' = [dirty EXCEPT ![t] = {}]
                          /\ UNCHANGED exists

(* db.commit(): db takes the dirty attributes; newMoves is the moves table *)
(* it leaves behind.                                                       *)
Commit(t, newMoves) == /\ CanWrite(t)
                       /\ db' = Flush(t)
                       /\ moves' = newMoves
                       /\ writer' = None
                       /\ dirty' = [dirty EXCEPT ![t] = {}]
                       /\ UNCHANGED exists

(* "database is locked" past busy_timeout, or the row is gone, or a move   *)
(* number is taken: the exception ends the handler.                        *)
Fail(t) == /\ Shut(t)
           /\ UNCHANGED <<exists, db, moves, cache, lock, crashes>>

(* release_game: the pinned slot, the lock entry and the cached state go.  *)
Release == /\ cache' = None
           /\ lock' = lock + 1

-----------------------------------------------------------------------------
(* create_game, seen after POST /games has answered.  The opener is        *)
(* recorded unless the engine passed, resigned or failed.  A creation that *)
(* fails after its first commit leaves the row, active, with no moves and  *)
(* no cached state.                                                        *)

NewRow(n) == [status |-> "active", winner |-> None, move_count |-> n, undo_count |-> 0,
              hint_count |-> 0, loss_streak |-> 0, sgf |-> None]

Openings == IF FirstColor = UserColor THEN {<<>>}
            ELSE {<<[color |-> AiColor, coord |-> c]>> : c \in Points}
                     \cup (IF MayNotOpen THEN {<<>>} ELSE {})

Init ==
    /\ exists = TRUE
    /\ moves \in Openings
    /\ db = NewRow(Len(moves))
    /\ writer = None
    /\ cache \in {moves} \cup (IF moves = <<>> THEN {None} ELSE {})
    /\ lock = 0 /\ live = None
    /\ pc = [t \in Clients |-> Closed]
    /\ row = [t \in Clients |-> None]
    /\ dirty = [t \in Clients |-> {}]
    /\ pos = [t \in Clients |-> <<>>]
    /\ arg = [t \in Clients |-> None]
    /\ lockOf = [t \in Clients |-> 0]
    /\ crashes = 0

-----------------------------------------------------------------------------
(* ws_game: accepting a connection evicts the one before it.               *)

Evicted(u) == u = live /\ pc[u] = Idle

Connect(t) ==
    /\ pc[t] = Closed /\ exists
    /\ live' = t
    /\ pc' = [u \in Clients |-> IF u = t THEN Idle
                                ELSE IF Evicted(u) THEN Closed ELSE pc[u]]
    /\ row' = [u \in Clients |-> IF u = t THEN db
                                 ELSE IF Evicted(u) THEN None ELSE row[u]]
    /\ dirty' = [u \in Clients |-> IF u = t \/ Evicted(u) THEN {} ELSE dirty[u]]
    /\ writer' = IF \E u \in Clients : u = writer /\ Evicted(u) THEN None ELSE writer
    /\ UNCHANGED <<exists, db, moves, cache, lock, pos, arg, lockOf, crashes>>

(* The peer goes away: an idle handler ends, a busy one only cannot send.  *)
Drop(t) ==
    /\ live = t
    /\ IF pc[t] = Idle THEN Shut(t)
       ELSE live' = None /\ UNCHANGED <<writer, local>>
    /\ UNCHANGED <<exists, db, moves, cache, lock, crashes>>

-----------------------------------------------------------------------------
(* place_move.                                                             *)

CanAsk(t, op) == op \in Ops /\ pc[t] = Idle /\ live = t /\ row[t].status = "active"

StartMove(t) ==
    /\ CanAsk(t, "move")
    /\ Cardinality(DOMAIN moves) + 2 <= MaxMoves
    /\ \E c \in Coords : arg' = [arg EXCEPT ![t] = c]
    /\ Goto(t, "move_wait")
    /\ lockOf' = [lockOf EXCEPT ![t] = lock]
    /\ UNCHANGED <<store, memory, row, dirty, pos, crashes>>

(* Under the lock: refresh, status, cached or replayed state, the rules.   *)
LockMove(t) ==
    /\ pc[t] = "move_wait" /\ LockFree(t)
    /\ IF ~exists THEN Shut(t) /\ UNCHANGED cache
       ELSE LET r == Refreshed(t) IN
            \/ /\ r.status # "active"
               /\ Answer(t, r, StillDirty(t)) /\ UNCHANGED cache
            \/ /\ r.status = "active"
               /\ cache' = StateInHand
               /\ \/ /\ ToMove(StateInHand) # UserColor \/ arg[t] # Pass  \* IllegalMoveError
                     /\ Answer(t, r, StillDirty(t))
                  \/ /\ ToMove(StateInHand) = UserColor
                     /\ Goto(t, "move_engine")
                     /\ pos' = [pos EXCEPT ![t] = Append(StateInHand,
                                    [color |-> UserColor, coord |-> arg[t]])]
                     /\ Edit(t, [r EXCEPT !.move_count = @ + 1],
                             StillDirty(t) \cup {"move_count"})
                     /\ UNCHANGED <<writer, live, arg, lockOf>>
    /\ UNCHANGED <<exists, db, moves, lock, crashes>>

Ended(r, status, winner, sgf) ==
    [r EXCEPT !.status = status, !.winner = winner, !.sgf = sgf]
EndFields == {"status", "winner", "sgf"}

(* _sync_adapter, the flush to the client, genmove and _finalize_game, by  *)
(* their outcome.                                                          *)
MoveEngine(t) ==
    /\ pc[t] = "move_engine"
    /\ \/ Shut(t)                                   \* engine or socket failed
       \/ /\ ~IsGameOver(pos[t])                    \* AI_ILLEGAL_MOVE
          /\ Answer(t, row[t], dirty[t])
       \/ /\ IsGameOver(pos[t])                     \* two passes
          /\ \E w \in {"user", "ai"} :
                Edit(t, Ended(row[t], "finished", w, pos[t]), dirty[t] \cup EndFields)
          /\ Goto(t, "move_commit")
          /\ UNCHANGED <<pos, arg, lockOf, writer, live>>
       \/ /\ ~IsGameOver(pos[t])                    \* the AI resigns
          /\ Edit(t, Ended(row[t], "resigned", "user", row[t].sgf),
                  dirty[t] \cup {"status", "winner"})
          /\ Goto(t, "move_commit")
          /\ UNCHANGED <<pos, arg, lockOf, writer, live>>
       \/ /\ ~IsGameOver(pos[t])                    \* the AI plays or passes
          /\ \E c \in Coords, w \in {"user", "ai"} :
                LET p == Append(pos[t], [color |-> AiColor, coord |-> c])
                    r == [row[t] EXCEPT !.move_count = @ + 1]
                IN /\ pos' = [pos EXCEPT ![t] = p]
                   /\ IF IsGameOver(p)
                      THEN Edit(t, Ended(r, "finished", w, p), dirty[t] \cup EndFields)
                      ELSE Edit(t, r, dirty[t])
          /\ Goto(t, "move_commit")
          /\ UNCHANGED <<arg, lockOf, writer, live>>
    /\ UNCHANGED <<exists, db, moves, cache, lock, crashes>>

(* The rows of the batch: the user's move and the AI's, if it made one.    *)
NewRows(t) ==
    LET n == row[t].move_count
        l == Len(pos[t])
        k == IF pos[t][l].color = AiColor THEN 2 ELSE 1
    IN [i \in (n - k + 1)..n |-> pos[t][l - n + i]]

Insert(m, new) == [n \in DOMAIN m \cup DOMAIN new |->
                      IF n \in DOMAIN new THEN new[n] ELSE m[n]]

MoveCommit(t) ==
    /\ pc[t] = "move_commit"
    /\ DOMAIN NewRows(t) \cap DOMAIN moves = {}     \* UNIQUE(game_id, move_number)
    /\ Commit(t, Insert(moves, NewRows(t)))
    /\ Goto(t, "move_cache")
    /\ UNCHANGED <<memory, row, pos, arg, lockOf, crashes>>

CacheForgotten(t) ==                         \* mutant: set_cached_state left out
    /\ pc[t] = "move_cache"
    /\ Goto(t, IF row[t].status = "active" THEN "move_post" ELSE "move_release")
    /\ UNCHANGED <<store, memory, row, dirty, pos, arg, lockOf, crashes>>

MoveCache(t) ==
    /\ pc[t] = "move_cache"
    /\ cache' = pos[t]
    /\ Goto(t, IF row[t].status = "active" THEN "move_post" ELSE "move_release")
    /\ UNCHANGED <<store, lock, live, row, dirty, pos, arg, lockOf, crashes>>

(* The evaluation after the commit: nothing to do, the loss streak moves,  *)
(* or the AI's pass in a settled position ends the game.                   *)
MovePost(t) ==
    LET r == row[t]
        p == pos[t]
        passed == p[Len(p)].coord = Pass
    IN
    /\ pc[t] = "move_post"
    /\ \/ Answer(t, r, {})        \* analysis failed, or AI not losing and streak 0
       \/ /\ ~passed /\ Len(p) >= ResignMinMoves    \* deep read confirms the loss
          /\ Edit(t, [r EXCEPT !.loss_streak = @ + 1], {"loss_streak"})
          /\ Goto(t, "move_streak")
          /\ UNCHANGED <<pos, arg, lockOf, writer, live>>
       \/ /\ ~passed /\ r.loss_streak > 0           \* it does not: streak reset
          /\ Edit(t, [r EXCEPT !.loss_streak = 0], {"loss_streak"})
          /\ Goto(t, "move_streak")
          /\ UNCHANGED <<pos, arg, lockOf, writer, live>>
       \/ /\ passed /\ r.loss_streak >= ResignStreak
          /\ Edit(t, Ended(r, "resigned", "user", p), EndFields)
          /\ Goto(t, "move_end")
          /\ UNCHANGED <<pos, arg, lockOf, writer, live>>
       \/ /\ passed /\ r.loss_streak < ResignStreak \* AI pass, settled: score it
          /\ \E w \in {"user", "ai"} : Edit(t, Ended(r, "finished", w, p), EndFields)
          /\ Goto(t, "move_end")
          /\ UNCHANGED <<pos, arg, lockOf, writer, live>>
    /\ UNCHANGED <<exists, db, moves, cache, lock, crashes>>

MoveStreak(t) ==
    /\ pc[t] = "move_streak"
    /\ CanWrite(t)
    /\ db' = Flush(t)
    /\ writer' = None
    /\ IF row[t].loss_streak >= ResignStreak
       THEN /\ Edit(t, Ended(row[t], "resigned", "user", pos[t]), EndFields)
            /\ Goto(t, "move_end")
            /\ UNCHANGED <<live, pos, arg, lockOf>>
       ELSE Reply(t, row[t], {})
    /\ UNCHANGED <<exists, moves, cache, lock, crashes>>

MoveEnd(t) ==
    /\ pc[t] = "move_end"
    /\ Commit(t, moves)
    /\ Goto(t, "move_release")
    /\ UNCHANGED <<memory, row, pos, arg, lockOf, crashes>>

LockedTwice(t) ==                            \* mutant: the lock is taken again
    /\ pc[t] = "move_release"
    /\ \A u \in Clients : ~(pc[u] \in Critical /\ lockOf[u] = lock)
    /\ Release
    /\ Answer(t, row[t], {})
    /\ UNCHANGED <<exists, db, moves, crashes>>

MoveRelease(t) ==
    /\ pc[t] = "move_release"
    /\ Release
    /\ Answer(t, row[t], {})
    /\ UNCHANGED <<exists, db, moves, crashes>>

-----------------------------------------------------------------------------
(* undo_move: the limit is read before and after taking the lock.          *)

StartUndo(t) ==
    /\ CanAsk(t, "undo") /\ row[t].undo_count < UndoLimit
    /\ \E n \in Steps : arg' = [arg EXCEPT ![t] = n]
    /\ Goto(t, "undo_wait")
    /\ lockOf' = [lockOf EXCEPT ![t] = lock]
    /\ UNCHANGED <<store, memory, row, dirty, pos, crashes>>

LastOnly(t) == {n \in DOMAIN moves : \A m \in DOMAIN moves : m <= n}   \* mutant

(* rows[:steps] of the rows in descending order.                           *)
TakenBack(t) == {n \in DOMAIN moves :
                    Cardinality({m \in DOMAIN moves : m >= n}) <= arg[t]}
Kept(t) == [n \in DOMAIN moves \ TakenBack(t) |-> moves[n]]

Shortened(t) == Replay(Kept(t))

Unlimited(r) == r.status = "active" /\ moves # <<>>     \* mutant: no second check
MayUndo(r) == /\ r.status = "active"
              /\ r.undo_count < UndoLimit
              /\ moves # <<>>

LockUndo(t) ==
    /\ pc[t] = "undo_wait" /\ LockFree(t)
    /\ IF ~exists THEN Shut(t)
       ELSE LET r == Refreshed(t) IN
            \/ ~MayUndo(r) /\ Answer(t, r, StillDirty(t))
            \/ /\ MayUndo(r)
               /\ Edit(t, r, StillDirty(t))
               /\ Goto(t, "undo_flush")
               /\ UNCHANGED <<writer, live, pos, arg, lockOf>>
    /\ UNCHANGED <<exists, db, moves, cache, lock, crashes>>

(* The replay's SELECT flushes the DELETEs and the UPDATE: from here to    *)
(* the commit this transaction holds the write lock.  The shortened state  *)
(* is cached before the commit.                                            *)
StepsCounted(t) == arg[t]                    \* mutant: steps, not len(deleted)
DeletedCount(t) == Cardinality(TakenBack(t))

UndoFlush(t) ==
    /\ pc[t] = "undo_flush"
    /\ CanWrite(t)
    /\ writer' = t
    /\ Edit(t, [row[t] EXCEPT !.move_count = @ - DeletedCount(t),
                              !.undo_count = @ + 1],
            dirty[t] \cup {"move_count", "undo_count"})
    /\ cache' = Shortened(t)
    /\ Goto(t, "undo_commit")
    /\ UNCHANGED <<exists, db, moves, lock, live, pos, arg, lockOf, crashes>>

UndoCommit(t) ==
    /\ pc[t] = "undo_commit"
    /\ CanWrite(t)
    /\ db' = Flush(t)
    /\ moves' = Kept(t)
    /\ writer' = None
    /\ Reply(t, row[t], {})
    /\ UNCHANGED <<exists, cache, lock, crashes>>

-----------------------------------------------------------------------------
(* score_by_request, and estimate_score up to the end of its analysis: the *)
(* state is read, and analysed, outside the lock.  A replay's SELECT       *)
(* flushes what an earlier failed round left in the row.                   *)

StartScore(t) ==
    /\ CanAsk(t, "score")
    /\ pos' = [pos EXCEPT ![t] = StateInHand]
    /\ IF cache = None /\ dirty[t] # {}
       THEN CanWrite(t) /\ writer' = t
       ELSE UNCHANGED writer
    /\ Goto(t, "score_engine")
    /\ UNCHANGED <<exists, db, moves, memory, row, dirty, arg, lockOf, crashes>>

ScoreEngine(t) ==
    /\ pc[t] = "score_engine"
    /\ \/ Answer(t, row[t], dirty[t])        \* an estimate, not settled, or no analysis
       \/ /\ Goto(t, "score_wait")
          /\ lockOf' = [lockOf EXCEPT ![t] = lock]
          /\ UNCHANGED <<writer, live, row, dirty, pos, arg>>
    /\ UNCHANGED <<exists, db, moves, cache, lock, crashes>>

LockScore(t) ==
    /\ pc[t] = "score_wait" /\ LockFree(t)
    /\ IF ~exists THEN Shut(t)
       ELSE LET r == Refreshed(t) IN
            IF r.status # "active"
            THEN Answer(t, r, StillDirty(t))
            ELSE /\ \E w \in {"user", "ai"} :
                       Edit(t, Ended(r, "finished", w, pos[t]), StillDirty(t) \cup EndFields)
                 /\ Goto(t, "score_commit")
                 /\ UNCHANGED <<writer, live, pos, arg, lockOf>>
    /\ UNCHANGED <<exists, db, moves, cache, lock, crashes>>

ScoreCommit(t) ==
    /\ pc[t] = "score_commit"
    /\ Commit(t, moves)
    /\ Goto(t, "score_release")
    /\ UNCHANGED <<memory, row, pos, arg, lockOf, crashes>>

ScoreRelease(t) ==
    /\ pc[t] = "score_release"
    /\ Release
    /\ Answer(t, row[t], {})
    /\ UNCHANGED <<exists, db, moves, crashes>>

-----------------------------------------------------------------------------
(* The REST endpoints: hint, resign, delete.  Each loads the row first;    *)
(* hint then waits for the lock, resign and delete never take it.          *)

Request(t, op) == op \in Ops /\ pc[t] = Closed /\ exists

StartHint(t) ==
    /\ Request(t, "hint") /\ db.hint_count < MaxHints
    /\ Edit(t, db, {})
    /\ Goto(t, "hint_wait")
    /\ lockOf' = [lockOf EXCEPT ![t] = lock]
    /\ UNCHANGED <<store, memory, pos, arg, crashes>>

LockHint(t) ==
    /\ pc[t] = "hint_wait" /\ LockFree(t)
    /\ Goto(t, "hint_engine")
    /\ UNCHANGED <<store, memory, row, dirty, pos, arg, lockOf, crashes>>

HintCommit(t) ==
    /\ pc[t] = "hint_engine"
    /\ CanWrite(t)
    /\ db' = [db EXCEPT !.hint_count = row[t].hint_count + 1]
    /\ Shut(t)
    /\ UNCHANGED <<exists, moves, cache, lock, crashes>>

(* resign_game: the record is read and the row changed; a replay makes the *)
(* UPDATE reach the database, and take the write lock, before the commit.  *)
StartResign(t) ==
    /\ Request(t, "resign") /\ db.status = "active"
    /\ Edit(t, Ended(db, "resigned", "ai", StateInHand), EndFields)
    /\ IF cache = None THEN CanWrite(t) /\ writer' = t ELSE UNCHANGED writer
    /\ Goto(t, "resign_commit")
    /\ UNCHANGED <<exists, db, moves, memory, pos, arg, lockOf, crashes>>

ResignCommit(t) ==
    /\ pc[t] = "resign_commit"
    /\ Commit(t, moves)
    /\ Goto(t, "resign_release")
    /\ UNCHANGED <<memory, row, pos, arg, lockOf, crashes>>

ResignRelease(t) ==
    /\ pc[t] = "resign_release"
    /\ Release
    /\ Shut(t)
    /\ UNCHANGED <<exists, db, moves, crashes>>

(* delete_game: row and moves go; the cache, the lock and a round in       *)
(* flight are left as they are.                                            *)
Delete(t) ==
    /\ Request(t, "delete") /\ writer = None
    /\ exists' = FALSE
    /\ moves' = <<>>
    /\ UNCHANGED <<db, writer, memory, local, crashes>>

-----------------------------------------------------------------------------
(* A commit or an engine call that fails ends the handler.  The write lock *)
(* is already held at undo_commit: nothing is left to fail there.          *)
Abort(t) ==
    /\ pc[t] \in {"move_commit", "move_streak", "move_end", "undo_flush", "score_engine",
                  "score_commit", "hint_engine", "resign_commit"}
    /\ Fail(t)

(* The process dies and is restarted: committed data survives.             *)
Crash ==
    /\ crashes < MaxCrashes
    /\ crashes' = crashes + 1
    /\ writer' = None /\ cache' = None /\ lock' = 0 /\ live' = None
    /\ pc' = [t \in Clients |-> Closed]
    /\ row' = [t \in Clients |-> None]
    /\ dirty' = [t \in Clients |-> {}]
    /\ pos' = [t \in Clients |-> <<>>]
    /\ arg' = [t \in Clients |-> None]
    /\ lockOf' = [t \in Clients |-> 0]
    /\ UNCHANGED <<exists, db, moves>>

Acquire(t) == LockMove(t) \/ LockUndo(t) \/ LockScore(t) \/ LockHint(t)

Proceed(t) ==
    \/ MoveEngine(t) \/ MoveCommit(t) \/ MoveCache(t) \/ MovePost(t)
    \/ MoveStreak(t) \/ MoveEnd(t) \/ MoveRelease(t)
    \/ UndoFlush(t) \/ UndoCommit(t)
    \/ ScoreEngine(t) \/ ScoreCommit(t) \/ ScoreRelease(t)
    \/ HintCommit(t) \/ ResignCommit(t) \/ ResignRelease(t)
    \/ Abort(t)

Ask(t) ==
    \/ Connect(t) \/ Drop(t)
    \/ StartMove(t) \/ StartUndo(t) \/ StartScore(t) \/ StartHint(t) \/ StartResign(t)
    \/ Delete(t)

Next == Crash \/ \E t \in Clients : Ask(t) \/ Acquire(t) \/ Proceed(t)

Spec == Init /\ [][Next]_vars

(* asyncio runs every ready coroutine, engine calls and SQLite's busy      *)
(* handler time out, and asyncio.Lock serves its waiters in order, so a    *)
(* waiter whose lock keeps coming free is served.                          *)
Fairness == \A t \in Clients : WF_vars(Proceed(t)) /\ SF_vars(Acquire(t))
FairSpec == Spec /\ Fairness
-----------------------------------------------------------------------------
(* The values of every variable of the model.                              *)
TypeOK ==
    /\ exists \in BOOLEAN
    /\ db \in Rows
    /\ DOMAIN moves \subseteq Nat \ {0} /\ \A n \in DOMAIN moves : moves[n] \in Move
    /\ writer \in Clients \cup {None} /\ live \in Clients \cup {None}
    /\ cache \in Positions \cup {None}
    /\ lock \in Nat /\ lockOf \in [Clients -> Nat]
    /\ pc \in [Clients -> Busy \cup {Idle, Closed}]
    /\ row \in [Clients -> Rows \cup {None}]
    /\ dirty \in [Clients -> SUBSET DOMAIN db]
    /\ pos \in [Clients -> Positions]
    /\ arg \in [Clients -> Coords \cup Nat \cup {None}]
    /\ crashes \in Nat

(* The moves table never has a gap, a duplicate or a tail: its numbers are *)
(* exactly 1..move_count, whatever stale row, failed batch or restart came *)
(* in between (place_move's single batch and in-lock refresh, #81, #84).   *)
MovesContiguous == exists => DOMAIN moves = 1..db.move_count

(* _replay_state can always rebuild the game: the committed colours        *)
(* alternate from the side that opens, so play() never answers             *)
(* NOT_YOUR_TURN to a stored move.                                         *)
ReplayLegal ==
    exists => \A n \in DOMAIN moves :
                  moves[n].color = IF n % 2 = 1 THEN FirstColor ELSE Opponent(FirstColor)

(* engine_pool._states is what a replay of the database would give, except *)
(* inside the two windows where a holder of the game's lock has written    *)
(* one of them and not yet the other.                                      *)
CacheMatchesDb ==
    (/\ exists /\ cache # None
     /\ \A t \in Clients : pc[t] \notin {"move_cache", "undo_commit"})
        => cache = Replay(moves)

(* No sequence of connections, stale rows and restarts buys more than      *)
(* UNDO_LIMIT undos.                                                       *)
UndoBounded == db.undo_count <= UndoLimit

(* A game that is over is never active again: no handler writes back the   *)
(* status of the row it loaded earlier.                                    *)
StatusSealed == [][db.status # "active" => db'.status # "active"]_vars

(* SQLite's write lock is held only for the length of a write: no client   *)
(* holds it while it waits for the engine or for a message.                *)
WriteLockBrief ==
    writer # None => pc[writer] \in {"undo_commit", "resign_commit"}

(* A settled result is settled: status and winner change only out of       *)
(* "active".                                                               *)
ResultWriteOnce ==
    [][db.status # "active" => db'.status = db.status /\ db'.winner = db.winner]_vars

(* _game_locks serialises the mutations of a game: one client at a time is *)
(* between acquiring a lock of the game and releasing it.                  *)
OneInCriticalSection ==
    \A t, u \in Clients : pc[t] \in Critical /\ pc[u] \in Critical => t = u

(* Between operations it is the user's turn in an active game, so the next *)
(* move message is not refused with NOT_YOUR_TURN.                         *)
UserOnTurn ==
    (/\ exists /\ db.status = "active"
     /\ \A t \in Clients : pc[t] \notin Critical)
        => ToMove(Replay(moves)) = UserColor

(* The position that was scored or resigned is the position on record.     *)
SgfIsRecord == exists /\ db.sgf # None => db.sgf = Replay(moves)

(* Every request is eventually answered or its handler ended.              *)
RequestsEnd == \A t \in Clients : pc[t] \in Busy ~> pc[t] \in {Idle, Closed}
=============================================================================
