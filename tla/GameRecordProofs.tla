-------------------------- MODULE GameRecordProofs --------------------------
(***************************************************************************)
(* More theorems about GameStore, for every set of clients, every board    *)
(* and every bound.  RecordInv stands on the invariant of GameStoreProofs  *)
(* and says what a handler's position has to do with the moves table, what *)
(* it may write of the result, and who may be in the critical section      *)
(* beside it.  From it: replays are legal, the cache is the record, one    *)
(* handler at a time is in the critical section, the write lock is held    *)
(* briefly, and the commits implement GameRecord.                          *)
(***************************************************************************)
EXTENDS GameStoreProofs, MCGameStore, SequenceTheorems

(* The handlers that have a lock and are not hints.                        *)
Holding == Critical \ {"hint_engine"}

(* The colours alternate from the side that opens.                         *)
Alternates(m) ==
    \A n \in DOMAIN m : m[n].color = IF n % 2 = 1 THEN FirstColor ELSE Opponent(FirstColor)

(* Two handlers are in the critical section only when the game is over     *)
(* and one of them is a hint.                                              *)
Alone ==
    \A t, u \in Clients :
        t # u /\ pc[t] \in Critical /\ pc[u] \in Critical
            => Over_(db) /\ "hint_engine" \in {pc[t], pc[u]}

(* What was asked for.                                                     *)
Asked(t) ==
    /\ pc[t] \in {"hint_wait", "hint_engine"} => "hint" \in Ops
    /\ pc[t] \in {"resign_commit", "resign_release"} => "resign" \in Ops
    /\ pc[t] \in {"undo_wait", "undo_flush", "undo_commit"} => "undo" \in Ops /\ arg[t] \in Steps

(* Status and winner are written together.                                 *)
Told(t) ==
    /\ "winner" \in dirty[t] <=> "status" \in dirty[t]
    /\ "status" \in dirty[t] => row[t].winner \in {"user", "ai"}

(* The position it works on continues the record, and is as long as its    *)
(* row says.                                                               *)
Held(t) ==
    /\ pc[t] \in {"move_engine", "move_commit"} =>
           /\ Alternates(pos[t])
           /\ exists => /\ Len(pos[t]) = row[t].move_count
                        /\ \A n \in 1..db.move_count : pos[t][n] = moves[n]
    /\ pc[t] = "move_commit" =>
           /\ pos[t] # <<>>
           /\ IF pos[t][Len(pos[t])].color = AiColor THEN row[t].status # "resigned"
              ELSE Over_(row[t])
    /\ pc[t] = "move_cache" /\ exists => pos[t] = Replay(moves)

(* An undo takes something away, costs one, and the cache shows it before  *)
(* the table does.                                                         *)
Undone(t) ==
    /\ pc[t] = "undo_flush" /\ exists =>
           row[t].undo_count = db.undo_count /\ db.move_count > 0
    /\ pc[t] = "undo_commit" =>
           /\ "undo_count" \in dirty[t]
           /\ exists => /\ row[t].undo_count = db.undo_count + 1
                        /\ row[t].move_count < db.move_count
                        /\ cache \in {None, Shortened(t)}

(* Only scoring takes the write lock and goes on to something else.        *)
Brief(t) == writer = t /\ "score" \notin Ops => pc[t] \in {"undo_commit", "resign_commit"}

(* Where only holders of the lock end a game, it is active while they work *)
(* towards its end.                                                        *)
Deciders == {"move_engine", "move_commit", "move_post", "move_streak", "move_end",
             "undo_flush", "undo_commit", "score_commit"}
LocksOnly == {"resign", "delete"} \cap Ops = {}
Deciding(t) ==
    LocksOnly /\ (pc[t] \in Deciders \/ (pc[t] = "move_cache" /\ ~Over_(row[t]))) => ~Over_(db)

(* All that is asked of the handler of client t.                           *)
Own(t) == Asked(t) /\ Told(t) /\ Held(t) /\ Undone(t) /\ Brief(t) /\ Deciding(t)

(* Every committed round and undo leaves the user on turn: the user opens  *)
(* and undos take back whole rounds, or the AI has opened and there are no *)
(* undos.                                                                  *)
WholeRounds ==
    \/ FirstColor = UserColor /\ \A n \in Steps : n % 2 = 0
    \/ FirstColor # UserColor /\ ~MayNotOpen /\ "undo" \notin Ops
Even == WholeRounds /\ exists /\ ~Over_(db)
            => db.move_count % 2 = IF FirstColor = UserColor THEN 0 ELSE 1

RecordInv ==
    /\ Alone
    /\ ReplayLegal
    /\ CacheMatchesDb
    /\ Even
    /\ "delete" \in Ops \/ exists
    /\ exists => moves = [n \in DOMAIN moves |-> moves[n]]
    /\ \A t \in Clients : Own(t)

-----------------------------------------------------------------------------
(* What a step of client t owes to the others.                             *)

(* The record stands: no move is added or taken back.                      *)
Calm == exists' => /\ exists /\ moves' = moves
                   /\ db'.move_count = db.move_count /\ db'.undo_count = db.undo_count

(* A game is decided by the holder of its lock, or resigned.               *)
DecidedBy(t) == Over_(db') => Over_(db) \/ pc[t] \in Holding \/ "resign" \in Ops

(* The critical section is entered alone, or by a hint on a game that is   *)
(* over.                                                                   *)
Enters(t) ==
    pc'[t] \in Critical =>
        \/ pc[t] \in Holding \/ pc'[t] = pc[t]
        \/ \A u \in Clients \ {t} : pc[u] \notin Critical
        \/ pc'[t] = "hint_engine" /\ Over_(db')

(* Other handlers are left alone, or idle and evicted.                     *)
Unmoved(u) == /\ Untouched(u) \/ (pc[u] = Idle /\ pc'[u] = Closed /\ dirty'[u] = {})
              /\ writer' = u => writer = u /\ Untouched(u)

(* The replays of a table that stands.                                     *)
LEMMA Steady ==
    ASSUME moves' = moves
    PROVE  /\ Replay(moves)' = Replay(moves)
           /\ \A t \in Clients : arg'[t] = arg[t] => Shortened(t)' = Shortened(t)
<1>1. Replay(moves)' = Replay(moves)
  BY DEF Replay, Rank
<1>2. ASSUME NEW t \in Clients, arg'[t] = arg[t]
      PROVE  Shortened(t)' = Shortened(t)
  BY <1>2 DEF Shortened, Kept, TakenBack, Replay, Rank
<1>. QED
  BY <1>1, <1>2

(* Two handlers past their locks, neither of them a hint, are one.         *)
LEMMA HoldingAlone ==
    ASSUME RecordInv, NEW t \in Clients, NEW u \in Clients, pc[t] \in Holding, pc[u] \in Holding
    PROVE  t = u
  BY DEF RecordInv, Alone, Holding

(* A handler that has ended owes nothing.                                  *)
LEMMA ClosedOwn ==
    ASSUME NEW t \in Clients, pc'[t] = Closed, dirty'[t] = {}, writer' # t
    PROVE  Own(t)'
  BY DEF Own, Asked, Told, Held, Undone, Brief, Deciding, Deciders, Closed

(* A handler that is left alone keeps its part, unless it holds the lock   *)
(* and the record changes under it.                                        *)
LEMMA OthersOwn ==
    ASSUME RecordInv, NEW u \in Clients, Unmoved(u),
           pc[u] \in Holding =>
               Calm /\ cache' \in {cache, None} /\ (Over_(db') => Over_(db) \/ "resign" \in Ops)
    PROVE  Own(u)'
<1>1. CASE ~Untouched(u)
  BY <1>1, ClosedOwn DEF Unmoved
<1>2. CASE Untouched(u)
  <2>. USE <1>2 DEF Untouched
  <2>1. Asked(u) /\ Told(u) /\ Held(u) /\ Undone(u) /\ Brief(u) /\ Deciding(u)
    BY DEF RecordInv, Own
  <2>2. Asked(u)' /\ Told(u)' /\ Brief(u)'
    BY <2>1 DEF Asked, Told, Brief, Unmoved
  <2>3. CASE pc[u] \notin Holding
    BY <2>1, <2>2, <2>3 DEF Own, Held, Undone, Deciding, Deciders, Holding, Critical
  <2>4. CASE pc[u] \in Holding
    <3>1. Calm /\ cache' \in {cache, None} /\ (Over_(db') => Over_(db) \/ "resign" \in Ops)
      BY <2>4
    <3>2. exists' => Replay(moves)' = Replay(moves) /\ Shortened(u)' = Shortened(u)
      BY <3>1, Steady DEF Calm
    <3>3. Held(u)'
      BY <2>1, <3>1, <3>2 DEF Held, Alternates, Calm, Over_
    <3>4. Undone(u)'
      BY <2>1, <3>1, <3>2 DEF Undone, Calm
    <3>5. Deciding(u)'
      BY <2>1, <3>1 DEF Deciding, Over_, LocksOnly
    <3>. QED
      BY <2>2, <3>3, <3>4, <3>5 DEF Own
  <2>. QED
    BY <2>3, <2>4
<1>. QED
  BY <1>1, <1>2

(* Nobody enters the critical section beside a handler at work.            *)
LEMMA AloneKeeps ==
    ASSUME RecordInv, NEW t \in Clients, Over_(db) => Over_(db'),
           \A u \in Clients \ {t} : Unmoved(u), Enters(t)
    PROVE  Alone'
<1>1. \A u \in Clients \ {t} : pc'[u] \in {pc[u], Closed}
  BY DEF Unmoved, Untouched
<1>. SUFFICES ASSUME NEW u \in Clients, NEW v \in Clients, u # v,
                     pc'[u] \in Critical, pc'[v] \in Critical
              PROVE  Over_(db') /\ "hint_engine" \in {pc'[u], pc'[v]}
  BY DEF Alone, Over_
<1>2. \A w \in Clients \ {t} : pc'[w] \in Critical => pc'[w] = pc[w]
  BY <1>1 DEF Critical, Closed
<1>. QED
  BY <1>2 DEF RecordInv, Alone, Enters, Holding

(* A step that leaves the record as it is, and stays out of the two        *)
(* windows in which the cache and the table differ.                        *)
LEMMA CalmKeeps ==
    ASSUME RecordInv, NEW t \in Clients, Calm, Over_(db) => Over_(db'),
           \A u \in Clients \ {t} : Unmoved(u),
           \/ cache' \in {cache, None}
           \/ cache' = Replay(moves) /\ \A u \in Clients \ {t} : pc[u] \notin Holding,
           pc[t] \notin {"move_cache", "undo_commit"} \/ Untouched(t),
           DecidedBy(t), Enters(t), "delete" \in Ops \/ exists', Own(t)'
    PROVE  RecordInv'
<1>2. Alone'
  BY AloneKeeps
<1>3. ReplayLegal' /\ Even'
  BY DEF RecordInv, ReplayLegal, Even, Calm, Over_
<1>4. CacheMatchesDb'
  <2>. SUFFICES ASSUME exists', cache' # None,
                       \A u \in Clients : pc'[u] \notin {"move_cache", "undo_commit"}
                PROVE  cache' = Replay(moves)'
    BY DEF CacheMatchesDb
  <2>1. exists /\ Replay(moves)' = Replay(moves)
    BY Steady DEF Calm
  <2>2. CASE cache' = Replay(moves)
    BY <2>1, <2>2
  <2>3. CASE cache' = cache
    <3>1. \A u \in Clients : pc[u] \notin {"move_cache", "undo_commit"}
      BY DEF Unmoved, Untouched, Idle
    <3>. QED
      BY <2>1, <2>3, <3>1 DEF RecordInv, CacheMatchesDb
  <2>. QED
    BY <2>2, <2>3
<1>5. ASSUME NEW u \in Clients \ {t}
      PROVE  Own(u)'
  <2>1. pc[u] \in Holding =>
            Calm /\ cache' \in {cache, None} /\ (Over_(db') => Over_(db) \/ "resign" \in Ops)
    BY HoldingAlone DEF DecidedBy
  <2>. QED
    BY <2>1, OthersOwn
<1>6. exists' => moves' = [n \in DOMAIN moves' |-> moves'[n]]
  BY DEF RecordInv, Calm
<1>. QED
  BY <1>2, <1>3, <1>4, <1>5, <1>6 DEF RecordInv

-----------------------------------------------------------------------------
(* Handlers that end, that reply and that wait.                            *)

(* The parts of what is asked of a handler.                                *)
LEMMA OwnParts ==
    ASSUME RecordInv, NEW t \in Clients
    PROVE  Asked(t) /\ Told(t) /\ Held(t) /\ Undone(t) /\ Brief(t) /\ Deciding(t)
  BY DEF RecordInv, Own

(* No move, count or game is touched: all a step owes is its own part.     *)
LEMMA StillRecord ==
    ASSUME IInv, RecordInv, NEW t \in Clients, UNCHANGED <<exists, db, moves>>,
           \A u \in Clients \ {t} : Unmoved(u), cache' \in {cache, None},
           pc[t] \notin {"move_cache", "undo_commit"}, Enters(t), Own(t)'
    PROVE  RecordInv'
<1>1. Calm /\ (Over_(db) => Over_(db')) /\ DecidedBy(t) /\ ("delete" \in Ops \/ exists')
  BY DEF Calm, Over_, DecidedBy, RecordInv
<1>. QED
  BY <1>1, CalmKeeps

(* A handler that ends.                                                    *)
LEMMA ShutRecord ==
    ASSUME IInv, GameAssumption, RecordInv, NEW t \in Clients, Shut(t),
           Calm, Over_(db) => Over_(db'), cache' \in {cache, None},
           pc[t] \notin {"move_cache", "undo_commit"},
           DecidedBy(t), "delete" \in Ops \/ exists'
    PROVE  RecordInv'
<1>1. LocalTypes
  BY OwnHandler
<1>2. /\ \A u \in Clients \ {t} : Untouched(u)
      /\ pc'[t] = Closed /\ writer' \in {writer, None} /\ writer' # t /\ dirty'[t] = {}
  BY <1>1 DEF Shut, Goto, Edit, LocalTypes, Untouched, GameAssumption
<1>3. \A u \in Clients \ {t} : Unmoved(u)
  BY <1>2 DEF Unmoved, GameAssumption
<1>4. Own(t)' /\ Enters(t)
  BY <1>2, ClosedOwn DEF Enters, Critical, Closed
<1>. QED
  BY <1>3, <1>4, CalmKeeps

(* A handler that has replied, and the others beside it.                   *)
LEMMA ReplyOwn ==
    ASSUME IInv, GameAssumption, RecordInv, NEW t \in Clients, NEW r,
           NEW changed \in SUBSET (Attributes \ {"status", "winner"}),
           Reply(t, r, changed), writer' \in {writer, None},
           writer' # t \/ pc[t] \notin {"undo_commit", "resign_commit"}
    PROVE  Own(t)' /\ Enters(t) /\ \A u \in Clients \ {t} : Unmoved(u)
<1>1. LocalTypes /\ Brief(t)
  BY OwnHandler, OwnParts
<1>2. /\ \A u \in Clients \ {t} : Untouched(u)
      /\ pc'[t] \in {Idle, Closed} /\ dirty'[t] \in {changed, {}}
  BY <1>1 DEF Reply, Goto, Edit, LocalTypes, Untouched
<1>3. \A u \in Clients \ {t} : Unmoved(u)
  BY <1>2 DEF Unmoved, GameAssumption
<1>4. writer' = t => "score" \in Ops
  BY <1>1 DEF Brief, GameAssumption
<1>5. Own(t)'
  BY <1>2, <1>4 DEF Own, Asked, Told, Held, Undone, Brief, Deciding, Deciders, Closed, Idle
<1>. QED
  BY <1>2, <1>3, <1>5 DEF Enters, Critical, Closed, Idle

LEMMA ReplyRecord ==
    ASSUME IInv, GameAssumption, RecordInv, NEW t \in Clients, NEW r,
           NEW changed \in SUBSET (Attributes \ {"status", "winner"}),
           Reply(t, r, changed), writer' \in {writer, None},
           Calm, Over_(db) => Over_(db'), cache' \in {cache, None},
           pc[t] \notin {"move_cache", "undo_commit", "resign_commit"},
           DecidedBy(t), "delete" \in Ops \/ exists'
    PROVE  RecordInv'
  BY ReplyOwn, CalmKeeps

LEMMA AnswerRecord ==
    ASSUME IInv, GameAssumption, RecordInv, NEW t \in Clients, NEW r,
           NEW changed \in SUBSET (Attributes \ {"status", "winner"}),
           Answer(t, r, changed), UNCHANGED <<exists, db, moves>>, cache' \in {cache, None},
           pc[t] \notin {"move_cache", "undo_commit", "resign_commit"}
    PROVE  RecordInv'
<1>1. Reply(t, r, changed) /\ writer' \in {writer, None}
  BY DEF Answer
<1>. QED
  BY <1>1, ReplyOwn, StillRecord

(* A handler starts to wait, or goes on, with the row it has.              *)
LEMMA GoesOn ==
    ASSUME IInv, GameAssumption, RecordInv, NEW t \in Clients, NEW l \in Waiting \cup {"score_engine"},
           pc[t] \in {Idle, Closed, "score_engine"}, Goto(t, l),
           "winner" \notin dirty'[t], "status" \notin dirty'[t],
           l = "undo_wait" => "undo" \in Ops /\ arg'[t] \in Steps, l = "hint_wait" => "hint" \in Ops,
           \A u \in Clients \ {t} : row'[u] = row[u] /\ dirty'[u] = dirty[u] /\ pos'[u] = pos[u]
                                    /\ arg'[u] = arg[u] /\ lockOf'[u] = lockOf[u],
           writer' \in {writer, None} \/ (writer' = t /\ "score" \in Ops),
           UNCHANGED <<exists, db, moves, cache>>
    PROVE  RecordInv'
<1>1. LocalTypes /\ Brief(t)
  BY OwnHandler, OwnParts
<1>2. pc'[t] = l /\ \A u \in Clients \ {t} : Untouched(u)
  BY <1>1 DEF Goto, LocalTypes, Untouched
<1>3. \A u \in Clients \ {t} : Unmoved(u)
  BY <1>2 DEF Unmoved, GameAssumption
<1>4. writer' = t => "score" \in Ops
  BY <1>1 DEF Brief, GameAssumption, Idle, Closed
<1>5. Own(t)'
  BY <1>2, <1>4 DEF Own, Asked, Told, Held, Undone, Brief, Deciding, Deciders, Waiting
<1>6. Enters(t) /\ pc[t] \notin {"move_cache", "undo_commit"}
  BY <1>2 DEF Enters, Critical, Waiting, Idle, Closed
<1>. QED
  BY <1>3, <1>5, <1>6, StillRecord

LEMMA StartsRecord ==
    ASSUME IInv, GameAssumption, RecordInv, NEW t \in Clients,
           StartMove(t) \/ StartUndo(t) \/ StartScore(t) \/ StartHint(t)
    PROVE  RecordInv'
<1>1. LocalTypes /\ Changed(t) /\ Told(t)
  BY OwnHandler, OwnParts
<1>. USE DEF CanAsk, Request, Goto, store, memory, Waiting
<1>2. CASE StartMove(t)
  <2>1. "status" \notin dirty'[t] /\ "winner" \notin dirty'[t] /\ pc[t] = Idle
    BY <1>1, <1>2 DEF StartMove, Changed, Told, Idle
  <2>2. \A u \in Clients \ {t} : arg'[u] = arg[u] /\ lockOf'[u] = lockOf[u]
    BY <1>1, <1>2 DEF StartMove, LocalTypes
  <2>. QED
    BY <1>2, <2>1, <2>2, GoesOn DEF StartMove
<1>3. CASE StartUndo(t)
  <2>1. "status" \notin dirty'[t] /\ "winner" \notin dirty'[t] /\ pc[t] = Idle
    BY <1>1, <1>3 DEF StartUndo, Changed, Told, Idle
  <2>2. arg'[t] \in Steps /\ \A u \in Clients \ {t} : arg'[u] = arg[u] /\ lockOf'[u] = lockOf[u]
    BY <1>1, <1>3 DEF StartUndo, LocalTypes
  <2>. QED
    BY <1>3, <2>1, <2>2, GoesOn DEF StartUndo
<1>4. CASE StartScore(t)
  <2>1. "status" \notin dirty'[t] /\ "winner" \notin dirty'[t] /\ pc[t] = Idle
    BY <1>1, <1>4 DEF StartScore, Changed, Told, Idle
  <2>2. \A u \in Clients \ {t} : pos'[u] = pos[u]
    BY <1>1, <1>4 DEF StartScore, LocalTypes
  <2>3. writer' = writer \/ (writer' = t /\ "score" \in Ops)
    BY <1>4 DEF StartScore
  <2>. QED
    BY <1>4, <2>1, <2>2, <2>3, GoesOn DEF StartScore
<1>5. CASE StartHint(t)
  <2>1. dirty'[t] = {} /\ \A u \in Clients \ {t} : row'[u] = row[u] /\ dirty'[u] = dirty[u]
                                                   /\ lockOf'[u] = lockOf[u]
    BY <1>1, <1>5 DEF StartHint, Edit, LocalTypes
  <2>. QED
    BY <1>5, <2>1, GoesOn DEF StartHint
<1>. QED
  BY <1>2, <1>3, <1>4, <1>5

LEMMA ScoreEngineRecord ==
    ASSUME IInv, GameAssumption, RecordInv, NEW t \in Clients, ScoreEngine(t)
    PROVE  RecordInv'
<1>1. /\ LocalTypes /\ Changed(t) /\ Told(t) /\ pc[t] = "score_engine"
      /\ UNCHANGED <<exists, db, moves, cache>>
  BY OwnHandler, OwnParts DEF ScoreEngine
<1>2. dirty[t] \in SUBSET (Attributes \ {"status", "winner"})
  BY <1>1 DEF Changed, Told, LocalTypes
<1>3. CASE Answer(t, row[t], dirty[t])
  BY <1>1, <1>2, <1>3, AnswerRecord
<1>4. CASE /\ Goto(t, "score_wait") /\ lockOf' = [lockOf EXCEPT ![t] = lock]
           /\ UNCHANGED <<writer, live, row, dirty, pos, arg>>
  <2>1. \A u \in Clients \ {t} : lockOf'[u] = lockOf[u]
    BY <1>1, <1>4 DEF LocalTypes
  <2>. QED
    BY <1>1, <1>2, <1>4, <2>1, GoesOn DEF Waiting
<1>. QED
  BY <1>3, <1>4 DEF ScoreEngine

-----------------------------------------------------------------------------
(* Taking the lock.                                                        *)

(* While a game is active its one lock lets nobody in beside its holder.   *)
LEMMA LockAlone ==
    ASSUME IInv, NEW t \in Clients, pc[t] \in Waiting, LockFree(t), ~Over_(db)
    PROVE  \A u \in Clients : pc[u] \notin Critical
<1>1. \A u \in Clients : lockOf[u] = 0
  BY DEF IInv, HandlerInv, Sealed
<1>. QED
  BY <1>1 DEF LockFree, Waiting, Critical

(* With nobody in the critical section the state in hand is the record.    *)
LEMMA StateIsRecord ==
    ASSUME RecordInv, exists, \A u \in Clients : pc[u] \notin Critical
    PROVE  StateInHand = Replay(moves)
  BY DEF RecordInv, CacheMatchesDb, StateInHand, Critical

(* Each field of a flushed row comes from the copy if it is dirty.         *)
LEMMA FlushFields ==
    ASSUME IInv, NEW t \in Clients, pc[t] # Closed
    PROVE  /\ Flush(t).status = IF "status" \in dirty[t] THEN row[t].status ELSE db.status
           /\ Flush(t).winner = IF "winner" \in dirty[t] THEN row[t].winner ELSE db.winner
           /\ Flush(t).undo_count
                  = IF "undo_count" \in dirty[t] THEN row[t].undo_count ELSE db.undo_count
           /\ Flush(t).move_count
                  = IF "move_count" \in dirty[t] THEN row[t].move_count ELSE db.move_count
<1>1. row[t] \in Rows /\ db \in Rows
  BY DEF IInv, HandlerInv, Loaded, TypeOK
<1>. QED
  BY <1>1 DEF Flush, Over, Rows

(* A move of the side to move keeps the colours alternating.               *)
LEMMA AppendAlternates ==
    ASSUME GameAssumption, NEW q \in Seq(Move), NEW m \in Move, Alternates(q), m.color = ToMove(q)
    PROVE  Alternates(Append(q, m))
<1>. DEFINE p == Append(q, m)
<1>1. /\ Len(q) \in Nat /\ DOMAIN q = 1..Len(q) /\ DOMAIN p = 1..(Len(q) + 1)
      /\ p[Len(q) + 1] = m /\ \A n \in 1..Len(q) : p[n] = q[n]
  OBVIOUS
<1>2. m.color = IF (Len(q) + 1) % 2 = 1 THEN FirstColor ELSE Opponent(FirstColor)
  <2>1. CASE q = <<>>
    <3>1. Len(q) = 0
      BY <2>1
    <3>. QED
      BY <2>1, <3>1 DEF ToMove
  <2>2. CASE q # <<>>
    <3>1. Len(q) \in 1..Len(q)
      BY <1>1, <2>2
    <3>2. q[Len(q)].color = IF Len(q) % 2 = 1 THEN FirstColor ELSE Opponent(FirstColor)
      BY <1>1, <3>1 DEF Alternates
    <3>3. (Len(q) + 1) % 2 = 1 <=> Len(q) % 2 # 1
      BY <1>1
    <3>4. Opponent(Opponent(FirstColor)) = FirstColor
      BY DEF Opponent, GameAssumption, Colors
    <3>. QED
      BY <2>2, <3>2, <3>3, <3>4 DEF ToMove
  <2>. QED
    BY <2>1, <2>2
<1>3. ASSUME NEW n \in DOMAIN p
      PROVE  p[n].color = IF n % 2 = 1 THEN FirstColor ELSE Opponent(FirstColor)
  <2>1. CASE n = Len(q) + 1
    BY <1>1, <1>2, <2>1
  <2>2. CASE n # Len(q) + 1
    <3>1. n \in 1..Len(q)
      BY <1>1, <2>2
    <3>. QED
      BY <1>1, <3>1 DEF Alternates
  <2>. QED
    BY <2>1, <2>2
<1>. QED
  BY <1>3 DEF Alternates

(* A replay of the record, entry by entry.                                 *)
LEMMA RecordReplay ==
    ASSUME IInv, exists
    PROVE  /\ db.move_count \in Nat
           /\ DOMAIN moves = 1..db.move_count
           /\ Replay(moves) = [i \in 1..db.move_count |-> moves[i]]
           /\ Replay(moves) \in Positions /\ Len(Replay(moves)) = db.move_count
<1>1. db.move_count \in Nat /\ DOMAIN moves = 1..db.move_count
  BY DEF IInv, TypeOK, Rows, Contiguous
<1>2. \A i \in 1..db.move_count : moves[i] \in Move
  BY <1>1 DEF IInv, TypeOK
<1>3. Replay(moves) = [i \in 1..db.move_count |-> moves[i]] /\ Replay(moves) \in Positions
  BY <1>1, <1>2, ReplayOfInterval
<1>4. Len(Replay(moves)) = db.move_count
  <2>1. DOMAIN Replay(moves) = 1..db.move_count
    BY <1>3
  <2>. QED
    BY <1>1, <1>3, <2>1, LenProperties DEF Positions
<1>. QED
  BY <1>1, <1>3, <1>4

LEMMA LockMoveRecord ==
    ASSUME IInv, GameAssumption, RecordInv, NEW t \in Clients, LockMove(t)
    PROVE  RecordInv'
<1>. DEFINE r == Refreshed(t)
<1>1. /\ LocalTypes /\ StoreTypes /\ Loaded(t) /\ pc[t] = "move_wait" /\ LockFree(t)
      /\ UNCHANGED <<exists, db, moves, lock, crashes>>
  BY OwnHandler DEF LockMove
<1>2. /\ r \in Rows /\ pc[t] \in Waiting
      /\ StillDirty(t) \in SUBSET (Attributes \ {"undo_count", "status"})
      /\ r.status = "active" => ~Over_(db) /\ writer # t /\ r = db /\ StillDirty(t) = {}
  BY <1>1, RefreshSafe DEF Waiting, Over_
<1>3. "winner" \notin StillDirty(t)
  <2>1. Told(t) /\ Changed(t)
    BY OwnHandler, OwnParts
  <2>. QED
    BY <1>1, <2>1 DEF Told, Changed, StillDirty
<1>4. Calm /\ (Over_(db) => Over_(db')) /\ DecidedBy(t) /\ ("delete" \in Ops \/ exists')
      /\ pc[t] \notin {"move_cache", "undo_commit", "resign_commit"}
  BY <1>1 DEF Calm, Over_, DecidedBy, RecordInv
<1>. HIDE DEF r
<1>5. CASE Shut(t) /\ UNCHANGED cache
  BY <1>4, <1>5, ShutRecord
<1>6. CASE Answer(t, r, StillDirty(t)) /\ UNCHANGED cache
  BY <1>1, <1>2, <1>3, <1>6, AnswerRecord
<1>7. ASSUME exists, r.status = "active"
      PROVE  StateInHand = Replay(moves) /\ \A u \in Clients : pc[u] \notin Critical
  BY <1>1, <1>2, <1>7, LockAlone, StateIsRecord
<1>8. CASE exists /\ r.status = "active" /\ cache' = StateInHand /\ Answer(t, r, StillDirty(t))
  <2>1. Own(t)' /\ Enters(t) /\ \A u \in Clients \ {t} : Unmoved(u)
    <3>1. Reply(t, r, StillDirty(t)) /\ writer' \in {writer, None}
          /\ StillDirty(t) \in SUBSET (Attributes \ {"status", "winner"})
      BY <1>2, <1>3, <1>8 DEF Answer
    <3>. QED
      BY <1>4, <3>1, ReplyOwn
  <2>2. cache' = Replay(moves) /\ \A u \in Clients \ {t} : pc[u] \notin Holding
    BY <1>7, <1>8 DEF Holding
  <2>. QED
    BY <1>4, <2>1, <2>2, CalmKeeps
<1>9. CASE /\ exists /\ r.status = "active"
           /\ cache' = StateInHand
           /\ ToMove(StateInHand) = UserColor
           /\ Goto(t, "move_engine")
           /\ pos' = [pos EXCEPT ![t] = Append(StateInHand,
                          [color |-> UserColor, coord |-> arg[t]])]
           /\ Edit(t, [r EXCEPT !.move_count = @ + 1], StillDirty(t) \cup {"move_count"})
           /\ UNCHANGED <<writer, live, arg, lockOf>>
  <2>. DEFINE m == [color |-> UserColor, coord |-> arg[t]]
  <2>1. cache' = Replay(moves) /\ StateInHand = Replay(moves)
        /\ \A u \in Clients : pc[u] \notin Critical
    BY <1>7, <1>9
  <2>2. /\ db.move_count \in Nat
        /\ Replay(moves) = [i \in 1..db.move_count |-> moves[i]]
        /\ Replay(moves) \in Seq(Move) /\ Len(Replay(moves)) = db.move_count
        /\ DOMAIN moves = 1..db.move_count
    BY <1>9, RecordReplay DEF Positions
  <2>3. m \in Move /\ m.color = UserColor
    BY <1>1 DEF Loaded, Move, GameAssumption
  <2>4. Alternates(Replay(moves))
    BY <1>9, <2>2 DEF Alternates, RecordInv, ReplayLegal
  <2>5. /\ pc'[t] = "move_engine" /\ dirty'[t] = {"move_count"}
        /\ row'[t] = [db EXCEPT !.move_count = @ + 1]
        /\ pos'[t] = Append(Replay(moves), m) /\ writer' # t
        /\ \A u \in Clients \ {t} : Untouched(u)
    BY <1>1, <1>2, <1>9, <2>1 DEF LocalTypes, Goto, Edit, Untouched
  <2>. HIDE DEF m
  <2>6. Alternates(pos'[t])
    <3>. PICK q \in Seq(Move) : q = Replay(moves)
      BY <2>2
    <3>1. m.color = ToMove(q)
      BY <1>9, <2>1, <2>3
    <3>2. Alternates(Append(q, m))
      BY <2>3, <2>4, <3>1, AppendAlternates
    <3>. QED
      BY <2>5, <3>2
  <2>7. /\ Len(pos'[t]) = db.move_count + 1
        /\ \A n \in 1..db.move_count : pos'[t][n] = moves[n]
    <3>. PICK q \in Seq(Move) : q = Replay(moves)
      BY <2>2
    <3>1. Len(Append(q, m)) = Len(q) + 1 /\ \A n \in 1..Len(q) : Append(q, m)[n] = q[n]
      BY <2>3
    <3>. QED
      BY <2>2, <2>5, <3>1
  <2>8. row'[t].move_count = db.move_count + 1
    BY <1>1, <2>5 DEF StoreTypes, Rows
  <2>9. Own(t)'
    <3>1. Alternates(pos[t])'
      BY <2>6 DEF Alternates
    <3>2. Held(t)'
      BY <1>1, <2>5, <2>7, <2>8, <3>1 DEF Held
    <3>3. Asked(t)' /\ Told(t)' /\ Undone(t)' /\ Brief(t)' /\ Deciding(t)'
      BY <1>1, <1>2, <1>9, <2>5 DEF Asked, Told, Undone, Brief, Deciding, Over_
    <3>. QED
      BY <3>2, <3>3 DEF Own
  <2>10. (\A u \in Clients \ {t} : Unmoved(u)) /\ Enters(t)
         /\ \A u \in Clients \ {t} : pc[u] \notin Holding
    BY <1>9, <2>1, <2>5 DEF Unmoved, Enters, Holding
  <2>. QED
    BY <1>4, <2>1, <2>9, <2>10, CalmKeeps
<1>. QED
  BY <1>5, <1>6, <1>8, <1>9 DEF LockMove, r

LEMMA LockUndoRecord ==
    ASSUME IInv, GameAssumption, RecordInv, NEW t \in Clients, LockUndo(t)
    PROVE  RecordInv'
<1>. DEFINE r == Refreshed(t)
<1>1. /\ LocalTypes /\ Asked(t) /\ Told(t) /\ Changed(t) /\ pc[t] = "undo_wait" /\ LockFree(t)
      /\ UNCHANGED <<exists, db, moves, cache, lock, crashes>>
  BY OwnHandler, OwnParts DEF LockUndo
<1>2. /\ pc[t] \in Waiting
      /\ StillDirty(t) \in SUBSET (Attributes \ {"status", "winner"})
      /\ r.status = "active" => ~Over_(db) /\ writer # t /\ r = db /\ StillDirty(t) = {}
  BY <1>1, RefreshSafe DEF Waiting, Over_, Told, Changed, StillDirty
<1>3. Calm /\ (Over_(db) => Over_(db')) /\ DecidedBy(t) /\ ("delete" \in Ops \/ exists')
  BY <1>1 DEF Calm, Over_, DecidedBy, RecordInv
<1>. HIDE DEF r
<1>4. CASE Shut(t)
  BY <1>1, <1>3, <1>4, ShutRecord
<1>5. CASE Answer(t, r, StillDirty(t))
  BY <1>1, <1>2, <1>5, AnswerRecord
<1>6. CASE /\ exists /\ MayUndo(r) /\ Edit(t, r, StillDirty(t)) /\ Goto(t, "undo_flush")
           /\ UNCHANGED <<writer, live, pos, arg, lockOf>>
  <2>1. r = db /\ writer # t /\ StillDirty(t) = {} /\ moves # <<>>
        /\ \A u \in Clients : pc[u] \notin Critical
    BY <1>1, <1>2, <1>6, LockAlone DEF MayUndo
  <2>2. db.move_count > 0
    <3>1. db.move_count \in Nat /\ DOMAIN moves = 1..db.move_count
      BY <1>6, RecordReplay
    <3>2. CASE db.move_count = 0
      <4>1. DOMAIN moves = {} /\ moves = [n \in DOMAIN moves |-> moves[n]]
        BY <1>6, <3>1, <3>2 DEF RecordInv
      <4>2. moves = <<>>
        BY <4>1
      <4>. QED
        BY <2>1, <4>2
    <3>. QED
      BY <3>1, <3>2
  <2>3. /\ pc'[t] = "undo_flush" /\ dirty'[t] = {} /\ row'[t] = db /\ arg'[t] = arg[t]
        /\ \A u \in Clients \ {t} : Untouched(u)
    BY <1>1, <1>6, <2>1 DEF LocalTypes, Goto, Edit, Untouched
  <2>4. Own(t)'
    BY <1>1, <1>2, <1>6, <2>1, <2>2, <2>3 DEF Own, Asked, Told, Held, Undone, Brief, Deciding, MayUndo, Over_
  <2>5. (\A u \in Clients \ {t} : Unmoved(u)) /\ Enters(t)
    BY <1>6, <2>1, <2>3 DEF Unmoved, Enters
  <2>. QED
    BY <1>1, <2>4, <2>5, StillRecord
<1>. QED
  BY <1>4, <1>5, <1>6 DEF LockUndo, r

LEMMA LockHintRecord ==
    ASSUME IInv, GameAssumption, RecordInv, NEW t \in Clients, LockHint(t)
    PROVE  RecordInv'
<1>1. /\ LocalTypes /\ Asked(t) /\ Told(t) /\ Brief(t) /\ pc[t] = "hint_wait" /\ LockFree(t)
      /\ UNCHANGED <<exists, db, moves, cache, writer>>
      /\ UNCHANGED <<row, dirty, pos, arg, lockOf>> /\ Goto(t, "hint_engine")
  BY OwnHandler, OwnParts DEF LockHint, store, memory
<1>2. /\ pc'[t] = "hint_engine" /\ \A u \in Clients \ {t} : Untouched(u)
  BY <1>1 DEF LocalTypes, Goto, Untouched
<1>3. Own(t)'
  BY <1>1, <1>2 DEF Own, Asked, Told, Held, Undone, Brief, Deciding, Deciders
<1>4. \A u \in Clients \ {t} : Unmoved(u)
  BY <1>1, <1>2 DEF Unmoved
<1>5. Enters(t)
  BY <1>1, <1>2, LockAlone DEF Enters, Waiting, Over_
<1>. QED
  BY <1>1, <1>3, <1>4, <1>5, StillRecord

(* A handler that edits its row on the way to a commit at l.               *)
LEMMA EditRecord ==
    ASSUME IInv, GameAssumption, RecordInv, NEW t \in Clients, NEW r, NEW changed,
           NEW l \in {"move_streak", "move_end", "score_commit"},
           pc[t] \in {"move_post", "move_streak", "score_wait"}, Goto(t, l), Edit(t, r, changed),
           UNCHANGED <<pos, arg, lockOf, exists, moves, cache>>, writer' \in {writer, None},
           Calm, Over_(db') <=> Over_(db),
           IF l = "move_streak" THEN changed = {"loss_streak"}
           ELSE changed = EndFields /\ r.winner \in {"user", "ai"},
           pc[t] = "score_wait" => ~Over_(db) /\ \A u \in Clients : pc[u] \notin Critical
    PROVE  RecordInv'
<1>1. LocalTypes /\ Brief(t) /\ Deciding(t)
  BY OwnHandler, OwnParts
<1>2. /\ pc'[t] = l /\ row'[t] = r /\ dirty'[t] = changed
      /\ \A u \in Clients \ {t} : Untouched(u)
  BY <1>1 DEF LocalTypes, Goto, Edit, Untouched
<1>3. Asked(t)' /\ Told(t)' /\ Held(t)' /\ Undone(t)'
  BY <1>2 DEF Asked, Told, Held, Undone, EndFields
<1>4. Brief(t)' /\ Deciding(t)'
  BY <1>1, <1>2 DEF Brief, Deciding, Deciders, GameAssumption, LocksOnly, Over_
<1>5. \A u \in Clients \ {t} : Unmoved(u)
  BY <1>2 DEF Unmoved, GameAssumption
<1>6. Enters(t) /\ DecidedBy(t) /\ ("delete" \in Ops \/ exists')
  BY <1>2 DEF Enters, DecidedBy, Holding, Critical, RecordInv
<1>. QED
  BY <1>3, <1>4, <1>5, <1>6, CalmKeeps DEF Own

LEMMA LockScoreRecord ==
    ASSUME IInv, GameAssumption, RecordInv, NEW t \in Clients, LockScore(t)
    PROVE  RecordInv'
<1>. DEFINE r == Refreshed(t)
<1>1. /\ LocalTypes /\ Told(t) /\ Changed(t) /\ pc[t] = "score_wait" /\ LockFree(t)
      /\ UNCHANGED <<exists, db, moves, cache, lock, crashes>>
  BY OwnHandler, OwnParts DEF LockScore
<1>2. /\ r \in Rows /\ pc[t] \in Waiting
      /\ StillDirty(t) \in SUBSET (Attributes \ {"status", "winner"})
      /\ r.status = "active" => ~Over_(db) /\ StillDirty(t) = {}
  BY <1>1, RefreshSafe DEF Waiting, Over_, Told, Changed, StillDirty
<1>3. Calm /\ (Over_(db) <=> Over_(db')) /\ DecidedBy(t) /\ ("delete" \in Ops \/ exists')
  BY <1>1 DEF Calm, Over_, DecidedBy, RecordInv
<1>. HIDE DEF r
<1>4. CASE Shut(t)
  BY <1>1, <1>3, <1>4, ShutRecord
<1>5. CASE Answer(t, r, StillDirty(t))
  BY <1>1, <1>2, <1>5, AnswerRecord
<1>6. ASSUME NEW w \in {"user", "ai"}, r.status = "active",
             Edit(t, Ended(r, "finished", w, pos[t]), StillDirty(t) \cup EndFields),
             Goto(t, "score_commit"), UNCHANGED <<writer, live, pos, arg, lockOf>>
      PROVE  RecordInv'
  <2>1. StillDirty(t) \cup EndFields = EndFields /\ ~Over_(db)
        /\ \A u \in Clients : pc[u] \notin Critical
    BY <1>1, <1>2, <1>6, LockAlone
  <2>2. Ended(r, "finished", w, pos[t]).winner = w
    BY <1>2 DEF Ended, Rows
  <2>. QED
    BY <1>1, <1>3, <1>6, <2>1, <2>2, EditRecord
<1>. QED
  BY <1>4, <1>5, <1>6 DEF LockScore, r

LEMMA MovePostRecord ==
    ASSUME IInv, GameAssumption, RecordInv, NEW t \in Clients, MovePost(t)
    PROVE  RecordInv'
<1>1. /\ Loaded(t) /\ pc[t] = "move_post" /\ UNCHANGED <<exists, db, moves, cache, lock, crashes>>
  BY OwnHandler DEF MovePost
<1>2. row[t] \in Rows
  BY <1>1 DEF Loaded, Closed
<1>3. Calm /\ (Over_(db) <=> Over_(db'))
  BY <1>1 DEF Calm, Over_
<1>. DEFINE Rest == UNCHANGED <<pos, arg, lockOf, writer, live>>
<1>4. CASE Answer(t, row[t], {})
  BY <1>1, <1>4, AnswerRecord
<1>5. ASSUME NEW r, Edit(t, r, {"loss_streak"}), Goto(t, "move_streak"), Rest
      PROVE  RecordInv'
  BY <1>1, <1>3, <1>5, EditRecord
<1>6. ASSUME NEW s, NEW w \in {"user", "ai"},
             Edit(t, Ended(row[t], s, w, pos[t]), EndFields), Goto(t, "move_end"), Rest
      PROVE  RecordInv'
  <2>1. Ended(row[t], s, w, pos[t]).winner = w
    BY <1>2 DEF Ended, Rows
  <2>. QED
    BY <1>1, <1>3, <1>6, <2>1, EditRecord
<1>7. CASE \E r : Edit(t, r, {"loss_streak"}) /\ Goto(t, "move_streak") /\ Rest
  BY <1>5, <1>7
<1>8. CASE \E s : \E w \in {"user", "ai"} :
              Edit(t, Ended(row[t], s, w, pos[t]), EndFields) /\ Goto(t, "move_end") /\ Rest
  BY <1>6, <1>8
<1>. QED
  BY <1>4, <1>7, <1>8 DEF MovePost

LEMMA MoveStreakRecord ==
    ASSUME IInv, GameAssumption, RecordInv, NEW t \in Clients, MoveStreak(t)
    PROVE  RecordInv'
<1>1. /\ Loaded(t) /\ Changed(t) /\ pc[t] = "move_streak"
      /\ db' = Flush(t) /\ writer' = None /\ UNCHANGED <<exists, moves, cache, lock, crashes>>
  BY OwnHandler DEF MoveStreak
<1>2. /\ "move_count" \notin dirty[t] /\ "undo_count" \notin dirty[t] /\ "status" \notin dirty[t]
      /\ row[t] \in Rows
  BY <1>1 DEF Changed, Loaded, Waiting, WritePhase, Idle, Closed
<1>3. Calm /\ (Over_(db) <=> Over_(db')) /\ DecidedBy(t) /\ ("delete" \in Ops \/ exists')
  BY <1>1, <1>2, FlushFields DEF Calm, Over_, Closed, DecidedBy, RecordInv
<1>4. CASE /\ Edit(t, Ended(row[t], "resigned", "user", pos[t]), EndFields)
           /\ Goto(t, "move_end") /\ UNCHANGED <<live, pos, arg, lockOf>>
  <2>1. Ended(row[t], "resigned", "user", pos[t]).winner = "user"
    BY <1>2 DEF Ended, Rows
  <2>. QED
    BY <1>1, <1>3, <1>4, <2>1, EditRecord DEF EndFields
<1>5. CASE Reply(t, row[t], {})
  BY <1>1, <1>3, <1>5, ReplyRecord
<1>. QED
  BY <1>4, <1>5 DEF MoveStreak

-----------------------------------------------------------------------------
(* A round of place_move.                                                  *)

LEMMA MoveEngineRecord ==
    ASSUME IInv, GameAssumption, RecordInv, NEW t \in Clients, MoveEngine(t)
    PROVE  RecordInv'
<1>. DEFINE Round(p, r, changed) ==
                /\ pos' = [pos EXCEPT ![t] = p] /\ Edit(t, r, changed)
                /\ Goto(t, "move_commit") /\ UNCHANGED <<arg, lockOf, writer, live>>
<1>1. /\ LocalTypes /\ Loaded(t) /\ Changed(t) /\ Fits(t) /\ Told(t) /\ Held(t) /\ Brief(t)
      /\ Deciding(t) /\ pc[t] = "move_engine"
      /\ UNCHANGED <<exists, db, moves, cache, lock, crashes>>
  BY OwnHandler, OwnParts DEF MoveEngine
<1>2. /\ row[t] \in Rows /\ pos[t] \in Seq(Move) /\ dirty[t] \subseteq Attributes
      /\ pos[t] # <<>> /\ pos[t][Len(pos[t])].color = UserColor
      /\ UserColor # AiColor /\ AiColor = Opponent(UserColor)
      /\ "status" \notin dirty[t] /\ "winner" \notin dirty[t]
      /\ Alternates(pos[t])
  BY <1>1 DEF Loaded, Closed, LocalTypes, Positions, Fits, Changed, Told, Held, AiColor,
              Opponent, Colors, GameAssumption
<1>3. Calm /\ (Over_(db) => Over_(db')) /\ DecidedBy(t) /\ ("delete" \in Ops \/ exists')
  BY <1>1 DEF Calm, Over_, DecidedBy, RecordInv
<1>4. CASE Shut(t)
  BY <1>1, <1>3, <1>4, ShutRecord
<1>5. CASE Answer(t, row[t], dirty[t])
  <2>1. dirty[t] \in SUBSET (Attributes \ {"status", "winner"})
    BY <1>2
  <2>. QED
    BY <1>1, <1>5, <2>1, AnswerRecord
(* The round went through: p is what the user's position has become.      *)
<1>6. ASSUME NEW p \in Seq(Move), NEW r, NEW changed, Round(p, r, changed),
             p # <<>>, Alternates(p),
             exists => /\ Len(p) = r.move_count
                       /\ \A n \in 1..db.move_count : p[n] = moves[n],
             IF p[Len(p)].color = AiColor THEN r.status # "resigned" ELSE Over_(r),
             "winner" \in changed <=> "status" \in changed,
             "status" \in changed => r.winner \in {"user", "ai"}
      PROVE  RecordInv'
  <2>1. /\ pc'[t] = "move_commit" /\ row'[t] = r /\ dirty'[t] = changed /\ pos'[t] = p
        /\ writer' = writer /\ \A u \in Clients \ {t} : Untouched(u)
    BY <1>1, <1>6 DEF LocalTypes, Goto, Edit, Untouched
  <2>2. Held(t)'
    <3>1. Alternates(pos[t])'
      BY <1>6, <2>1 DEF Alternates
    <3>2. /\ pos'[t] # <<>>
          /\ IF pos'[t][Len(pos'[t])].color = AiColor THEN row'[t].status # "resigned"
             ELSE Over_(row'[t])
      BY <1>6, <2>1
    <3>3. exists' => /\ Len(pos'[t]) = row'[t].move_count
                     /\ \A n \in 1..db'.move_count : pos'[t][n] = moves'[n]
      BY <1>1, <1>6, <2>1
    <3>. QED
      BY <2>1, <3>1, <3>2, <3>3 DEF Held, Over_
  <2>3. Asked(t)' /\ Told(t)' /\ Undone(t)' /\ Brief(t)' /\ Deciding(t)'
    BY <1>1, <1>6, <2>1 DEF Asked, Told, Undone, Brief, Deciding, Deciders, Over_
  <2>4. (\A u \in Clients \ {t} : Unmoved(u)) /\ Enters(t)
    BY <1>1, <2>1 DEF Unmoved, Enters, Holding, Critical
  <2>. QED
    BY <1>1, <1>3, <2>2, <2>3, <2>4, StillRecord DEF Own
<1>7. pos = [pos EXCEPT ![t] = pos[t]]
  BY <1>1 DEF LocalTypes
<1>8. exists => /\ Len(pos[t]) = row[t].move_count /\ row[t].move_count = db.move_count + 1
                /\ db.move_count \in Nat /\ \A n \in 1..db.move_count : pos[t][n] = moves[n]
  BY <1>1, RecordReplay DEF Held, Fits
<1>. HIDE DEF Round
<1>9. ASSUME NEW s \in {"finished", "resigned"}, NEW w \in {"user", "ai"}, NEW g, NEW changed,
             Edit(t, Ended(row[t], s, w, g), changed),
             changed = dirty[t] \cup EndFields \/ changed = dirty[t] \cup {"status", "winner"},
             Goto(t, "move_commit"), UNCHANGED <<pos, arg, lockOf, writer, live>>
      PROVE  RecordInv'
  <2>. DEFINE e == Ended(row[t], s, w, g)
  <2>1. Round(pos[t], e, changed)
    BY <1>7, <1>9 DEF Round
  <2>2. e.move_count = row[t].move_count /\ e.winner = w /\ Over_(e)
    BY <1>2 DEF Ended, Rows, Over_
  <2>3. "winner" \in changed /\ "status" \in changed
    BY <1>9 DEF EndFields
  <2>. HIDE DEF e
  <2>. QED
    BY <1>2, <1>6, <1>8, <2>1, <2>2, <2>3
<1>10. ASSUME NEW c \in Coords, NEW w \in {"user", "ai"}, NEW p, NEW r,
              p = Append(pos[t], [color |-> AiColor, coord |-> c]),
              r = [row[t] EXCEPT !.move_count = @ + 1],
              pos' = [pos EXCEPT ![t] = p],
              IF IsGameOver(p) THEN Edit(t, Ended(r, "finished", w, p), dirty[t] \cup EndFields)
              ELSE Edit(t, r, dirty[t]),
              Goto(t, "move_commit"), UNCHANGED <<arg, lockOf, writer, live>>
       PROVE  RecordInv'
  <2>. DEFINE m == [color |-> AiColor, coord |-> c]
  <2>1. m \in Move /\ m.color = AiColor
    BY DEF Move, AiColor, Opponent, Colors
  <2>. HIDE DEF m
  <2>2. p = Append(pos[t], m)
    BY <1>10 DEF m
  <2>3. /\ p \in Seq(Move) /\ p # <<>> /\ p[Len(p)].color = AiColor
        /\ Len(p) = Len(pos[t]) + 1 /\ \A n \in 1..Len(pos[t]) : p[n] = pos[t][n]
    <3>1. p \in Seq(Move) /\ p # <<>> /\ p[Len(p)] = m
      BY <1>2, <2>1, <2>2, AppendLast
    <3>2. Len(p) = Len(pos[t]) + 1 /\ \A n \in 1..Len(pos[t]) : p[n] = pos[t][n]
      BY <1>2, <2>1, <2>2
    <3>. QED
      BY <2>1, <3>1, <3>2
  <2>4. Alternates(p)
    <3>1. m.color = ToMove(pos[t])
      BY <1>2, <2>1 DEF ToMove
    <3>. QED
      BY <1>2, <2>1, <2>2, <3>1, AppendAlternates
  <2>5. r.status = row[t].status /\ r.move_count = row[t].move_count + 1
        /\ Ended(r, "finished", w, p).move_count = r.move_count
        /\ Ended(r, "finished", w, p).winner = w
        /\ Ended(r, "finished", w, p).status = "finished"
    BY <1>2, <1>10 DEF Rows, Ended
  <2>6. row[t].status = "active"
    BY <1>1, <1>2 DEF Changed, Over_
  <2>7. exists => /\ Len(p) = r.move_count
                  /\ \A n \in 1..db.move_count : p[n] = moves[n]
    <3>. SUFFICES ASSUME exists
                  PROVE  /\ Len(p) = r.move_count
                         /\ \A n \in 1..db.move_count : p[n] = moves[n]
      OBVIOUS
    <3>1. Len(p) = r.move_count
      BY <1>8, <2>3, <2>5
    <3>2. ASSUME NEW n \in 1..db.move_count
          PROVE  p[n] = moves[n]
      <4>1. n \in 1..Len(pos[t])
        BY <1>8
      <4>. QED
        BY <1>8, <2>3, <4>1
    <3>. QED
      BY <3>1, <3>2
  <2>8. CASE IsGameOver(p)
    <3>1. Round(p, Ended(r, "finished", w, p), dirty[t] \cup EndFields)
      BY <1>10, <2>8 DEF Round
    <3>. QED
      BY <1>6, <2>3, <2>4, <2>5, <2>7, <3>1 DEF EndFields
  <2>9. CASE ~IsGameOver(p)
    <3>1. Round(p, r, dirty[t])
      BY <1>10, <2>9 DEF Round
    <3>. QED
      BY <1>2, <1>6, <2>3, <2>4, <2>5, <2>6, <2>7, <3>1
  <2>. QED
    BY <2>8, <2>9
<1>11. CASE /\ \E w \in {"user", "ai"} :
                  Edit(t, Ended(row[t], "finished", w, pos[t]), dirty[t] \cup EndFields)
             /\ Goto(t, "move_commit")
             /\ UNCHANGED <<pos, arg, lockOf, writer, live>>
  BY <1>9, <1>11
<1>12. CASE /\ Edit(t, Ended(row[t], "resigned", "user", row[t].sgf),
                     dirty[t] \cup {"status", "winner"})
            /\ Goto(t, "move_commit")
            /\ UNCHANGED <<pos, arg, lockOf, writer, live>>
  BY <1>9, <1>12
<1>13. CASE /\ \E c \in Coords, w \in {"user", "ai"} :
                  LET p == Append(pos[t], [color |-> AiColor, coord |-> c])
                      r == [row[t] EXCEPT !.move_count = @ + 1]
                  IN /\ pos' = [pos EXCEPT ![t] = p]
                     /\ IF IsGameOver(p)
                        THEN Edit(t, Ended(r, "finished", w, p), dirty[t] \cup EndFields)
                        ELSE Edit(t, r, dirty[t])
            /\ Goto(t, "move_commit")
            /\ UNCHANGED <<arg, lockOf, writer, live>>
  BY <1>10, <1>13
<1>. QED
  BY <1>4, <1>5, <1>11, <1>12, <1>13 DEF MoveEngine

(* Intervals with one end in common.                                       *)
LEMMA SameEnd ==
    ASSUME NEW a \in Int, NEW b \in Int, NEW n \in Int, a <= n, a..n = b..n
    PROVE  a = b
<1>1. a \in b..n /\ b <= n
  OBVIOUS
<1>2. b \in a..n
  BY <1>1
<1>. QED
  BY <1>1, <1>2

LEMMA SameStart ==
    ASSUME NEW a \in Nat, NEW b \in Nat, 1..a = 1..b
    PROVE  a = b
<1>1. a > 0 => a \in 1..b
  OBVIOUS
<1>2. b > 0 => b \in 1..a
  OBVIOUS
<1>. QED
  BY <1>1, <1>2

(* What the commit of a round leaves behind: the table is the handler's    *)
(* position, longer by the user's move and, unless the game is over, the   *)
(* AI's.                                                                   *)
LEMMA RoundCommitted ==
    ASSUME IInv, GameAssumption, RecordInv, NEW t \in Clients, MoveCommit(t)
    PROVE  /\ exists /\ exists' /\ db.move_count \in Nat
           /\ pos[t] \in Seq(Move) /\ pos[t] # <<>> /\ Alternates(pos[t])
           /\ moves' = pos[t] /\ Replay(moves)' = pos[t]
           /\ db'.move_count = Len(pos[t])
           /\ \A n \in 1..db.move_count : pos[t][n] = moves[n]
           /\ IF pos[t][Len(pos[t])].color = AiColor
              THEN Len(pos[t]) = db.move_count + 2 /\ row[t].status # "resigned"
              ELSE Len(pos[t]) = db.move_count + 1 /\ Over_(row[t])
           /\ "status" \in dirty[t] <=> Over_(row[t])
           /\ "winner" \in dirty[t] <=> "status" \in dirty[t]
           /\ "undo_count" \notin dirty[t]
<1>1. /\ LocalTypes /\ Loaded(t) /\ Changed(t) /\ Fits(t) /\ Held(t) /\ Told(t)
      /\ pc[t] = "move_commit" /\ exists /\ exists' /\ db' = Flush(t)
      /\ moves' = Insert(moves, NewRows(t))
  BY OwnHandler, OwnParts DEF MoveCommit, Commit, CanWrite
<1>2. /\ db.move_count \in Nat /\ DOMAIN moves = 1..db.move_count
      /\ row[t] \in Rows /\ row[t].move_count \in Nat /\ pos[t] \in Seq(Move)
  BY <1>1, RecordReplay DEF Loaded, Closed, LocalTypes, Positions, Rows
<1>. DEFINE n == row[t].move_count
            k == IF pos[t][Len(pos[t])].color = AiColor THEN 2 ELSE 1
<1>3. /\ n = Len(pos[t]) /\ db.move_count < n /\ DOMAIN NewRows(t) = (db.move_count + 1)..n
      /\ \A i \in 1..db.move_count : pos[t][i] = moves[i]
      /\ pos[t] # <<>> /\ Alternates(pos[t])
      /\ IF pos[t][Len(pos[t])].color = AiColor THEN row[t].status # "resigned"
         ELSE Over_(row[t])
  BY <1>1 DEF Fits, Held
<1>4. NewRows(t) = [i \in (n - k + 1)..n |-> pos[t][Len(pos[t]) - n + i]]
  BY DEF NewRows
<1>5. n - k + 1 = db.move_count + 1
  <2>1. (n - k + 1)..n = (db.move_count + 1)..n
    BY <1>3, <1>4
  <2>2. db.move_count + 1 \in Int /\ db.move_count + 1 <= n /\ n - k + 1 \in Int /\ n \in Int
    BY <1>2, <1>3
  <2>. HIDE DEF n, k
  <2>3. \A a, b \in Int : a <= n /\ a..n = b..n => a = b
    BY <2>2, SameEnd
  <2>. QED
    BY <2>1, <2>2, <2>3
<1>6. moves' = pos[t]
  <2>1. moves' = [i \in 1..db.move_count \cup (db.move_count + 1)..n |->
                     IF i \in (db.move_count + 1)..n THEN NewRows(t)[i] ELSE moves[i]]
    BY <1>1, <1>2, <1>3 DEF Insert
  <2>2. 1..db.move_count \cup (db.move_count + 1)..n = 1..n
    BY <1>2, <1>3
  <2>3. \A i \in (db.move_count + 1)..n : NewRows(t)[i] = pos[t][i]
    <3>1. \A i \in (n - k + 1)..n : NewRows(t)[i] = pos[t][Len(pos[t]) - n + i]
      BY <1>4
    <3>. HIDE DEF n, k
    <3>2. ASSUME NEW i \in (db.move_count + 1)..n
          PROVE  NewRows(t)[i] = pos[t][i]
      <4>1. NewRows(t)[i] = pos[t][Len(pos[t]) - n + i]
        BY <1>5, <3>1
      <4>2. Len(pos[t]) - n + i = i
        BY <1>2, <1>3
      <4>. QED
        BY <4>1, <4>2
    <3>. QED
      BY <3>2
  <2>4. pos[t] = [i \in 1..n |-> pos[t][i]]
    BY <1>2, <1>3
  <2>. HIDE DEF n
  <2>5. \A i \in 1..n : (IF i \in (db.move_count + 1)..n THEN NewRows(t)[i] ELSE moves[i]) = pos[t][i]
    BY <1>2, <1>3, <2>2, <2>3
  <2>6. moves' = [i \in 1..n |-> pos[t][i]]
    BY <2>1, <2>2, <2>5
  <2>. QED
    BY <2>4, <2>6
<1>7. Replay(moves)' = pos[t]
  <2>1. Replay(moves)' = Replay(pos[t])
    BY <1>6 DEF Replay, Rank
  <2>2. DOMAIN pos[t] = 1..n /\ \A i \in 1..n : pos[t][i] \in Move
    BY <1>2, <1>3
  <2>3. pos[t] = [i \in 1..n |-> pos[t][i]]
    BY <1>2, <1>3
  <2>. HIDE DEF n
  <2>4. Replay(pos[t]) = [i \in 1..n |-> pos[t][i]]
    BY <1>2, <2>2, ReplayOfInterval DEF n
  <2>. QED
    BY <2>1, <2>3, <2>4
<1>8. db'.move_count = n
  BY <1>1, FlushFields DEF Changed, Closed
<1>9. IF pos[t][Len(pos[t])].color = AiColor THEN Len(pos[t]) = db.move_count + 2
      ELSE Len(pos[t]) = db.move_count + 1
  <2>1. k = IF pos[t][Len(pos[t])].color = AiColor THEN 2 ELSE 1
    OBVIOUS
  <2>2. n \in Int /\ k \in Int
    BY <1>2
  <2>. HIDE DEF n, k
  <2>3. n = db.move_count + k
    BY <1>2, <1>5, <2>2
  <2>. QED
    BY <1>3, <2>1, <2>3
<1>10. /\ "status" \in dirty[t] <=> Over_(row[t])
       /\ "winner" \in dirty[t] <=> "status" \in dirty[t]
       /\ "undo_count" \notin dirty[t]
  BY <1>1 DEF Changed, Told
<1>. HIDE DEF n, k
<1>11. db'.move_count = Len(pos[t])
  BY <1>3, <1>8
<1>. QED
  BY <1>1, <1>2, <1>3, <1>6, <1>7, <1>9, <1>10, <1>11

LEMMA MoveCommitRecord ==
    ASSUME IInv, GameAssumption, RecordInv, NEW t \in Clients, MoveCommit(t), Safe
    PROVE  RecordInv'
<1>1. /\ LocalTypes /\ pc[t] = "move_commit" /\ db' = Flush(t) /\ writer' = None
      /\ dirty' = [dirty EXCEPT ![t] = {}] /\ Goto(t, "move_cache")
      /\ UNCHANGED <<exists, cache, row, pos, arg, lockOf>> /\ Deciding(t)
  BY OwnHandler, OwnParts DEF MoveCommit, Commit, memory
<1>2. /\ pc'[t] = "move_cache" /\ dirty'[t] = {} /\ row'[t] = row[t] /\ pos'[t] = pos[t]
      /\ writer' # t /\ \A u \in Clients \ {t} : Untouched(u)
  BY <1>1 DEF LocalTypes, Goto, Untouched, GameAssumption
<1>3. (\A u \in Clients \ {t} : Unmoved(u)) /\ Enters(t) /\ (Over_(db) => Over_(db'))
  BY <1>1, <1>2 DEF Unmoved, Enters, Holding, Critical, GameAssumption, Safe
<1>4. /\ exists /\ db.move_count \in Nat /\ moves' = pos[t] /\ Replay(moves)' = pos[t]
      /\ pos[t] \in Seq(Move) /\ Alternates(pos[t]) /\ db'.move_count = Len(pos[t])
      /\ IF pos[t][Len(pos[t])].color = AiColor THEN Len(pos[t]) = db.move_count + 2
         ELSE Over_(row[t])
      /\ "status" \in dirty[t] <=> Over_(row[t])
  BY RoundCommitted
<1>5. ReplayLegal'
  BY <1>4 DEF ReplayLegal, Alternates
<1>6. CacheMatchesDb'
  BY <1>2 DEF CacheMatchesDb
<1>7. ~Over_(db') => ~Over_(row[t]) /\ ~Over_(db)
  <2>1. db'.status = IF "status" \in dirty[t] THEN row[t].status ELSE db.status
    BY <1>1, FlushFields DEF Closed
  <2>. QED
    BY <1>4, <2>1 DEF Over_
<1>8. Even'
  <2>. SUFFICES ASSUME WholeRounds, ~Over_(db')
                PROVE  db'.move_count % 2 = IF FirstColor = UserColor THEN 0 ELSE 1
    BY DEF Even, WholeRounds, Over_
  <2>1. /\ Len(pos[t]) = db.move_count + 2
        /\ db.move_count % 2 = IF FirstColor = UserColor THEN 0 ELSE 1
    BY <1>4, <1>7 DEF RecordInv, Even
  <2>. QED
    BY <1>4, <2>1
<1>9. Own(t)'
  <2>1. Deciding(t)'
    <3>1. ~Over_(row[t]) /\ ~Over_(db) => ~Over_(db')
      BY <1>1, <1>4, FlushFields DEF Over_, Closed
    <3>. QED
      BY <1>1, <1>2, <3>1 DEF Deciding, Deciders, Over_, LocksOnly
  <2>2. Held(t)'
    BY <1>2, <1>4 DEF Held
  <2>3. Asked(t)' /\ Told(t)' /\ Undone(t)' /\ Brief(t)'
    BY <1>2 DEF Asked, Told, Undone, Brief
  <2>. QED
    BY <2>1, <2>2, <2>3 DEF Own
<1>10. ASSUME NEW u \in Clients \ {t}
       PROVE  Own(u)'
  <2>1. pc[u] \notin Holding
    BY <1>1, HoldingAlone DEF Holding, Critical
  <2>. QED
    BY <1>3, <2>1, OthersOwn
<1>11. Alone' /\ ("delete" \in Ops \/ exists')
  BY <1>1, <1>3, AloneKeeps DEF RecordInv
<1>12. moves' = [n \in DOMAIN moves' |-> moves'[n]]
  BY <1>4
<1>. QED
  BY <1>5, <1>6, <1>8, <1>9, <1>10, <1>11, <1>12 DEF RecordInv

LEMMA MoveCacheRecord ==
    ASSUME IInv, GameAssumption, RecordInv, NEW t \in Clients, MoveCache(t)
    PROVE  RecordInv'
<1>1. /\ LocalTypes /\ pc[t] = "move_cache" /\ cache' = pos[t]
      /\ Goto(t, IF row[t].status = "active" THEN "move_post" ELSE "move_release")
      /\ UNCHANGED <<exists, db, moves, writer, row, dirty, pos, arg, lockOf>>
      /\ Asked(t) /\ Told(t) /\ Held(t) /\ Brief(t) /\ Deciding(t)
  BY OwnHandler, OwnParts DEF MoveCache, store
<1>2. /\ pc'[t] \in {"move_post", "move_release"} /\ (pc'[t] = "move_post" => ~Over_(row[t]))
      /\ \A u \in Clients \ {t} : Untouched(u)
  BY <1>1 DEF LocalTypes, Goto, Untouched, Over_
<1>3. (\A u \in Clients \ {t} : Unmoved(u)) /\ Enters(t)
  BY <1>1, <1>2 DEF Unmoved, Enters, Holding, Critical
<1>4. exists => cache' = Replay(moves) /\ Replay(moves)' = Replay(moves)
  BY <1>1, Steady DEF Held
<1>5. ReplayLegal' /\ Even' /\ CacheMatchesDb'
  BY <1>1, <1>4 DEF RecordInv, ReplayLegal, Even, CacheMatchesDb, Over_
<1>6. Own(t)'
  BY <1>1, <1>2 DEF Own, Asked, Told, Held, Undone, Brief, Deciding, Deciders, Over_
<1>7. ASSUME NEW u \in Clients \ {t}
      PROVE  Own(u)'
  <2>1. pc[u] \notin Holding
    BY <1>1, HoldingAlone DEF Holding, Critical
  <2>. QED
    BY <1>3, <2>1, OthersOwn
<1>8. Alone'
  BY <1>1, <1>3, AloneKeeps DEF Over_
<1>. QED
  BY <1>1, <1>5, <1>6, <1>7, <1>8 DEF RecordInv

-----------------------------------------------------------------------------
(* The end of a game, and what follows it.                                 *)

LEMMA EndCommitRecord ==
    ASSUME IInv, GameAssumption, RecordInv, NEW t \in Clients, NEW l \in Releasing, Safe,
           pc[t] \in {"move_end", "score_commit", "resign_commit"},
           l = "resign_release" <=> pc[t] = "resign_commit",
           l = "move_release" <=> pc[t] = "move_end",
           Commit(t, moves), Goto(t, l), UNCHANGED <<memory, row, pos, arg, lockOf, crashes>>
    PROVE  RecordInv'
<1>1. /\ LocalTypes /\ Changed(t) /\ Asked(t) /\ db' = Flush(t) /\ moves' = moves /\ exists /\ exists'
      /\ writer' = None /\ cache' = cache /\ dirty' = [dirty EXCEPT ![t] = {}]
      /\ UNCHANGED <<row, pos, arg, lockOf>>
  BY OwnHandler, OwnParts DEF Commit, CanWrite, memory
<1>2. "move_count" \notin dirty[t] /\ "undo_count" \notin dirty[t]
  BY <1>1 DEF Changed, Waiting, WritePhase, Idle
<1>3. Calm /\ (Over_(db) => Over_(db')) /\ DecidedBy(t) /\ ("delete" \in Ops \/ exists')
  BY <1>1, <1>2, FlushFields DEF Calm, Closed, DecidedBy, RecordInv, Asked, Holding, Critical, Safe
<1>4. /\ pc'[t] = l /\ dirty'[t] = {} /\ writer' # t /\ \A u \in Clients \ {t} : Untouched(u)
  BY <1>1 DEF LocalTypes, Goto, Untouched, GameAssumption
<1>5. (\A u \in Clients \ {t} : Unmoved(u)) /\ Enters(t)
  BY <1>1, <1>4 DEF Unmoved, Enters, Holding, Critical, GameAssumption, Releasing
<1>6. Own(t)'
  BY <1>1, <1>4 DEF Own, Asked, Told, Held, Undone, Brief, Deciding, Deciders, Releasing
<1>. QED
  BY <1>1, <1>3, <1>5, <1>6, CalmKeeps

LEMMA EndsRecord ==
    ASSUME IInv, GameAssumption, RecordInv, NEW t \in Clients, Safe,
           MoveEnd(t) \/ ScoreCommit(t) \/ ResignCommit(t)
    PROVE  RecordInv'
<1>1. CASE MoveEnd(t)
  BY <1>1, EndCommitRecord DEF MoveEnd, Releasing
<1>2. CASE ScoreCommit(t)
  BY <1>2, EndCommitRecord DEF ScoreCommit, Releasing
<1>3. CASE ResignCommit(t)
  BY <1>3, EndCommitRecord DEF ResignCommit, Releasing
<1>. QED
  BY <1>1, <1>2, <1>3

LEMMA ReleasesRecord ==
    ASSUME IInv, GameAssumption, RecordInv, NEW t \in Clients,
           MoveRelease(t) \/ ScoreRelease(t) \/ ResignRelease(t)
    PROVE  RecordInv'
<1>1. /\ UNCHANGED <<exists, db, moves>> /\ cache' = None
      /\ pc[t] \in {"move_release", "score_release", "resign_release"}
  BY DEF MoveRelease, ScoreRelease, ResignRelease, Release
<1>2. Calm /\ (Over_(db) => Over_(db')) /\ DecidedBy(t) /\ ("delete" \in Ops \/ exists')
  BY <1>1 DEF Calm, Over_, DecidedBy, RecordInv
<1>3. CASE Answer(t, row[t], {})
  BY <1>1, <1>3, AnswerRecord
<1>4. CASE Shut(t)
  BY <1>1, <1>2, <1>4, ShutRecord
<1>. QED
  BY <1>3, <1>4 DEF MoveRelease, ScoreRelease, ResignRelease

-----------------------------------------------------------------------------
(* undo_move.                                                              *)

LEMMA UndoFlushRecord ==
    ASSUME IInv, GameAssumption, RecordInv, NEW t \in Clients, UndoFlush(t)
    PROVE  RecordInv'
<1>1. /\ LocalTypes /\ Loaded(t) /\ Fits(t) /\ Changed(t)
      /\ Asked(t) /\ Told(t) /\ Undone(t) /\ Deciding(t)
      /\ pc[t] = "undo_flush" /\ exists /\ writer \in {None, t}
      /\ writer' = t /\ cache' = Shortened(t)
      /\ Edit(t, [row[t] EXCEPT !.move_count = @ - DeletedCount(t), !.undo_count = @ + 1],
              dirty[t] \cup {"move_count", "undo_count"})
      /\ Goto(t, "undo_commit") /\ UNCHANGED <<exists, db, moves, pos, arg, lockOf>>
  BY OwnHandler, OwnParts DEF UndoFlush, CanWrite
<1>2. /\ row[t] \in Rows /\ row[t].move_count = db.move_count /\ db.move_count > 0
      /\ row[t].undo_count = db.undo_count
      /\ arg[t] \in Nat \ {0} /\ db.move_count \in Nat /\ DOMAIN moves = 1..db.move_count
  BY <1>1, RecordReplay DEF Loaded, Closed, Fits, Undone, Asked, GameAssumption
<1>3. DeletedCount(t) \in Nat /\ DeletedCount(t) > 0
  <2>1. PICK j \in 0..db.move_count :
             /\ j = IF arg[t] <= db.move_count THEN db.move_count - arg[t] ELSE 0
             /\ DeletedCount(t) = db.move_count - j
    BY <1>2, UndoCutsShort
  <2>. QED
    BY <1>2, <2>1
<1>4. /\ pc'[t] = "undo_commit" /\ arg'[t] = arg[t]
      /\ dirty'[t] = dirty[t] \cup {"move_count", "undo_count"}
      /\ row'[t] = [row[t] EXCEPT !.move_count = @ - DeletedCount(t), !.undo_count = @ + 1]
      /\ \A u \in Clients \ {t} : Untouched(u)
  BY <1>1 DEF LocalTypes, Goto, Edit, Untouched
<1>5. /\ row'[t].undo_count = row[t].undo_count + 1
      /\ row'[t].move_count = row[t].move_count - DeletedCount(t)
      /\ row'[t].winner = row[t].winner
  BY <1>2, <1>4 DEF Rows
<1>6. (\A u \in Clients \ {t} : Unmoved(u)) /\ Enters(t)
  BY <1>1, <1>4 DEF Unmoved, Enters, Holding, Critical, GameAssumption
<1>7. Own(t)'
  <2>1. Shortened(t)' = Shortened(t)
    BY <1>1, <1>4, Steady
  <2>2. Undone(t)'
    BY <1>1, <1>2, <1>3, <1>4, <1>5, <2>1 DEF Undone
  <2>3. Asked(t)' /\ Told(t)' /\ Held(t)' /\ Brief(t)' /\ Deciding(t)'
    BY <1>1, <1>4, <1>5 DEF Asked, Told, Held, Brief, Deciding, Deciders, Over_
  <2>. QED
    BY <2>2, <2>3 DEF Own
<1>8. ASSUME NEW u \in Clients \ {t}
      PROVE  Own(u)'
  <2>1. pc[u] \notin Holding
    BY <1>1, HoldingAlone DEF Holding, Critical
  <2>. QED
    BY <1>6, <2>1, OthersOwn
<1>9. Alone' /\ CacheMatchesDb'
  BY <1>1, <1>4, <1>6, AloneKeeps DEF Over_, CacheMatchesDb
<1>. QED
  BY <1>1, <1>7, <1>8, <1>9 DEF RecordInv, ReplayLegal, Even, Over_

(* What the commit of an undo leaves behind: the first moves of the table, *)
(* as many as the steps asked for leave, and one undo more.                *)
LEMMA UndoCommitted ==
    ASSUME IInv, GameAssumption, RecordInv, NEW t \in Clients, UndoCommit(t)
    PROVE  /\ exists /\ exists' /\ db.move_count \in Nat /\ db.undo_count \in Nat
           /\ DOMAIN moves = 1..db.move_count /\ arg[t] \in Steps
           /\ moves' = Kept(t) /\ Replay(moves)' = Shortened(t)
           /\ \E j \in Nat : /\ j = IF arg[t] <= db.move_count THEN db.move_count - arg[t] ELSE 0
                             /\ DOMAIN moves' = 1..j /\ db'.move_count = j /\ j < db.move_count
           /\ db'.undo_count = db.undo_count + 1 /\ db'.undo_count <= UndoLimit
           /\ db'.status = db.status /\ db'.winner = db.winner
<1>1. /\ LocalTypes /\ StoreTypes /\ Loaded(t) /\ Fits(t) /\ Changed(t)
      /\ Asked(t) /\ Told(t) /\ Undone(t)
      /\ pc[t] = "undo_commit" /\ exists /\ exists' /\ db' = Flush(t) /\ moves' = Kept(t)
  BY OwnHandler, OwnParts DEF UndoCommit, CanWrite
<1>2. /\ row[t] \in Rows /\ row[t].move_count \in Nat /\ db.undo_count \in Nat
      /\ row[t].undo_count = db.undo_count + 1 /\ row[t].undo_count <= UndoLimit
      /\ row[t].move_count < db.move_count
      /\ arg[t] \in Nat /\ db.move_count \in Nat /\ DOMAIN moves = 1..db.move_count
      /\ DOMAIN Kept(t) = 1..row[t].move_count
  BY <1>1, RecordReplay DEF Loaded, Closed, Fits, Undone, Asked, GameAssumption, Rows, StoreTypes
<1>3. row[t].move_count = IF arg[t] <= db.move_count THEN db.move_count - arg[t] ELSE 0
  <2>1. PICK j \in 0..db.move_count :
             /\ j = IF arg[t] <= db.move_count THEN db.move_count - arg[t] ELSE 0
             /\ DOMAIN Kept(t) = 1..j
    BY <1>2, UndoCutsShort
  <2>. QED
    BY <1>2, <2>1, SameStart
<1>4. /\ "move_count" \in dirty[t] /\ "undo_count" \in dirty[t]
      /\ "status" \notin dirty[t] /\ "winner" \notin dirty[t]
  BY <1>1 DEF Changed, Told, Undone
<1>5. /\ db'.move_count = row[t].move_count /\ db'.undo_count = row[t].undo_count
      /\ db'.status = db.status /\ db'.winner = db.winner
  BY <1>1, <1>4, FlushFields DEF Closed
<1>6. Replay(moves)' = Shortened(t)
  BY <1>1 DEF Shortened, Replay, Rank
<1>. QED
  BY <1>1, <1>2, <1>3, <1>5, <1>6 DEF Asked

LEMMA UndoCommitRecord ==
    ASSUME IInv, GameAssumption, RecordInv, NEW t \in Clients, UndoCommit(t)
    PROVE  RecordInv'
<1>1. /\ pc[t] = "undo_commit" /\ writer' = None /\ Reply(t, row[t], {})
      /\ UNCHANGED <<exists, cache>> /\ Undone(t)
  BY OwnParts DEF UndoCommit
<1>2. Own(t)' /\ Enters(t) /\ \A u \in Clients \ {t} : Unmoved(u)
  BY <1>1, ReplyOwn DEF GameAssumption
<1>3. PICK j \in Nat : /\ j = IF arg[t] <= db.move_count THEN db.move_count - arg[t] ELSE 0
                       /\ DOMAIN moves' = 1..j /\ db'.move_count = j /\ j < db.move_count
  BY UndoCommitted
<1>4. /\ exists /\ exists' /\ moves' = Kept(t) /\ Replay(moves)' = Shortened(t)
      /\ db.move_count \in Nat /\ DOMAIN moves = 1..db.move_count /\ arg[t] \in Steps
      /\ db'.status = db.status
  BY UndoCommitted
<1>5. ReplayLegal' /\ moves' = [n \in DOMAIN moves' |-> moves'[n]]
  BY <1>4 DEF RecordInv, ReplayLegal, Kept
<1>6. CacheMatchesDb'
  BY <1>1, <1>4 DEF Undone, CacheMatchesDb
<1>7. Even'
  <2>. SUFFICES ASSUME WholeRounds, ~Over_(db)
                PROVE  j % 2 = IF FirstColor = UserColor THEN 0 ELSE 1
    BY <1>3, <1>4 DEF Even, WholeRounds, Over_
  <2>1. /\ FirstColor = UserColor /\ arg[t] % 2 = 0 /\ arg[t] \in Nat
        /\ db.move_count % 2 = 0
    BY <1>1, <1>4, OwnParts DEF RecordInv, Even, WholeRounds, GameAssumption, Asked
  <2>. QED
    BY <1>3, <1>4, <2>1
<1>8. ASSUME NEW u \in Clients \ {t}
      PROVE  Own(u)'
  <2>1. pc[u] \notin Holding
    BY <1>1, HoldingAlone DEF Holding, Critical
  <2>. QED
    BY <1>2, <2>1, OthersOwn
<1>9. Alone'
  BY <1>2, <1>4, AloneKeeps DEF Over_
<1>. QED
  BY <1>2, <1>4, <1>5, <1>6, <1>7, <1>8, <1>9 DEF RecordInv

-----------------------------------------------------------------------------
(* hint, resign and delete; connections, failures and restarts.            *)

LEMMA HintCommitRecord ==
    ASSUME IInv, GameAssumption, RecordInv, NEW t \in Clients, HintCommit(t)
    PROVE  RecordInv'
<1>1. /\ pc[t] = "hint_engine" /\ Shut(t) /\ UNCHANGED <<exists, moves, cache>> /\ exists
      /\ db' = [db EXCEPT !.hint_count = row[t].hint_count + 1] /\ db \in Rows
  BY OwnHandler DEF HintCommit, CanWrite, StoreTypes
<1>2. /\ db'.status = db.status /\ db'.undo_count = db.undo_count
      /\ db'.move_count = db.move_count
  BY <1>1 DEF Rows
<1>. QED
  BY <1>1, <1>2, ShutRecord DEF Calm, Over_, DecidedBy, RecordInv

LEMMA StartResignRecord ==
    ASSUME IInv, GameAssumption, RecordInv, NEW t \in Clients, StartResign(t)
    PROVE  RecordInv'
<1>1. /\ LocalTypes /\ StoreTypes /\ Brief(t) /\ pc[t] = Closed /\ "resign" \in Ops
      /\ Edit(t, Ended(db, "resigned", "ai", StateInHand), EndFields)
      /\ Goto(t, "resign_commit") /\ writer' \in {writer, t}
      /\ UNCHANGED <<exists, db, moves, cache, pos, arg, lockOf>>
  BY OwnHandler, OwnParts DEF StartResign, Request, memory
<1>2. /\ pc'[t] = "resign_commit" /\ row'[t] = Ended(db, "resigned", "ai", StateInHand)
      /\ dirty'[t] = EndFields /\ \A u \in Clients \ {t} : Untouched(u)
  BY <1>1 DEF LocalTypes, Goto, Edit, Untouched
<1>3. row'[t].winner = "ai"
  BY <1>1, <1>2 DEF StoreTypes, Ended, Rows
<1>4. Own(t)'
  BY <1>1, <1>2, <1>3 DEF Own, Asked, Told, Held, Undone, Brief, Deciding, Deciders, EndFields
<1>5. (\A u \in Clients \ {t} : Unmoved(u)) /\ Enters(t)
  BY <1>1, <1>2 DEF Unmoved, Enters, Critical, GameAssumption
<1>. QED
  BY <1>1, <1>4, <1>5, StillRecord DEF Closed

LEMMA DeleteRecord ==
    ASSUME IInv, GameAssumption, RecordInv, NEW t \in Clients, Delete(t)
    PROVE  RecordInv'
<1>1. /\ pc[t] = Closed /\ exists' = FALSE /\ "delete" \in Ops
      /\ UNCHANGED <<db, writer, cache, local>>
  BY DEF Delete, Request, memory
<1>2. \A u \in Clients : Untouched(u) /\ Unmoved(u)
  BY <1>1 DEF Untouched, Unmoved, local
<1>3. Own(t)'
  BY <1>1, <1>2, OthersOwn DEF Holding, Critical, Closed
<1>4. Calm /\ (Over_(db) => Over_(db')) /\ DecidedBy(t) /\ Enters(t)
  BY <1>1, <1>2 DEF Calm, Over_, DecidedBy, Enters, Untouched
<1>. QED
  BY <1>1, <1>2, <1>3, <1>4, CalmKeeps

LEMMA ConnectRecord ==
    ASSUME IInv, GameAssumption, RecordInv, NEW t \in Clients, Connect(t)
    PROVE  RecordInv'
<1>. USE DEF Connect
<1>1. /\ LocalTypes /\ Brief(t) /\ pc[t] = Closed /\ UNCHANGED <<exists, db, moves, cache>>
  BY OwnHandler, OwnParts
<1>2. writer' \in {writer, None} /\ \A u \in Clients : Evicted(u) => writer' # u
  BY DEF GameAssumption
<1>3. ASSUME NEW u \in Clients \ {t}
      PROVE  Unmoved(u)
  <2>1. CASE Evicted(u)
    BY <1>1, <1>2, <2>1 DEF Unmoved, Evicted, LocalTypes
  <2>2. CASE ~Evicted(u)
    BY <1>1, <1>2, <2>2 DEF Unmoved, Untouched, LocalTypes, GameAssumption
  <2>. QED
    BY <2>1, <2>2
<1>4. pc'[t] = Idle /\ dirty'[t] = {} /\ (writer' = t => "score" \in Ops)
  BY <1>1, <1>2 DEF LocalTypes, Brief, Closed, GameAssumption
<1>5. Own(t)' /\ Enters(t)
  BY <1>4 DEF Own, Asked, Told, Held, Undone, Brief, Deciding, Deciders, Idle, Enters, Critical
<1>. QED
  BY <1>1, <1>3, <1>5, StillRecord DEF Closed

LEMMA DropRecord ==
    ASSUME IInv, GameAssumption, RecordInv, NEW t \in Clients, Drop(t)
    PROVE  RecordInv'
<1>1. UNCHANGED <<exists, db, moves, cache, lock, crashes>>
  BY DEF Drop
<1>2. Calm /\ (Over_(db) => Over_(db')) /\ DecidedBy(t) /\ ("delete" \in Ops \/ exists')
  BY <1>1 DEF Calm, Over_, DecidedBy, RecordInv
<1>3. CASE pc[t] = Idle /\ Shut(t)
  BY <1>1, <1>2, <1>3, ShutRecord DEF Idle
<1>4. CASE UNCHANGED <<writer, local>>
  <2>1. \A u \in Clients : Untouched(u) /\ Unmoved(u)
    BY <1>4 DEF Untouched, Unmoved, local
  <2>2. Own(t)' /\ Enters(t)
    BY <1>1, <1>2, <2>1, OthersOwn DEF Over_, Enters, Untouched
  <2>. QED
    BY <1>1, <1>2, <2>1, <2>2, CalmKeeps
<1>. QED
  BY <1>3, <1>4 DEF Drop

LEMMA AbortRecord ==
    ASSUME IInv, GameAssumption, RecordInv, NEW t \in Clients, Abort(t)
    PROVE  RecordInv'
<1>1. /\ Shut(t) /\ UNCHANGED <<exists, db, moves, cache, lock, crashes>>
      /\ pc[t] \notin {"move_cache", "undo_commit"}
  BY DEF Abort, Fail
<1>. QED
  BY <1>1, ShutRecord DEF Calm, Over_, DecidedBy, RecordInv

LEMMA CrashRecord ==
    ASSUME IInv, GameAssumption, RecordInv, Crash
    PROVE  RecordInv'
<1>. USE DEF Crash
<1>1. ASSUME NEW t \in Clients
      PROVE  Own(t)' /\ pc'[t] = Closed
  BY ClosedOwn DEF GameAssumption
<1>2. Alone' /\ CacheMatchesDb'
  BY <1>1 DEF Alone, CacheMatchesDb, Critical, Closed
<1>. QED
  BY <1>1, <1>2 DEF RecordInv, ReplayLegal, Even, Over_

-----------------------------------------------------------------------------
(* The record invariant, and what follows from it.                         *)

LEMMA InitRecord ==
    ASSUME Init, GameAssumption, IInv
    PROVE  RecordInv
<1>1. /\ exists /\ \A t \in Clients : pc[t] = Closed /\ dirty[t] = {} /\ writer # t
  BY DEF Init, GameAssumption
<1>2. /\ db.move_count \in Nat /\ DOMAIN moves = 1..db.move_count
      /\ Replay(moves) = [i \in 1..db.move_count |-> moves[i]]
  BY <1>1, RecordReplay
<1>3. \/ moves = <<>> /\ (FirstColor = UserColor \/ MayNotOpen)
      \/ FirstColor # UserColor /\ \E c \in Points : moves = <<[color |-> AiColor, coord |-> c]>>
  BY Opened
<1>4. FirstColor # UserColor => AiColor = FirstColor
  BY DEF AiColor, Opponent, GameAssumption, Colors
<1>5. moves = [n \in DOMAIN moves |-> moves[n]]
  <2>1. CASE moves = <<>>
    BY <2>1
  <2>2. ASSUME NEW c \in Points, moves = <<[color |-> AiColor, coord |-> c]>>
        PROVE  moves = [n \in DOMAIN moves |-> moves[n]]
    <3>1. [color |-> AiColor, coord |-> c] \in Move
      BY DEF Move, Coords, AiColor, Opponent, Colors
    <3>2. moves \in Seq(Move)
      BY <2>2, <3>1
    <3>. QED
      BY <3>2
  <2>. QED
    BY <1>3, <2>1, <2>2
<1>6. Replay(moves) = moves
  BY <1>2, <1>5
<1>7. CacheMatchesDb
  BY <1>6 DEF CacheMatchesDb, Init
<1>8. ReplayLegal /\ Even
  <2>1. CASE moves = <<>>
    <3>1. DOMAIN moves = {} /\ (WholeRounds => FirstColor = UserColor)
      BY <1>3, <2>1 DEF WholeRounds
    <3>2. db.move_count = 0
      BY <1>2, <3>1
    <3>. QED
      BY <3>1, <3>2 DEF ReplayLegal, Even
  <2>2. CASE FirstColor # UserColor /\ \E c \in Points : moves = <<[color |-> AiColor, coord |-> c]>>
    <3>1. PICK c \in Points : moves = <<[color |-> AiColor, coord |-> c]>>
      BY <2>2
    <3>2. DOMAIN moves = 1..1 /\ moves[1].color = FirstColor
      BY <1>4, <2>2, <3>1
    <3>3. db.move_count = 1
      BY <1>2, <3>2, SameStart
    <3>. QED
      BY <2>2, <3>2, <3>3 DEF ReplayLegal, Even
  <2>. QED
    BY <1>3, <2>1, <2>2
<1>9. \A t \in Clients : Own(t)
  BY <1>1 DEF Own, Asked, Told, Held, Undone, Brief, Deciding, Deciders, Closed
<1>. QED
  BY <1>1, <1>5, <1>7, <1>8, <1>9 DEF RecordInv, Alone, Critical, Closed

LEMMA NextRecord ==
    ASSUME IInv, RecordInv, GameAssumption, [Next]_vars
    PROVE  RecordInv'
<1>1. Safe
  BY NextKeeps
<1>2. CASE UNCHANGED vars
  <2>. USE <1>2 DEF vars, store, memory, local
  <2>1. UNCHANGED <<Replay(moves)>> /\ \A t \in Clients : Untouched(t) /\ Unmoved(t)
    BY Steady DEF Untouched, Unmoved
  <2>2. \A t \in Clients : Own(t)'
    <3>. SUFFICES ASSUME NEW t \in Clients PROVE Own(t)'
      OBVIOUS
    <3>. QED
      BY <2>1, OthersOwn DEF Calm, Over_
  <2>. QED
    BY <2>1, <2>2 DEF RecordInv, Alone, ReplayLegal, CacheMatchesDb, Even, Over_
<1>3. CASE Crash
  BY <1>3, CrashRecord
<1>4. ASSUME NEW t \in Clients, Ask(t)
      PROVE  RecordInv'
  BY <1>4, ConnectRecord, DropRecord, StartsRecord, StartResignRecord, DeleteRecord DEF Ask
<1>5. ASSUME NEW t \in Clients, Acquire(t)
      PROVE  RecordInv'
  BY <1>5, LockMoveRecord, LockUndoRecord, LockScoreRecord, LockHintRecord DEF Acquire
<1>6. ASSUME NEW t \in Clients, Proceed(t)
      PROVE  RecordInv'
  BY <1>1, <1>6, MoveEngineRecord, MoveCommitRecord, MoveCacheRecord, MovePostRecord,
     MoveStreakRecord, EndsRecord, ReleasesRecord, UndoFlushRecord, UndoCommitRecord,
     ScoreEngineRecord, HintCommitRecord, AbortRecord DEF Proceed
<1>. QED
  BY <1>2, <1>3, <1>4, <1>5, <1>6 DEF Next

(* Both invariants hold of every behaviour, for any clients and            *)
(* operations; the other theorems follow from them.                        *)
THEOREM RecordInvariant == Spec => [](IInv /\ RecordInv)
<1>1. Init => IInv /\ RecordInv
  BY InitHolds, InitRecord, GameAssumption
<1>2. IInv /\ RecordInv /\ [Next]_vars => (IInv /\ RecordInv)'
  BY NextKeeps, NextRecord, GameAssumption DEF Safe
<1>. QED
  BY <1>1, <1>2, PTL DEF Spec

(* The committed colours alternate from the side that opens, so a replay   *)
(* of the table is never refused.                                          *)
THEOREM ReplaysAreLegal == Spec => []ReplayLegal
<1>1. RecordInv => ReplayLegal
  BY DEF RecordInv
<1>. QED
  BY <1>1, RecordInvariant, PTL

(* Outside the two windows of a holder of the lock, the cached rules state *)
(* is what a replay of the table gives.                                    *)
THEOREM CacheIsRecord == Spec => []CacheMatchesDb
<1>1. RecordInv => CacheMatchesDb
  BY DEF RecordInv
<1>. QED
  BY <1>1, RecordInvariant, PTL

(* On an active game, and on any game that is asked for no hints, one      *)
(* handler at a time is between taking a lock and releasing it.            *)
THEOREM OneAtATime == Spec => [](db.status = "active" \/ "hint" \notin Ops => OneInCriticalSection)
<1>1. RecordInv => (db.status = "active" \/ "hint" \notin Ops => OneInCriticalSection)
  BY DEF RecordInv, Own, Alone, Asked, OneInCriticalSection, Over_
<1>. QED
  BY <1>1, RecordInvariant, PTL

(* As long as nobody scores from a stale connection, the write lock is     *)
(* held only between a flush and its commit.                               *)
THEOREM WritesAreBrief == "score" \notin Ops => (Spec => []WriteLockBrief)
<1>. SUFFICES ASSUME "score" \notin Ops PROVE Spec => []WriteLockBrief
  OBVIOUS
<1>1. IInv /\ RecordInv => WriteLockBrief
  <2>. SUFFICES ASSUME IInv, RecordInv, writer # None
                PROVE  pc[writer] \in {"undo_commit", "resign_commit"}
    BY DEF WriteLockBrief
  <2>1. writer \in Clients
    BY DEF IInv, TypeOK
  <2>. QED
    BY <2>1 DEF RecordInv, Own, Brief
<1>. QED
  BY <1>1, RecordInvariant, PTL

(* Between operations on an active game it is the user's turn.             *)
THEOREM UserToMove == WholeRounds => (Spec => []UserOnTurn)
<1>. SUFFICES ASSUME WholeRounds PROVE Spec => []UserOnTurn
  OBVIOUS
<1>1. IInv /\ RecordInv => UserOnTurn
  <2>. SUFFICES ASSUME IInv, RecordInv, exists, db.status = "active"
                PROVE  ToMove(Replay(moves)) = UserColor
    BY DEF UserOnTurn
  <2>. DEFINE k == db.move_count
  <2>1. /\ k \in Nat /\ DOMAIN moves = 1..k /\ Replay(moves) = [i \in 1..k |-> moves[i]]
        /\ Replay(moves) \in Seq(Move) /\ Len(Replay(moves)) = k
    BY RecordReplay DEF Positions
  <2>2. k % 2 = IF FirstColor = UserColor THEN 0 ELSE 1
    BY DEF RecordInv, Even, Over_
  <2>. HIDE DEF k
  <2>3. CASE k = 0
    <3>1. Replay(moves) = <<>> /\ FirstColor = UserColor
      BY <2>1, <2>2, <2>3
    <3>. QED
      BY <3>1 DEF ToMove
  <2>4. CASE k # 0
    <3>1. k \in 1..k /\ Replay(moves) # <<>> /\ Replay(moves)[Len(Replay(moves))] = moves[k]
      BY <2>1, <2>4
    <3>2. moves[k].color = IF k % 2 = 1 THEN FirstColor ELSE Opponent(FirstColor)
      BY <2>1, <3>1 DEF RecordInv, ReplayLegal
    <3>3. /\ Opponent(Opponent(FirstColor)) = FirstColor
          /\ FirstColor # UserColor => Opponent(FirstColor) = UserColor
      BY GameAssumption DEF Opponent, Colors
    <3>. QED
      BY <2>2, <3>1, <3>2, <3>3, GameAssumption DEF ToMove
  <2>. QED
    BY <2>3, <2>4
<1>. QED
  BY <1>1, RecordInvariant, PTL

-----------------------------------------------------------------------------
(* The abstract record.                                                    *)

(* A position longer by one or two moves.                                  *)
LEMMA LongerByOne ==
    ASSUME NEW q \in Seq(Move), NEW p \in Seq(Move), Len(p) = Len(q) + 1,
           \A n \in 1..Len(q) : p[n] = q[n]
    PROVE  p[Len(p)] \in Move /\ p = Append(q, p[Len(p)])
<1>. DEFINE m == p[Len(p)]
<1>1. m \in Move
  OBVIOUS
<1>. HIDE DEF m
<1>2. Append(q, m) \in Seq(Move) /\ Len(Append(q, m)) = Len(p)
  BY <1>1
<1>3. \A n \in 1..Len(p) : p[n] = Append(q, m)[n]
  BY <1>1 DEF m
<1>4. p = Append(q, m)
  BY <1>2, <1>3, SeqEqual
<1>. QED
  BY <1>1, <1>4 DEF m

LEMMA LongerByTwo ==
    ASSUME NEW q \in Seq(Move), NEW p \in Seq(Move), Len(p) = Len(q) + 2,
           \A n \in 1..Len(q) : p[n] = q[n]
    PROVE  \E m, a \in Move : m = p[Len(p) - 1] /\ a = p[Len(p)] /\ p = q \o <<m, a>>
<1>1. p[Len(p) - 1] \in Move /\ p[Len(p)] \in Move
  <2>1. Len(p) \in 1..Len(p) /\ Len(p) - 1 \in 1..Len(p)
    OBVIOUS
  <2>. QED
    BY <2>1
<1>2. PICK m \in Move, a \in Move : m = p[Len(p) - 1] /\ a = p[Len(p)]
  BY <1>1
<1>3. <<m, a>> \in Seq(Move) /\ Len(<<m, a>>) = 2 /\ <<m, a>>[1] = m /\ <<m, a>>[2] = a
  OBVIOUS
<1>4. PICK s \in Seq(Move) : s = <<m, a>>
  BY <1>3
<1>5. Len(s) = 2 /\ s[1] = m /\ s[2] = a
  BY <1>3, <1>4
<1>6. /\ q \o s \in Seq(Move) /\ Len(q \o s) = Len(p)
      /\ \A n \in 1..Len(p) : (q \o s)[n] = IF n <= Len(q) THEN q[n] ELSE s[n - Len(q)]
  <2>1. /\ q \o s \in Seq(Move) /\ Len(q \o s) = Len(q) + Len(s)
        /\ \A n \in 1..(Len(q) + Len(s)) :
              (q \o s)[n] = IF n <= Len(q) THEN q[n] ELSE s[n - Len(q)]
    BY ConcatProperties
  <2>. QED
    BY <1>5, <2>1
<1>7. \A n \in 1..Len(p) : p[n] = (q \o s)[n]
  <2>. SUFFICES ASSUME NEW n \in 1..Len(p) PROVE p[n] = (q \o s)[n]
    OBVIOUS
  <2>1. CASE n <= Len(q)
    <3>1. n \in 1..Len(q)
      BY <2>1
    <3>. QED
      BY <1>6, <2>1, <3>1
  <2>2. CASE n = Len(q) + 1
    <3>1. n = Len(p) - 1 /\ ~(n <= Len(q)) /\ n - Len(q) = 1
      BY <2>2
    <3>. QED
      BY <1>2, <1>5, <1>6, <3>1
  <2>3. CASE n = Len(q) + 2
    <3>1. n = Len(p) /\ ~(n <= Len(q)) /\ n - Len(q) = 2
      BY <2>3
    <3>. QED
      BY <1>2, <1>5, <1>6, <3>1
  <2>4. n <= Len(q) \/ n = Len(q) + 1 \/ n = Len(q) + 2
    <3>1. Len(q) \in Nat /\ n \in 1..(Len(q) + 2)
      OBVIOUS
    <3>. QED
      BY <3>1
  <2>. QED
    BY <2>1, <2>2, <2>3, <2>4
<1>8. p = q \o s
  BY <1>6, <1>7, SeqEqual
<1>. QED
  BY <1>2, <1>4, <1>8

(* A commit of a round is a Round of the record.                           *)
LEMMA RoundRefines ==
    ASSUME IInv, GameAssumption, RecordInv, LocksOnly, NEW t \in Clients, MoveCommit(t)
    PROVE  Abstract!Round
<1>1. /\ exists /\ pc[t] = "move_commit" /\ db' = Flush(t) /\ Deciding(t) /\ Told(t) /\ Loaded(t)
  BY OwnHandler, OwnParts DEF MoveCommit, Commit, CanWrite
<1>2. ~Over_(db) /\ row[t] \in Rows
  BY <1>1 DEF Deciding, Deciders, Loaded, Closed
<1>3. /\ Replay(moves) \in Seq(Move) /\ Len(Replay(moves)) = db.move_count
      /\ Replay(moves) = [i \in 1..db.move_count |-> moves[i]]
  BY <1>1, RecordReplay DEF Positions
<1>4. /\ pos[t] \in Seq(Move) /\ pos[t] # <<>> /\ Alternates(pos[t]) /\ Replay(moves)' = pos[t]
      /\ \A n \in 1..db.move_count : pos[t][n] = moves[n]
      /\ IF pos[t][Len(pos[t])].color = AiColor
         THEN Len(pos[t]) = db.move_count + 2 /\ row[t].status # "resigned"
         ELSE Len(pos[t]) = db.move_count + 1 /\ Over_(row[t])
      /\ "status" \in dirty[t] <=> Over_(row[t])
      /\ "winner" \in dirty[t] <=> "status" \in dirty[t]
      /\ "undo_count" \notin dirty[t] /\ db.move_count \in Nat
  BY RoundCommitted
<1>5. /\ db'.undo_count = db.undo_count
      /\ ~Over_(row[t]) => db'.status = db.status /\ db'.winner = db.winner
      /\ Over_(row[t]) => db'.status = row[t].status /\ db'.winner = row[t].winner
                          /\ row[t].winner \in {"user", "ai"}
                          /\ row[t].status \in {"finished", "resigned"}
  BY <1>1, <1>2, <1>4, FlushFields DEF Told, Over_, Rows, Statuses, Closed
<1>6. PICK q \in Seq(Move), p \in Seq(Move) : q = Replay(moves) /\ p = pos[t]
  BY <1>3, <1>4
<1>7. \A n \in 1..Len(q) : p[n] = q[n]
  BY <1>3, <1>4, <1>6
<1>8. UserColor # AiColor /\ (\A m \in Move : m.color # AiColor => m.color = UserColor)
  BY DEF AiColor, Opponent, Colors, Move, GameAssumption
<1>9. CASE p[Len(p)].color = AiColor
  <2>1. Len(p) = Len(q) + 2 /\ row[t].status # "resigned"
    BY <1>3, <1>4, <1>6, <1>9
  <2>2. PICK m \in Move, a \in Move : m = p[Len(p) - 1] /\ a = p[Len(p)] /\ p = q \o <<m, a>>
    BY <1>7, <2>1, LongerByTwo
  <2>3. m.color # a.color
    <3>1. /\ Len(p) \in DOMAIN p /\ Len(p) - 1 \in DOMAIN p
          /\ Len(p) % 2 = 1 <=> (Len(p) - 1) % 2 # 1
      BY <2>1
    <3>2. FirstColor # Opponent(FirstColor)
      BY DEF Opponent, GameAssumption, Colors
    <3>3. Alternates(p)
      BY <1>4, <1>6
    <3>4. /\ a.color = IF Len(p) % 2 = 1 THEN FirstColor ELSE Opponent(FirstColor)
          /\ m.color = IF (Len(p) - 1) % 2 = 1 THEN FirstColor ELSE Opponent(FirstColor)
      BY <2>2, <3>1, <3>3 DEF Alternates
    <3>. QED
      BY <3>1, <3>2, <3>4
  <2>4. m.color = UserColor /\ a.color # UserColor
    BY <1>8, <1>9, <2>2, <2>3
  <2>5. UNCHANGED <<db.status, db.winner>>
        \/ \E w \in {"user", "ai"} : <<db.status, db.winner>>' = <<"finished", w>>
    BY <1>5, <2>1
  <2>6. Replay(moves)' = Replay(moves) \o <<m, a>>
    BY <1>4, <1>6, <2>2
  <2>. QED
    BY <1>2, <1>5, <2>4, <2>5, <2>6 DEF Abstract!Round, Abstract!ByUser, Over_
<1>10. CASE p[Len(p)].color # AiColor
  <2>1. Len(p) = Len(q) + 1 /\ Over_(row[t])
    BY <1>3, <1>4, <1>6, <1>10
  <2>2. PICK m \in Move : m = p[Len(p)] /\ p = Append(q, m)
    BY <1>7, <2>1, LongerByOne
  <2>3. m.color = UserColor
    BY <1>8, <1>10, <2>2
  <2>4. Replay(moves)' = Append(Replay(moves), m)
    BY <1>4, <1>6, <2>2
  <2>5. \E o \in {"finished", "resigned"} \X {"user", "ai"} : <<db.status, db.winner>>' = o
    BY <1>5, <2>1
  <2>. QED
    BY <1>2, <1>5, <2>3, <2>4, <2>5 DEF Abstract!Round, Abstract!ByUser, Abstract!Outcomes, Over_
<1>. QED
  BY <1>9, <1>10

(* A commit of an undo takes moves back.                                   *)
LEMMA UndoRefines ==
    ASSUME IInv, GameAssumption, RecordInv, LocksOnly, NEW t \in Clients, UndoCommit(t)
    PROVE  Abstract!TakeBack
<1>1. ~Over_(db)
  BY OwnParts DEF UndoCommit, Deciding, Deciders
<1>2. /\ exists /\ moves' = Kept(t) /\ Replay(moves)' = Shortened(t)
      /\ db'.undo_count = db.undo_count + 1 /\ db'.undo_count <= UndoLimit
      /\ db'.status = db.status /\ db'.winner = db.winner /\ db.undo_count \in Nat
  BY UndoCommitted
<1>3. PICK j \in Nat : DOMAIN moves' = 1..j /\ j < db.move_count
  BY UndoCommitted
<1>4. /\ Replay(moves) \in Seq(Move) /\ Len(Replay(moves)) = db.move_count
      /\ Replay(moves) = [i \in 1..db.move_count |-> moves[i]]
      /\ DOMAIN moves = 1..db.move_count /\ db.move_count \in Nat
  BY <1>2, RecordReplay DEF Positions
<1>5. PICK q \in Seq(Move) : q = Replay(moves)
  BY <1>4
<1>6. Shortened(t) = [i \in 1..j |-> q[i]]
  <2>1. DOMAIN Kept(t) = 1..j /\ \A i \in 1..j : Kept(t)[i] = moves[i] /\ q[i] = moves[i] /\ q[i] \in Move
    <3>1. DOMAIN Kept(t) = 1..j
      BY <1>2, <1>3
    <3>2. \A i \in DOMAIN Kept(t) : Kept(t)[i] = moves[i]
      BY DEF Kept
    <3>3. \A i \in 1..j : i \in 1..db.move_count
      BY <1>3, <1>4
    <3>. QED
      BY <1>4, <1>5, <3>1, <3>2, <3>3, SMTT(30)
  <2>2. Replay(Kept(t)) = [i \in 1..j |-> Kept(t)[i]]
    BY <2>1, ReplayOfInterval
  <2>. QED
    BY <2>1, <2>2 DEF Shortened
<1>7. SubSeq(q, 1, j) = [i \in 1..j |-> q[i]]
  OBVIOUS
<1>8. Replay(moves)' = SubSeq(Replay(moves), 1, j) /\ j \in 0..(Len(Replay(moves)) - 1)
  BY <1>2, <1>3, <1>4, <1>5, <1>6, <1>7
<1>9. db.undo_count < UndoLimit
  BY <1>2 DEF GameAssumption
<1>. QED
  BY <1>1, <1>2, <1>8, <1>9 DEF Abstract!TakeBack, Over_

(* A commit of an ending settles the game.                                 *)
LEMMA EndRefines ==
    ASSUME IInv, GameAssumption, RecordInv, LocksOnly, NEW t \in Clients,
           MoveEnd(t) \/ ScoreCommit(t)
    PROVE  Abstract!Settle
<1>1. /\ pc[t] \in {"move_end", "score_commit"} /\ db' = Flush(t) /\ moves' = moves
      /\ Changed(t) /\ Deciding(t) /\ Told(t) /\ Loaded(t)
  BY OwnHandler, OwnParts DEF MoveEnd, ScoreCommit, Commit
<1>2. /\ ~Over_(db) /\ row[t] \in Rows /\ "status" \in dirty[t] /\ "winner" \in dirty[t]
      /\ "undo_count" \notin dirty[t] /\ Over_(row[t]) /\ row[t].winner \in {"user", "ai"}
  BY <1>1 DEF Deciding, Deciders, Loaded, Closed, Changed, Told
<1>3. /\ db'.status \in {"finished", "resigned"} /\ db'.winner \in {"user", "ai"}
      /\ db'.undo_count = db.undo_count /\ Replay(moves)' = Replay(moves)
  BY <1>1, <1>2, FlushFields, Steady DEF Over_, Rows, Statuses, Closed
<1>. QED
  BY <1>2, <1>3 DEF Abstract!Settle, Abstract!Outcomes, Over_

(* A step the abstract record does not see.                                *)
Unseen == UNCHANGED <<Replay(moves), db.status, db.winner, db.undo_count>>

(* Every other step leaves the record, the result and the undos alone.     *)
LEMMA StepRefines ==
    ASSUME IInv, GameAssumption, RecordInv, LocksOnly, [Next]_vars
    PROVE  Abstract!Next \/ Unseen
<1>1. CASE UNCHANGED <<db, moves>>
  BY <1>1, Steady DEF Unseen
<1>2. ASSUME NEW t \in Clients, MoveStreak(t)
      PROVE  Unseen
  <2>1. /\ pc[t] = "move_streak" /\ db' = Flush(t) /\ moves' = moves /\ Changed(t) /\ Told(t)
    BY <1>2, OwnHandler, OwnParts DEF MoveStreak
  <2>2. "status" \notin dirty[t] /\ "winner" \notin dirty[t] /\ "undo_count" \notin dirty[t]
    BY <2>1 DEF Changed, Told
  <2>. QED
    BY <2>1, <2>2, FlushFields, Steady DEF Unseen, Closed
<1>3. ASSUME NEW t \in Clients, HintCommit(t)
      PROVE  Unseen
  <2>1. db' = [db EXCEPT !.hint_count = row[t].hint_count + 1] /\ moves' = moves /\ db \in Rows
    BY <1>3, OwnHandler DEF HintCommit, StoreTypes
  <2>2. /\ db'.status = db.status /\ db'.winner = db.winner /\ db'.undo_count = db.undo_count
    BY <2>1 DEF Rows
  <2>. QED
    BY <2>1, <2>2, Steady DEF Unseen
<1>4. ASSUME NEW t \in Clients
      PROVE  ~ResignCommit(t) /\ ~Delete(t)
  BY OwnParts DEF ResignCommit, Delete, Request, LocksOnly, Asked
<1>5. CASE Crash
  BY <1>1, <1>5 DEF Crash
<1>6. ASSUME NEW t \in Clients, Ask(t)
      PROVE  UNCHANGED <<db, moves>>
  BY <1>4, <1>6 DEF Ask, Connect, Drop, StartMove, StartUndo, StartScore, StartHint, StartResign,
                    store
<1>7. ASSUME NEW t \in Clients, Acquire(t)
      PROVE  UNCHANGED <<db, moves>>
  BY <1>7 DEF Acquire, LockMove, LockUndo, LockScore, LockHint, store
<1>8. ASSUME NEW t \in Clients, Proceed(t)
      PROVE  \/ UNCHANGED <<db, moves>> \/ MoveCommit(t) \/ MoveStreak(t) \/ MoveEnd(t)
             \/ UndoCommit(t) \/ ScoreCommit(t) \/ HintCommit(t)
  BY <1>4, <1>8 DEF Proceed, MoveEngine, MoveCache, MovePost, MoveRelease, UndoFlush, ScoreEngine,
                    ScoreRelease, ResignRelease, Abort, Fail, store
<1>. QED
  BY <1>1, <1>2, <1>3, <1>5, <1>6, <1>7, <1>8, RoundRefines, UndoRefines, EndRefines
     DEF Next, Abstract!Next, vars, store

(* Where games end only under their lock, every behaviour of the program   *)
(* is, seen through its commits, a behaviour of the abstract record.       *)
THEOREM ImplementsRecord == LocksOnly => (Spec => RefinesRecord)
<1>. SUFFICES ASSUME LocksOnly PROVE Spec => RefinesRecord
  OBVIOUS
<1>1. Init => Abstract!Init
  <2>. SUFFICES ASSUME Init PROVE Abstract!Init
    OBVIOUS
  <2>1. IInv /\ exists
    BY InitHolds, GameAssumption DEF Init
  <2>2. PICK q \in Seq(Move) : q = Replay(moves)
    BY <2>1, RecordReplay DEF Positions
  <2>3. Replay(moves) \in {<<>>} \cup {<<m>> : m \in Move}
    <3>1. /\ Len(q) = db.move_count /\ DOMAIN moves = 1..db.move_count /\ db.move_count \in Nat
      BY <2>1, <2>2, RecordReplay
    <3>2. CASE moves = <<>>
      <4>1. 1..db.move_count = 1..0
        BY <3>1, <3>2
      <4>2. Len(q) = 0
        BY <3>1, <4>1, SameStart
      <4>. QED
        BY <2>2, <4>2, EmptySeq
    <3>3. ASSUME NEW c, moves = <<c>>
          PROVE  \E m \in Move : Replay(moves) = <<m>>
      <4>1. 1..db.move_count = 1..1
        BY <3>1, <3>3
      <4>2. Len(q) = 1
        BY <3>1, <4>1, SameStart
      <4>3. q[1] \in Move /\ q = <<q[1]>>
        BY <4>2
      <4>. QED
        BY <2>2, <4>3, Zenon
    <3>. QED
      BY <3>2, <3>3, Opened, Zenon
  <2>. QED
    BY <2>3 DEF Init, NewRow, Abstract!Init
<1>2. IInv /\ RecordInv /\ [Next]_vars => [Abstract!Next]_(Abstract!vars)
  BY StepRefines, GameAssumption DEF Unseen, Abstract!vars
<1>. QED
  BY <1>1, <1>2, RecordInvariant, PTL DEF Spec, RefinesRecord, Abstract!Spec
=============================================================================
