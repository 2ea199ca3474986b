-------------------------- MODULE GameStoreProofs --------------------------
(***************************************************************************)
(* Theorems about GameStore, for every set of clients, every board and     *)
(* every bound: the moves table is 1..move_count, undos are limited and a  *)
(* finished game stays finished.  The three stand on one inductive         *)
(* invariant, IInv: what each handler's copy of the row may differ in      *)
(* from the database at each of its steps, and why an active game is       *)
(* still on its first Lock object.                                         *)
(***************************************************************************)
EXTENDS GameStore, FiniteSetTheorems, TLAPS

WritePhase == {"move_engine", "move_commit", "undo_flush", "undo_commit"}
Releasing == {"move_release", "score_release", "resign_release"}
Over_(r) == r.status # "active"

-----------------------------------------------------------------------------
(* What holds of the handler of client t.                                  *)

(* Its row is loaded and its argument is what its operation takes.         *)
Loaded(t) ==
    /\ pc[t] # Closed => row[t] \in Rows
    /\ pc[t] = "move_wait" => arg[t] \in Coords
    /\ pc[t] \in {"undo_wait", "undo_flush", "undo_commit"} => arg[t] \in Nat

(* The attributes an UPDATE would write: only a round that failed leaves   *)
(* any behind, and whoever writes the status writes the end of the game.   *)
Changed(t) ==
    /\ "move_count" \in dirty[t] => pc[t] \in Waiting \cup WritePhase \cup {Idle, "score_engine", "hint_engine"}
    /\ "undo_count" \in dirty[t] => pc[t] = "undo_commit"
    /\ "status" \in dirty[t]
           => pc[t] \in {"move_commit", "move_end", "score_commit", "resign_commit"}
    /\ pc[t] \in {"move_engine", "move_commit", "undo_commit"} => "move_count" \in dirty[t]
    /\ pc[t] \in {"move_end", "score_commit", "resign_commit"}
           => "status" \in dirty[t] /\ Over_(row[t])
    /\ pc[t] \in {"move_engine", "move_commit"} => ("status" \in dirty[t] <=> Over_(row[t]))

(* Stale rows and open transactions belong to games that are over.         *)
Sealed(t) ==
    /\ cache = None /\ (dirty[t] # {} \/ pc[t] \in {"move_post", "move_streak"})
           => Over_(db) \/ pc[t] \in {"resign_commit", "score_commit"}
    /\ pc[t] \in Releasing \/ (pc[t] = "move_cache" /\ Over_(row[t])) => Over_(db)
    /\ writer = t /\ pc[t] \notin {"undo_commit", "resign_commit"} => Over_(db)
    /\ Over_(db) \/ lockOf[t] = 0

(* The batch, or the shorter record, it is about to commit fits the table. *)
Fits(t) ==
    /\ pc[t] = "move_engine" =>
           /\ pos[t] # <<>> /\ pos[t][Len(pos[t])].color = UserColor
           /\ exists => row[t].move_count = db.move_count + 1
    /\ pc[t] = "move_commit" =>
           /\ NewRows(t) \in [DOMAIN NewRows(t) -> Move]
           /\ exists => /\ DOMAIN NewRows(t) = (db.move_count + 1)..row[t].move_count
                        /\ db.move_count < row[t].move_count
    /\ pc[t] = "undo_flush" =>
           /\ row[t].undo_count < UndoLimit
           /\ exists => row[t].move_count = db.move_count
    /\ pc[t] = "undo_commit" =>
           /\ row[t].undo_count <= UndoLimit
           /\ exists => DOMAIN Kept(t) = 1..row[t].move_count

HandlerInv(t) == Loaded(t) /\ Changed(t) /\ Sealed(t) /\ Fits(t)

-----------------------------------------------------------------------------
(* A deleted game has no moves.                                            *)
Contiguous == DOMAIN moves = IF exists THEN 1..db.move_count ELSE {}

(* At most one handler is on its way to rewrite the moves table.           *)
OneWriter == \A t, u \in Clients : pc[t] \in WritePhase /\ pc[u] \in WritePhase => t = u

IInv == /\ TypeOK
        /\ Contiguous
        /\ OneWriter
        /\ UndoBounded
        /\ db.status = "active" => lock = 0
        /\ \A t \in Clients : HandlerInv(t)

-----------------------------------------------------------------------------
(* What the helpers return.                                                *)

(* In a table without gaps a row's rank is its number.                     *)
LEMMA RankOfInterval ==
    ASSUME NEW k \in Nat, NEW n \in 1..k
    PROVE  Rank(1..k, n) = n
<1>1. {m \in 1..k : m <= n} = 1..n
  OBVIOUS
<1>2. Cardinality(1..n) = n
  BY FS_Interval
<1>. QED
  BY <1>1, <1>2 DEF Rank

(* A replay of such a table is the sequence of its moves.                  *)
LEMMA ReplayOfInterval ==
    ASSUME NEW k \in Nat, NEW m, DOMAIN m = 1..k, \A i \in 1..k : m[i] \in Move
    PROVE  Replay(m) = [i \in 1..k |-> m[i]] /\ Replay(m) \in Positions
<1>1. Cardinality(DOMAIN m) = k
  BY FS_Interval
<1>2. ASSUME NEW i \in 1..k
      PROVE  m[CHOOSE n \in DOMAIN m : Rank(DOMAIN m, n) = i] = m[i]
  <2>1. \A n \in 1..k : Rank(1..k, n) = i <=> n = i
    BY RankOfInterval
  <2>2. (CHOOSE n \in 1..k : Rank(1..k, n) = i) \in 1..k
        /\ Rank(1..k, CHOOSE n \in 1..k : Rank(1..k, n) = i) = i
    BY <2>1
  <2>. QED
    BY <2>1, <2>2
<1>3. Replay(m) = [i \in 1..k |-> m[i]]
  BY <1>1, <1>2 DEF Replay
<1>4. [i \in 1..k |-> m[i]] \in Seq(Move)
  OBVIOUS
<1>. QED
  BY <1>3, <1>4 DEF Positions

(* An undo of a table without gaps cuts it short.                          *)
LEMMA UndoCutsShort ==
    ASSUME NEW t \in Clients, NEW k \in Nat, DOMAIN moves = 1..k, arg[t] \in Nat
    PROVE  \E j \in 0..k : /\ j = IF arg[t] <= k THEN k - arg[t] ELSE 0
                          /\ DOMAIN Kept(t) = 1..j /\ DeletedCount(t) = k - j
<1>. DEFINE j == IF arg[t] <= k THEN k - arg[t] ELSE 0
<1>1. ASSUME NEW n \in 1..k
      PROVE  Cardinality({m \in 1..k : m >= n}) = k - n + 1
  <2>1. {m \in 1..k : m >= n} = n..k
    OBVIOUS
  <2>2. Cardinality(n..k) = k - n + 1
    BY FS_Interval
  <2>. QED
    BY <2>1, <2>2
<1>2. TakenBack(t) = (j + 1)..k
  BY <1>1 DEF TakenBack
<1>3. DOMAIN Kept(t) = 1..j
  BY <1>2 DEF Kept
<1>4. j \in 0..k
  OBVIOUS
<1>5. DeletedCount(t) = k - j
  <2>. HIDE DEF j
  <2>1. Cardinality((j + 1)..k) = k - j
    <3>1. j + 1 \in Int /\ (j + 1 > k <=> j = k) /\ k - (j + 1) + 1 = k - j
      BY <1>4
    <3>2. Cardinality((j + 1)..k) = IF j + 1 > k THEN 0 ELSE k - (j + 1) + 1
      BY <3>1, FS_Interval
    <3>. QED
      BY <1>4, <3>1, <3>2
  <2>. QED
    BY <1>2, <2>1 DEF DeletedCount
<1>. QED
  BY <1>3, <1>4, <1>5

(* A row with some attributes of another is a row.                         *)
LEMMA OverIsRow ==
    ASSUME NEW d \in Rows, NEW r \in Rows, NEW changed
    PROVE  /\ Over(d, r, changed) \in Rows
           /\ "status" \notin changed => Over(d, r, changed).status = d.status
           /\ "status" \in changed => Over(d, r, changed).status = r.status
           /\ "move_count" \notin changed => Over(d, r, changed).move_count = d.move_count
           /\ "move_count" \in changed => Over(d, r, changed).move_count = r.move_count
           /\ "undo_count" \notin changed => Over(d, r, changed).undo_count = d.undo_count
           /\ "undo_count" \in changed => Over(d, r, changed).undo_count = r.undo_count
  BY DEF Over, Rows

-----------------------------------------------------------------------------
(* The type invariant, split between the store and the handlers.           *)
Attributes == {"status", "winner", "move_count", "undo_count", "hint_count", "loss_streak", "sgf"}

StoreTypes ==
    /\ exists \in BOOLEAN /\ db \in Rows
    /\ DOMAIN moves \subseteq Nat \ {0} /\ \A n \in DOMAIN moves : moves[n] \in Move
    /\ cache \in Positions \cup {None} /\ lock \in Nat /\ crashes \in Nat

LocalTypes ==
    /\ writer \in Clients \cup {None} /\ live \in Clients \cup {None}
    /\ pc \in [Clients -> Busy \cup {Idle, Closed}]
    /\ row \in [Clients -> Rows \cup {None}]
    /\ dirty \in [Clients -> SUBSET Attributes]
    /\ pos \in [Clients -> Positions]
    /\ arg \in [Clients -> Coords \cup Nat \cup {None}]
    /\ lockOf \in [Clients -> Nat]

LEMMA RowAttributes ==
    ASSUME NEW r \in Rows
    PROVE  DOMAIN r = Attributes
  BY DEF Rows, Attributes

LEMMA TypesSplit ==
    /\ TypeOK <=> StoreTypes /\ LocalTypes
    /\ TypeOK' <=> StoreTypes' /\ LocalTypes'
<1>1. /\ db \in Rows => DOMAIN db = Attributes
      /\ db' \in Rows => DOMAIN db' = Attributes
  BY RowAttributes
<1>. QED
  BY <1>1 DEF TypeOK, StoreTypes, LocalTypes

-----------------------------------------------------------------------------
(* One client at a time: what a step of client t owes to the others.       *)

Untouched(u) == /\ pc'[u] = pc[u] /\ row'[u] = row[u] /\ dirty'[u] = dirty[u]
                /\ pos'[u] = pos[u] /\ arg'[u] = arg[u] /\ lockOf'[u] = lockOf[u]

Quiet == exists' => exists /\ moves' = moves /\ db'.move_count = db.move_count

Frame(t) ==
    /\ \A u \in Clients \ {t} : Untouched(u)
    /\ writer' \in {writer, None, t}
    /\ pc[t] \in WritePhase \/ Quiet
    /\ pc'[t] \in WritePhase =>
           pc[t] \in WritePhase \/ \A u \in Clients \ {t} : pc[u] \notin WritePhase

GlobalStep ==
    /\ StoreTypes' /\ Contiguous' /\ UndoBounded'
    /\ db'.status = "active" => lock' = 0
    /\ Over_(db) => Over_(db')
    /\ cache' = None => cache = None \/ Over_(db')

(* What every step owes to the theorems.                                   *)
Safe == IInv' /\ (Over_(db) => Over_(db'))

(* A handler that is left alone keeps its invariant.                       *)
LEMMA UntouchedKeeps ==
    ASSUME IInv, GlobalStep, NEW u \in Clients, Untouched(u),
           writer' = u => writer = u, pc[u] \in WritePhase => Quiet
    PROVE  HandlerInv(u)'
<1>. USE DEF IInv, HandlerInv, GlobalStep
<1>1. Loaded(u)' /\ Changed(u)' /\ Sealed(u)'
  BY DEF Untouched, Loaded, Changed, Sealed
<1>2. Fits(u)'
  <2>1. NewRows(u)' = NewRows(u)
    BY DEF NewRows, Untouched
  <2>2. moves' = moves => Kept(u)' = Kept(u)
    BY DEF Kept, TakenBack, Untouched
  <2>. QED
    BY <2>1, <2>2 DEF Untouched, Fits, Quiet, WritePhase
<1>. QED
  BY <1>1, <1>2

(* So a step is right if it keeps the global part, the frame and the       *)
(* invariant of its own handler.                                           *)
LEMMA StepKeeps ==
    ASSUME IInv, GameAssumption, NEW t \in Clients, Frame(t), GlobalStep,
           LocalTypes', HandlerInv(t)'
    PROVE  Safe
<1>1. OneWriter'
  BY DEF Frame, OneWriter, Untouched, IInv
<1>2. \A u \in Clients : HandlerInv(u)'
  <2>1. ASSUME NEW u \in Clients \ {t}
        PROVE  HandlerInv(u)'
    <3>1. writer' = u => writer = u
      BY DEF Frame, GameAssumption
    <3>2. pc[u] \in WritePhase => Quiet
      BY DEF Frame, OneWriter, IInv
    <3>3. Untouched(u)
      BY DEF Frame
    <3>. QED
      BY <3>1, <3>2, <3>3, UntouchedKeeps
  <2>. QED
    BY <2>1
<1>3. TypeOK'
  BY TypesSplit DEF GlobalStep
<1>. QED
  BY <1>1, <1>2, <1>3 DEF IInv, GlobalStep, Safe

(* A step that leaves the store and the caches alone.                      *)
LEMMA StillStore ==
    ASSUME IInv, UNCHANGED <<exists, db, moves, cache, lock, crashes>>
    PROVE  GlobalStep /\ Quiet
<1>1. StoreTypes
  BY TypesSplit DEF IInv
<1>2. StoreTypes'
  BY <1>1 DEF StoreTypes
<1>. QED
  BY <1>2 DEF IInv, GlobalStep, Quiet, Contiguous, UndoBounded, Over_

(* What the client of a handler at work knows of itself.                   *)
LEMMA OwnHandler ==
    ASSUME IInv, NEW t \in Clients
    PROVE  /\ StoreTypes /\ LocalTypes /\ Contiguous /\ UndoBounded
           /\ db.status = "active" => lock = 0
           /\ Loaded(t) /\ Changed(t) /\ Sealed(t) /\ Fits(t)
  BY TypesSplit DEF IInv, HandlerInv

(* A handler that ends.                                                    *)
LEMMA ShutKeeps ==
    ASSUME IInv, GameAssumption, NEW t \in Clients, Shut(t), GlobalStep,
           pc[t] \in WritePhase \/ Quiet
    PROVE  Safe
<1>1. LocalTypes
  BY TypesSplit DEF IInv
<1>2. LocalTypes'
  BY <1>1 DEF Shut, Goto, Edit, LocalTypes, GameAssumption, Closed, Positions
<1>3. /\ \A u \in Clients \ {t} : Untouched(u)
      /\ pc'[t] = Closed /\ writer' \in {writer, None} /\ writer' # t
      /\ dirty'[t] = {} /\ lockOf'[t] = 0
  BY <1>1 DEF Shut, Goto, Edit, LocalTypes, Untouched, GameAssumption
<1>4. HandlerInv(t)'
  BY <1>3 DEF HandlerInv, Loaded, Changed, Sealed, Fits, Closed, Idle, Waiting, EndFields, Releasing
<1>5. Frame(t)
  BY <1>3 DEF Frame, WritePhase, Closed
<1>. QED
  BY <1>2, <1>4, <1>5, StepKeeps

(* A handler that has replied: whatever it leaves dirty belongs to a game  *)
(* that is over, or is a move_count beside a cached state.                 *)
LEMMA ReplyKeeps ==
    ASSUME IInv, GameAssumption, NEW t \in Clients, NEW r \in Rows,
           NEW changed \in SUBSET (Attributes \ {"undo_count", "status"}),
           Reply(t, r, changed), writer' \in {writer, None},
           Over_(db') \/ (writer' # t /\ (cache' # None \/ changed = {})),
           GlobalStep, pc[t] \in WritePhase \/ Quiet
    PROVE  Safe
<1>1. LocalTypes
  BY TypesSplit DEF IInv
<1>. USE DEF Reply, Goto, Edit, LocalTypes
<1>2. LocalTypes'
  BY <1>1 DEF GameAssumption, Closed, Idle, Positions, Attributes
<1>3. /\ \A u \in Clients \ {t} : Untouched(u)
      /\ pc'[t] \in {Idle, Closed} /\ lockOf'[t] = 0
      /\ pc'[t] = Idle => row'[t] = r /\ dirty'[t] = changed
      /\ pc'[t] = Closed => dirty'[t] = {}
  BY <1>1 DEF Untouched, GameAssumption, Idle, Closed
<1>4. HandlerInv(t)'
  <2>. USE DEF HandlerInv, Loaded, Changed, Sealed, Fits, Closed, Idle, Waiting, EndFields, Releasing
  <2>1. CASE pc'[t] = Idle
    BY <1>3, <2>1
  <2>2. CASE pc'[t] = Closed
    BY <1>3, <2>2
  <2>. QED
    BY <1>3, <2>1, <2>2
<1>5. Frame(t)
  BY <1>3 DEF Frame, WritePhase, Closed, Idle
<1>. QED
  BY <1>2, <1>4, <1>5, StepKeeps

LEMMA AnswerKeeps ==
    ASSUME IInv, GameAssumption, NEW t \in Clients, NEW r \in Rows,
           NEW changed \in SUBSET (Attributes \ {"undo_count", "status"}),
           Answer(t, r, changed),
           Over_(db') \/ (writer # t /\ (cache' # None \/ changed = {})),
           GlobalStep, pc[t] \in WritePhase \/ Quiet
    PROVE  Safe
<1>1. writer' \in {writer, None} /\ (writer # t => writer' # t)
  BY DEF Answer, GameAssumption
<1>. QED
  BY <1>1, ReplyKeeps DEF Answer

-----------------------------------------------------------------------------
(* What a handler may rely on when it refreshes or flushes its row.        *)

LEMMA FlushSafe ==
    ASSUME IInv, NEW t \in Clients, pc[t] # Closed
    PROVE  /\ Flush(t) \in Rows
           /\ Over_(db) => Over_(Flush(t))
           /\ "status" \in dirty[t] => Over_(Flush(t))
           /\ Flush(t).undo_count <= UndoLimit
           /\ "move_count" \notin dirty[t] => Flush(t).move_count = db.move_count
           /\ "move_count" \in dirty[t] => Flush(t).move_count = row[t].move_count
<1>1. row[t] \in Rows /\ db \in Rows /\ db.undo_count <= UndoLimit
  BY DEF IInv, HandlerInv, Loaded, TypeOK, UndoBounded
<1>2. "status" \in dirty[t] => Over_(row[t])
  BY DEF IInv, HandlerInv, Changed
<1>3. "undo_count" \in dirty[t] => row[t].undo_count <= UndoLimit
  BY DEF IInv, HandlerInv, Changed, Fits
<1>. QED
  BY <1>1, <1>2, <1>3, OverIsRow DEF Flush, Over_

LEMMA RefreshSafe ==
    ASSUME IInv, NEW t \in Clients, pc[t] \in Waiting
    PROVE  /\ Refreshed(t) \in Rows
           /\ StillDirty(t) \in SUBSET (Attributes \ {"undo_count", "status"})
           /\ writer = t => Over_(db)
           /\ cache = None /\ StillDirty(t) # {} => Over_(db)
           /\ Refreshed(t).status = "active" =>
                  /\ db.status = "active" /\ writer # t
                  /\ Refreshed(t) = db /\ StillDirty(t) = {}
<1>1. row[t] \in Rows /\ db \in Rows /\ dirty[t] \subseteq Attributes
  BY TypesSplit DEF IInv, HandlerInv, Loaded, TypeOK, LocalTypes, Waiting, Closed
<1>2. "status" \notin dirty[t] /\ "undo_count" \notin dirty[t]
  BY DEF IInv, HandlerInv, Changed, Waiting
<1>3. /\ writer = t => Over_(db)
      /\ cache = None /\ dirty[t] # {} => Over_(db)
  BY DEF IInv, HandlerInv, Sealed, Waiting
<1>. QED
  BY <1>1, <1>2, <1>3, OverIsRow DEF Refreshed, StillDirty, Over_

LEMMA NoneIsNoPosition ==
    ASSUME GameAssumption
    PROVE  None \notin Positions
  BY DEF GameAssumption, Positions

(* The cached state, or a replay of the table, is a position.              *)
LEMMA StateInHandType ==
    ASSUME IInv
    PROVE  StateInHand \in Positions /\ Replay(moves) \in Positions
<1>1. \E k \in Nat : DOMAIN moves = 1..k
  <2>1. CASE exists
    BY <2>1 DEF IInv, TypeOK, Contiguous, Rows
  <2>2. CASE ~exists
    <3>1. DOMAIN moves = 1..0
      BY <2>2 DEF IInv, Contiguous
    <3>. QED
      BY <3>1
  <2>. QED
    BY <2>1, <2>2
<1>2. \A n \in DOMAIN moves : moves[n] \in Move
  BY DEF IInv, TypeOK
<1>3. Replay(moves) \in Positions
  BY <1>1, <1>2, ReplayOfInterval
<1>. QED
  BY <1>3 DEF IInv, TypeOK, StateInHand

-----------------------------------------------------------------------------
(* place_move.                                                             *)

(* A position after one more move.                                         *)
LEMMA AppendLast ==
    ASSUME NEW q \in Seq(Move), NEW m \in Move
    PROVE  /\ Append(q, m) \in Seq(Move) /\ Append(q, m) # <<>>
           /\ Append(q, m)[Len(Append(q, m))] = m
           /\ q # <<>> => Len(Append(q, m)) >= 2
<1>1. Len(Append(q, m)) = Len(q) + 1 /\ Len(q) \in Nat /\ (q # <<>> => Len(q) # 0)
  OBVIOUS
<1>2. Append(q, m) \in Seq(Move) /\ Append(q, m)[Len(q) + 1] = m
  OBVIOUS
<1>. QED
  BY <1>1, <1>2

(* A handler that starts to wait for the game's lock.                      *)
LEMMA WaitKeeps ==
    ASSUME IInv, GameAssumption, NEW t \in Clients, NEW l \in Waiting, NEW r \in Rows,
           NEW changed \in SUBSET {"move_count", "winner", "sgf", "loss_streak", "hint_count"},
           NEW a \in Coords \cup Nat \cup {None},
           l = "move_wait" => a \in Coords, l = "undo_wait" => a \in Nat,
           pc[t] \notin WritePhase, Goto(t, l), Edit(t, r, changed), arg' = [arg EXCEPT ![t] = a],
           lockOf' = [lockOf EXCEPT ![t] = lock],
           Over_(db) \/ (writer # t /\ (cache # None \/ changed = {})),
           UNCHANGED <<store, memory, pos, crashes>>
    PROVE  Safe
<1>. USE DEF Goto, Edit, store, memory
<1>1. LocalTypes /\ StoreTypes /\ (db.status = "active" => lock = 0)
  BY OwnHandler
<1>2. LocalTypes'
  BY <1>1 DEF LocalTypes, Busy, StoreTypes, Attributes
<1>3. GlobalStep /\ Quiet
  BY StillStore
<1>4. Frame(t)
  BY <1>1, <1>3 DEF LocalTypes, Frame, Untouched, WritePhase, Waiting
<1>5. HandlerInv(t)'
  <2>1. /\ pc'[t] = l /\ row'[t] = r /\ dirty'[t] = changed /\ arg'[t] = a
        /\ lockOf'[t] = lock
    BY <1>1 DEF LocalTypes
  <2>2. Loaded(t)' /\ Changed(t)' /\ Fits(t)'
    BY <2>1 DEF Loaded, Changed, Fits, Waiting
  <2>3. Sealed(t)'
    BY <1>1, <2>1 DEF Sealed, Waiting, Over_, Releasing
  <2>. QED
    BY <2>2, <2>3 DEF HandlerInv
<1>. QED
  BY <1>2, <1>3, <1>4, <1>5, StepKeeps

(* What an open connection that has just been asked something knows.       *)
LEMMA IdleHandler ==
    ASSUME IInv, NEW t \in Clients, pc[t] \in {Idle, "score_engine"}
    PROVE  /\ row[t] \in Rows
           /\ dirty[t] \in SUBSET (Attributes \ {"undo_count", "status"})
           /\ Over_(db) \/ (writer # t /\ (cache # None \/ dirty[t] = {}))
<1>1. LocalTypes /\ Loaded(t) /\ Changed(t) /\ Sealed(t)
  BY OwnHandler
<1>. QED
  BY <1>1 DEF LocalTypes, Loaded, Changed, Sealed, Idle, Closed

LEMMA StartMoveKeeps ==
    ASSUME IInv, GameAssumption, NEW t \in Clients, StartMove(t)
    PROVE  Safe
<1>1. pc[t] = Idle /\ LocalTypes
  BY OwnHandler DEF StartMove, CanAsk
<1>2. PICK c \in Coords : arg' = [arg EXCEPT ![t] = c]
  BY DEF StartMove
<1>3. Edit(t, row[t], dirty[t])
  BY <1>1 DEF StartMove, Edit, LocalTypes
<1>. QED
  BY <1>1, <1>2, <1>3, IdleHandler, WaitKeeps
     DEF StartMove, Waiting, Attributes, Idle, WritePhase

LEMMA LockMoveKeeps ==
    ASSUME IInv, GameAssumption, NEW t \in Clients, LockMove(t)
    PROVE  Safe
<1>. DEFINE r == Refreshed(t)
<1>. USE DEF LockMove
<1>1. /\ StoreTypes /\ LocalTypes /\ Contiguous /\ UndoBounded
      /\ db.status = "active" => lock = 0
      /\ Sealed(t) /\ Loaded(t)
  BY TypesSplit DEF IInv, HandlerInv
<1>2. r \in Rows /\ StateInHand \in Positions /\ pc[t] \in Waiting
  BY RefreshSafe, StateInHandType DEF Waiting
<1>3. GlobalStep /\ Quiet
  <2>1. StoreTypes' /\ (cache' = None => cache = None)
    BY <1>1, <1>2 DEF StoreTypes, StateInHand
  <2>. QED
    BY <1>1, <2>1 DEF GlobalStep, Quiet, Contiguous, UndoBounded, Over_
<1>. HIDE DEF r
<1>4. CASE Shut(t)
  BY <1>3, <1>4, ShutKeeps
<1>5. CASE Answer(t, r, StillDirty(t))
  BY <1>2, <1>3, <1>5, RefreshSafe, AnswerKeeps DEF GlobalStep
<1>6. CASE /\ r.status = "active"
           /\ cache' = StateInHand
           /\ ToMove(StateInHand) = UserColor
           /\ Goto(t, "move_engine")
           /\ pos' = [pos EXCEPT ![t] = Append(StateInHand,
                          [color |-> UserColor, coord |-> arg[t]])]
           /\ Edit(t, [r EXCEPT !.move_count = @ + 1], StillDirty(t) \cup {"move_count"})
           /\ UNCHANGED <<writer, live, arg, lockOf>>
  <2>. USE <1>6
  <2>1. db.status = "active" /\ writer # t /\ r = db /\ StillDirty(t) = {}
    BY <1>2, RefreshSafe DEF r
  <2>2. [color |-> UserColor, coord |-> arg[t]] \in Move
    BY <1>1 DEF Loaded, Move, GameAssumption
  <2>3. Append(StateInHand, [color |-> UserColor, coord |-> arg[t]]) \in Positions
    BY <1>2, <2>2 DEF Positions
  <2>4. [r EXCEPT !.move_count = @ + 1] \in Rows
    BY <1>2, SMTT(30) DEF Rows
  <2>5. LocalTypes'
    BY <1>1, <2>1, <2>3, <2>4 DEF LocalTypes, Goto, Edit, Busy, Critical, Attributes
  <2>6. \A u \in Clients \ {t} : pc[u] \notin WritePhase
    BY <2>1 DEF IInv, HandlerInv, Sealed, Over_, LockFree, WritePhase, Critical
  <2>7. Frame(t)
    BY <1>1, <1>3, <2>6 DEF LocalTypes, Frame, Untouched, Goto, Edit
  <2>8. HandlerInv(t)'
    <3>1. /\ pc'[t] = "move_engine" /\ dirty'[t] = {"move_count"}
          /\ row'[t] = [r EXCEPT !.move_count = @ + 1]
          /\ pos'[t] = Append(StateInHand, [color |-> UserColor, coord |-> arg[t]])
          /\ writer' # t /\ lockOf'[t] = 0
      BY <1>1, <2>1 DEF LocalTypes, Goto, Edit, Sealed, Over_
    <3>2. row'[t].move_count = db.move_count + 1 /\ row'[t].status = "active"
      BY <3>1, <2>1, <1>2 DEF Rows
    <3>3. pos'[t] # <<>> /\ pos'[t][Len(pos'[t])].color = UserColor
      BY <3>1, <1>2, <2>2, AppendLast DEF Positions
    <3>4. cache' # None
      BY <1>2, NoneIsNoPosition
    <3>. QED
      BY <3>1, <3>2, <3>3, <3>4, <2>4 DEF HandlerInv, Loaded, Changed, Sealed, Fits, Releasing, WritePhase, Over_
  <2>. QED
    BY <1>3, <2>5, <2>7, <2>8, StepKeeps
<1>. QED
  BY <1>4, <1>5, <1>6 DEF r

(* One more move, and the end of a game, in a row.                        *)
LEMMA OneMoreMove ==
    ASSUME NEW r \in Rows
    PROVE  LET more == [r EXCEPT !.move_count = @ + 1]
           IN  /\ more \in Rows /\ more.move_count = r.move_count + 1
               /\ more.status = r.status
  BY DEF Rows

LEMMA EndedIsRow ==
    ASSUME NEW r \in Rows, NEW s \in {"finished", "resigned"}, NEW w \in {"user", "ai"},
           NEW g \in Positions \cup {None}
    PROVE  /\ Ended(r, s, w, g) \in Rows /\ Over_(Ended(r, s, w, g))
           /\ Ended(r, s, w, g).move_count = r.move_count
  BY DEF Ended, Rows, Statuses, Over_

(* The batch of a position that ends with the user's move, or with the     *)
(* user's and the AI's.                                                    *)
BatchOf(p, n) ==
    LET k == IF p[Len(p)].color = AiColor THEN 2 ELSE 1
    IN [i \in (n - k + 1)..n |-> p[Len(p) - n + i]]

LEMMA Batch ==
    ASSUME NEW n \in Nat, NEW p \in Seq(Move), p # <<>>,
           p[Len(p)].color # AiColor \/ Len(p) >= 2
    PROVE  /\ BatchOf(p, n) \in [DOMAIN BatchOf(p, n) -> Move]
           /\ DOMAIN BatchOf(p, n) = (IF p[Len(p)].color = AiColor THEN n - 1 ELSE n)..n
<1>. DEFINE k == IF p[Len(p)].color = AiColor THEN 2 ELSE 1
<1>1. Len(p) \in Nat /\ k \in 1..2 /\ k <= Len(p)
  OBVIOUS
<1>2. BatchOf(p, n) = [i \in (n - k + 1)..n |-> p[Len(p) - n + i]]
  BY DEF BatchOf
<1>3. n - k + 1 = IF p[Len(p)].color = AiColor THEN n - 1 ELSE n
  OBVIOUS
<1>. HIDE DEF k
<1>4. ASSUME NEW i \in (n - k + 1)..n
      PROVE  p[Len(p) - n + i] \in Move
  <2>1. Len(p) - n + i \in 1..Len(p)
    BY <1>1
  <2>. QED
    BY <2>1
<1>. QED
  BY <1>2, <1>3, <1>4

LEMMA MoveEngineKeeps ==
    ASSUME IInv, GameAssumption, NEW t \in Clients, MoveEngine(t)
    PROVE  Safe
<1>. DEFINE Frozen == UNCHANGED <<exists, db, moves, cache, lock, crashes>>
            Round(p, r, changed) ==
                /\ pos' = [pos EXCEPT ![t] = p] /\ Edit(t, r, changed)
                /\ Goto(t, "move_commit") /\ UNCHANGED <<arg, lockOf, writer, live>>
<1>1. /\ StoreTypes /\ LocalTypes /\ Loaded(t) /\ Changed(t) /\ Sealed(t) /\ Fits(t)
      /\ pc[t] = "move_engine" /\ Frozen
  BY OwnHandler DEF MoveEngine
<1>2. GlobalStep /\ Quiet
  BY <1>1, StillStore
<1>3. row[t] \in Rows /\ pos[t] \in Seq(Move) /\ dirty[t] \subseteq Attributes
  BY <1>1 DEF Loaded, Closed, LocalTypes, Positions
<1>4. CASE Shut(t)
  BY <1>2, <1>4, ShutKeeps
<1>5. CASE Answer(t, row[t], dirty[t])
  <2>1. dirty[t] \in SUBSET (Attributes \ {"undo_count", "status"})
    BY <1>1, <1>3 DEF Changed
  <2>2. Over_(db') \/ (writer # t /\ cache' # None)
    BY <1>1 DEF Sealed, Changed
  <2>. QED
    BY <1>2, <1>3, <1>5, <2>1, <2>2, AnswerKeeps
(* The round went through: its batch is p's tail and its row is r.         *)
<1>6. ASSUME NEW p \in Seq(Move), NEW r \in Rows, NEW changed \in SUBSET Attributes,
             Round(p, r, changed), p # <<>>,
             \/ p[Len(p)].color # AiColor /\ r.move_count = row[t].move_count
             \/ /\ p[Len(p)].color = AiColor /\ Len(p) >= 2
                /\ r.move_count = row[t].move_count + 1,
             "move_count" \in changed, "undo_count" \notin changed,
             "status" \in changed <=> Over_(r)
      PROVE  Safe
  <2>1. LocalTypes'
    BY <1>1, <1>6 DEF LocalTypes, Goto, Edit, Busy, Critical, Positions
  <2>2. Frame(t)
    BY <1>1, <1>2, <1>6 DEF LocalTypes, Frame, Untouched, Goto, Edit, WritePhase
  <2>3. /\ pc'[t] = "move_commit" /\ row'[t] = r /\ dirty'[t] = changed /\ pos'[t] = p
        /\ lockOf'[t] = lockOf[t] /\ writer' = writer
    BY <1>1, <1>6 DEF LocalTypes, Goto, Edit
  <2>4. Loaded(t)' /\ Changed(t)' /\ Sealed(t)'
    BY <1>1, <1>6, <2>3 DEF Loaded, Changed, Sealed, Closed, Waiting, WritePhase, Idle, Releasing, Over_
  <2>5. Fits(t)'
    <3>1. row'[t].move_count \in Nat /\ row[t].move_count \in Nat /\ db.move_count \in Nat
      BY <1>1, <1>3, <2>3 DEF Rows, StoreTypes
    <3>2. /\ NewRows(t)' \in [DOMAIN NewRows(t)' -> Move]
          /\ DOMAIN NewRows(t)' =
                (IF p[Len(p)].color = AiColor THEN r.move_count - 1 ELSE r.move_count)
                   ..r.move_count
      <4>1. NewRows(t)' = BatchOf(p, r.move_count)
        BY <2>3 DEF NewRows, BatchOf
      <4>. QED
        BY <1>6, <2>3, <3>1, <4>1, Batch
    <3>3. exists' => r.move_count = db'.move_count + (IF p[Len(p)].color = AiColor THEN 2 ELSE 1)
      BY <1>1, <1>6, <3>1 DEF Fits
    <3>. QED
      BY <1>1, <2>3, <3>1, <3>2, <3>3 DEF Fits
  <2>. QED
    BY <1>2, <2>1, <2>2, <2>4, <2>5, StepKeeps DEF HandlerInv
<1>7. pos[t] # <<>> /\ pos[t][Len(pos[t])].color # AiColor /\ "move_count" \in dirty[t]
      /\ "undo_count" \notin dirty[t] /\ "status" \notin dirty[t]
  BY <1>1 DEF Fits, Changed, AiColor, Opponent, Colors, GameAssumption
<1>8. row[t].status = "active" /\ row[t].sgf \in Positions \cup {None}
  BY <1>1, <1>3, <1>7 DEF Changed, Over_, Rows
<1>9. pos = [pos EXCEPT ![t] = pos[t]]
  BY <1>1 DEF LocalTypes
<1>. HIDE DEF Round
<1>10. CASE /\ \E w \in {"user", "ai"} :
                 Edit(t, Ended(row[t], "finished", w, pos[t]), dirty[t] \cup EndFields)
            /\ Goto(t, "move_commit")
            /\ UNCHANGED <<pos, arg, lockOf, writer, live>>
  <2>1. PICK w \in {"user", "ai"} :
            Edit(t, Ended(row[t], "finished", w, pos[t]), dirty[t] \cup EndFields)
    BY <1>10
  <2>2. Round(pos[t], Ended(row[t], "finished", w, pos[t]), dirty[t] \cup EndFields)
    BY <1>9, <1>10, <2>1 DEF Round
  <2>3. LET e == Ended(row[t], "finished", w, pos[t])
        IN  e \in Rows /\ Over_(e) /\ e.move_count = row[t].move_count
    BY <1>3, EndedIsRow DEF Positions
  <2>4. LET d == dirty[t] \cup EndFields
        IN  /\ d \in SUBSET Attributes /\ "status" \in d /\ "move_count" \in d
            /\ "undo_count" \notin d
    BY <1>3, <1>7 DEF EndFields, Attributes
  <2>. QED
    BY <1>3, <1>6, <1>7, <2>2, <2>3, <2>4
<1>11. CASE /\ Edit(t, Ended(row[t], "resigned", "user", row[t].sgf),
                    dirty[t] \cup {"status", "winner"})
            /\ Goto(t, "move_commit")
            /\ UNCHANGED <<pos, arg, lockOf, writer, live>>
  <2>1. Round(pos[t], Ended(row[t], "resigned", "user", row[t].sgf),
              dirty[t] \cup {"status", "winner"})
    BY <1>9, <1>11 DEF Round
  <2>2. LET e == Ended(row[t], "resigned", "user", row[t].sgf)
        IN  e \in Rows /\ Over_(e) /\ e.move_count = row[t].move_count
    BY <1>3, <1>8, EndedIsRow
  <2>3. LET d == dirty[t] \cup {"status", "winner"}
        IN  /\ d \in SUBSET Attributes /\ "status" \in d /\ "move_count" \in d
            /\ "undo_count" \notin d
    BY <1>3, <1>7 DEF Attributes
  <2>. QED
    BY <1>3, <1>6, <1>7, <2>1, <2>2, <2>3
<1>12. ASSUME NEW c \in Coords, NEW w \in {"user", "ai"}, NEW p, NEW r,
              p = Append(pos[t], [color |-> AiColor, coord |-> c]),
              r = [row[t] EXCEPT !.move_count = @ + 1],
              pos' = [pos EXCEPT ![t] = p],
              IF IsGameOver(p) THEN Edit(t, Ended(r, "finished", w, p), dirty[t] \cup EndFields)
              ELSE Edit(t, r, dirty[t]),
              Goto(t, "move_commit"), UNCHANGED <<arg, lockOf, writer, live>>
       PROVE  Safe
  <2>1. [color |-> AiColor, coord |-> c] \in Move
    BY DEF Move, AiColor, Opponent, Colors
  <2>2. /\ p \in Seq(Move) /\ p # <<>> /\ Len(p) >= 2
        /\ p[Len(p)].color = AiColor
    BY <1>3, <1>7, <1>12, <2>1, AppendLast
  <2>3. r \in Rows /\ r.move_count = row[t].move_count + 1 /\ r.status = "active"
    BY <1>3, <1>8, <1>12, OneMoreMove
  <2>4. CASE IsGameOver(p)
    <3>1. Round(p, Ended(r, "finished", w, p), dirty[t] \cup EndFields)
      BY <1>12, <2>4 DEF Round
    <3>2. LET e == Ended(r, "finished", w, p)
          IN  e \in Rows /\ Over_(e) /\ e.move_count = r.move_count
      BY <2>2, <2>3, EndedIsRow DEF Positions
    <3>3. LET d == dirty[t] \cup EndFields
          IN  /\ d \in SUBSET Attributes /\ "status" \in d /\ "move_count" \in d
              /\ "undo_count" \notin d
      BY <1>3, <1>7 DEF EndFields, Attributes
    <3>. QED
      BY <1>6, <2>2, <2>3, <3>1, <3>2, <3>3
  <2>5. CASE ~IsGameOver(p)
    <3>1. Round(p, r, dirty[t])
      BY <1>12, <2>5 DEF Round
    <3>. QED
      BY <1>3, <1>6, <1>7, <2>2, <2>3, <3>1 DEF Over_
  <2>. QED
    BY <2>4, <2>5
<1>. QED
  BY <1>4, <1>5, <1>10, <1>11, <1>12 DEF MoveEngine

LEMMA MoveCommitKeeps ==
    ASSUME IInv, GameAssumption, NEW t \in Clients, MoveCommit(t)
    PROVE  Safe
<1>. USE DEF MoveCommit, Commit, CanWrite, Goto, memory
<1>1. /\ StoreTypes /\ LocalTypes /\ Contiguous /\ (db.status = "active" => lock = 0)
      /\ Loaded(t) /\ Changed(t) /\ Sealed(t) /\ Fits(t)
  BY OwnHandler
<1>2. /\ Flush(t) \in Rows /\ (Over_(db) => Over_(Flush(t)))
      /\ "status" \in dirty[t] => Over_(Flush(t))
      /\ Flush(t).undo_count <= UndoLimit /\ Flush(t).move_count = row[t].move_count
  BY <1>1, FlushSafe DEF Changed, Closed
<1>3. /\ row[t] \in Rows /\ row[t].move_count \in Nat /\ db.move_count \in Nat
      /\ db.move_count < row[t].move_count
      /\ DOMAIN moves = 1..db.move_count
      /\ DOMAIN NewRows(t) = (db.move_count + 1)..row[t].move_count
      /\ \A i \in DOMAIN NewRows(t) : NewRows(t)[i] \in Move
  BY <1>1 DEF Fits, Loaded, StoreTypes, Contiguous, Rows, Closed
<1>4. DOMAIN moves' = 1..row[t].move_count /\ \A n \in DOMAIN moves' : moves'[n] \in Move
  BY <1>1, <1>3 DEF Insert, StoreTypes
<1>5. GlobalStep
  BY <1>1, <1>2, <1>3, <1>4 DEF GlobalStep, StoreTypes, Contiguous, UndoBounded, Over_
<1>6. LocalTypes'
  BY <1>1 DEF LocalTypes, Busy, Critical
<1>7. Frame(t)
  BY <1>1 DEF LocalTypes, Frame, Untouched, WritePhase
<1>8. HandlerInv(t)'
  <2>1. /\ pc'[t] = "move_cache" /\ dirty'[t] = {} /\ row'[t] = row[t] /\ writer' = None
        /\ lockOf'[t] = lockOf[t] /\ (Over_(row[t]) => Over_(db')) /\ (Over_(db) => Over_(db'))
    BY <1>1, <1>2 DEF LocalTypes, Changed
  <2>. QED
    BY <1>1, <1>3, <2>1 DEF HandlerInv, Loaded, Changed, Sealed, Fits, Releasing, GameAssumption
<1>. QED
  BY <1>5, <1>6, <1>7, <1>8, StepKeeps

LEMMA MoveCacheKeeps ==
    ASSUME IInv, GameAssumption, NEW t \in Clients, MoveCache(t)
    PROVE  Safe
<1>. USE DEF MoveCache, Goto, store
<1>1. /\ StoreTypes /\ LocalTypes /\ Contiguous /\ UndoBounded
      /\ (db.status = "active" => lock = 0)
      /\ Loaded(t) /\ Changed(t) /\ Sealed(t)
  BY OwnHandler
<1>2. pos[t] \in Positions /\ cache' = pos[t] /\ cache' # None
  BY <1>1, NoneIsNoPosition DEF LocalTypes
<1>3. GlobalStep /\ Quiet
  BY <1>1, <1>2 DEF GlobalStep, Quiet, StoreTypes, Contiguous, UndoBounded, Over_
<1>4. LocalTypes'
  BY <1>1 DEF LocalTypes, Busy, Critical
<1>5. Frame(t)
  BY <1>1, <1>3 DEF LocalTypes, Frame, Untouched, WritePhase
<1>6. HandlerInv(t)'
  <2>1. /\ pc'[t] = IF Over_(row[t]) THEN "move_release" ELSE "move_post"
        /\ Over_(row[t]) => Over_(db)
    BY <1>1 DEF LocalTypes, Sealed, Over_
  <2>. QED
    BY <1>1, <1>2, <2>1 DEF HandlerInv, Loaded, Changed, Sealed, Fits, Releasing, Waiting,
                            WritePhase, Idle, Closed, Over_
<1>. QED
  BY <1>3, <1>4, <1>5, <1>6, StepKeeps

(* A handler that edits its row on the way to a commit at l.               *)
LEMMA EditKeeps ==
    ASSUME IInv, GameAssumption, NEW t \in Clients, NEW r \in Rows,
           NEW l \in {"move_streak", "move_end", "score_commit"},
           NEW changed \in SUBSET {"status", "winner", "sgf", "loss_streak"},
           pc[t] \in {"move_post", "move_streak", "score_wait"}, Goto(t, l), Edit(t, r, changed),
           UNCHANGED <<live, pos, arg, lockOf>>, writer' \in {writer, None},
           GlobalStep, Quiet,
           IF l = "move_streak" THEN changed = {"loss_streak"}
           ELSE "status" \in changed /\ Over_(r),
           Over_(db') \/ (writer' # t /\ (cache' # None \/ l = "score_commit"))
    PROVE  Safe
<1>. USE DEF Goto, Edit
<1>1. LocalTypes /\ Sealed(t)
  BY OwnHandler
<1>2. LocalTypes'
  BY <1>1 DEF LocalTypes, Busy, Critical, Attributes
<1>3. Frame(t)
  BY <1>1 DEF LocalTypes, Frame, Untouched, WritePhase
<1>4. HandlerInv(t)'
  <2>1. /\ pc'[t] = l /\ row'[t] = r /\ dirty'[t] = changed
        /\ lockOf'[t] = lockOf[t] /\ (Over_(db) => Over_(db'))
    BY <1>1 DEF LocalTypes, GlobalStep
  <2>. QED
    BY <1>1, <2>1 DEF HandlerInv, Loaded, Changed, Sealed, Fits, Releasing
<1>. QED
  BY <1>2, <1>3, <1>4, StepKeeps

LEMMA MovePostKeeps ==
    ASSUME IInv, GameAssumption, NEW t \in Clients, MovePost(t)
    PROVE  Safe
<1>1. /\ LocalTypes /\ Loaded(t) /\ Changed(t) /\ Sealed(t)
      /\ pc[t] = "move_post" /\ UNCHANGED <<exists, db, moves, cache, lock, crashes>>
  BY OwnHandler DEF MovePost
<1>2. GlobalStep /\ Quiet
  BY <1>1, StillStore
<1>3. row[t] \in Rows /\ pos[t] \in Positions
  BY <1>1 DEF Loaded, LocalTypes, Closed
<1>4. Over_(db') \/ (writer # t /\ cache' # None)
  BY <1>1 DEF Sealed, Over_
<1>5. CASE Answer(t, row[t], {})
  BY <1>2, <1>3, <1>4, <1>5, AnswerKeeps
<1>6. ASSUME NEW n \in Nat, Edit(t, [row[t] EXCEPT !.loss_streak = n], {"loss_streak"}),
             Goto(t, "move_streak"), UNCHANGED <<pos, arg, lockOf, writer, live>>
      PROVE  Safe
  <2>1. [row[t] EXCEPT !.loss_streak = n] \in Rows
    BY <1>3 DEF Rows
  <2>. QED
    BY <1>1, <1>2, <1>4, <1>6, <2>1, EditKeeps
<1>7. ASSUME NEW s \in {"finished", "resigned"}, NEW w \in {"user", "ai"},
             Edit(t, Ended(row[t], s, w, pos[t]), EndFields), Goto(t, "move_end"),
             UNCHANGED <<pos, arg, lockOf, writer, live>>
      PROVE  Safe
  <2>1. Ended(row[t], s, w, pos[t]) \in Rows /\ Over_(Ended(row[t], s, w, pos[t]))
    BY <1>3, EndedIsRow
  <2>. QED
    BY <1>1, <1>2, <1>4, <1>7, <2>1, EditKeeps DEF EndFields
<1>. DEFINE Rest == UNCHANGED <<pos, arg, lockOf, writer, live>>
<1>8. row[t].loss_streak + 1 \in Nat
  BY <1>3 DEF Rows
<1>9. CASE /\ Edit(t, [row[t] EXCEPT !.loss_streak = @ + 1], {"loss_streak"})
           /\ Goto(t, "move_streak") /\ Rest
  BY <1>6, <1>8, <1>9
<1>10. CASE /\ Edit(t, [row[t] EXCEPT !.loss_streak = 0], {"loss_streak"})
            /\ Goto(t, "move_streak") /\ Rest
  BY <1>6, <1>10
<1>11. CASE /\ Edit(t, Ended(row[t], "resigned", "user", pos[t]), EndFields)
            /\ Goto(t, "move_end") /\ Rest
  BY <1>7, <1>11
<1>12. CASE /\ \E w \in {"user", "ai"} : Edit(t, Ended(row[t], "finished", w, pos[t]), EndFields)
            /\ Goto(t, "move_end") /\ Rest
  BY <1>7, <1>12
<1>. QED
  BY <1>5, <1>9, <1>10, <1>11, <1>12 DEF MovePost

LEMMA MoveStreakKeeps ==
    ASSUME IInv, GameAssumption, NEW t \in Clients, MoveStreak(t)
    PROVE  Safe
<1>1. /\ StoreTypes /\ LocalTypes /\ Contiguous /\ (db.status = "active" => lock = 0)
      /\ Loaded(t) /\ Changed(t) /\ Sealed(t) /\ pc[t] = "move_streak"
      /\ db' = Flush(t) /\ writer' = None /\ UNCHANGED <<exists, moves, cache, lock, crashes>>
  BY OwnHandler DEF MoveStreak
<1>2. "move_count" \notin dirty[t] /\ row[t] \in Rows /\ pos[t] \in Positions
  BY <1>1 DEF Changed, Loaded, LocalTypes, Waiting, WritePhase, Idle, Closed
<1>3. /\ Flush(t) \in Rows /\ (Over_(db) => Over_(Flush(t)))
      /\ Flush(t).undo_count <= UndoLimit /\ Flush(t).move_count = db.move_count
  BY <1>1, <1>2, FlushSafe DEF Closed
<1>4. GlobalStep /\ Quiet
  BY <1>1, <1>3 DEF GlobalStep, Quiet, StoreTypes, Contiguous, UndoBounded, Over_
<1>5. CASE /\ Edit(t, Ended(row[t], "resigned", "user", pos[t]), EndFields)
           /\ Goto(t, "move_end") /\ UNCHANGED <<live, pos, arg, lockOf>>
  <2>1. LET e == Ended(row[t], "resigned", "user", pos[t]) IN e \in Rows /\ Over_(e)
    BY <1>2, EndedIsRow
  <2>2. Over_(db') \/ cache' # None
    <3>1. Over_(db) \/ cache # None
      BY <1>1 DEF Sealed
    <3>. QED
      BY <1>1, <1>3, <3>1
  <2>. QED
    BY <1>1, <1>4, <1>5, <2>1, <2>2, EditKeeps DEF EndFields, GameAssumption
<1>6. CASE Reply(t, row[t], {})
  BY <1>1, <1>2, <1>4, <1>6, ReplyKeeps DEF GameAssumption
<1>. QED
  BY <1>5, <1>6 DEF MoveStreak

(* The commit of an ending, and the release after it.                      *)
LEMMA EndCommitKeeps ==
    ASSUME IInv, GameAssumption, NEW t \in Clients, NEW l \in Releasing,
           pc[t] \in {"move_end", "score_commit", "resign_commit"},
           Commit(t, moves), Goto(t, l), UNCHANGED <<memory, row, pos, arg, lockOf, crashes>>
    PROVE  Safe
<1>. USE DEF Commit, Goto, memory
<1>1. /\ StoreTypes /\ LocalTypes /\ Contiguous /\ (db.status = "active" => lock = 0)
      /\ Loaded(t) /\ Changed(t) /\ Sealed(t)
  BY OwnHandler
<1>2. "move_count" \notin dirty[t] /\ "status" \in dirty[t] /\ row[t] \in Rows
  BY <1>1 DEF Changed, Loaded, Waiting, WritePhase, Idle, Closed
<1>3. /\ Flush(t) \in Rows /\ Over_(Flush(t))
      /\ Flush(t).undo_count <= UndoLimit /\ Flush(t).move_count = db.move_count
  BY <1>1, <1>2, FlushSafe DEF Closed
<1>4. GlobalStep /\ Quiet
  BY <1>1, <1>3 DEF GlobalStep, Quiet, StoreTypes, Contiguous, UndoBounded, Over_
<1>5. LocalTypes'
  BY <1>1 DEF LocalTypes, Busy, Critical, Releasing
<1>6. Frame(t)
  BY <1>1, <1>4 DEF LocalTypes, Frame, Untouched, WritePhase, Releasing
<1>7. HandlerInv(t)'
  <2>1. pc'[t] = l /\ dirty'[t] = {} /\ row'[t] = row[t] /\ lockOf'[t] = lockOf[t] /\ Over_(db')
    BY <1>1, <1>3 DEF LocalTypes
  <2>. QED
    BY <1>1, <1>2, <2>1 DEF HandlerInv, Loaded, Changed, Sealed, Fits, Releasing
<1>. QED
  BY <1>4, <1>5, <1>6, <1>7, StepKeeps

LEMMA ReleaseSafe ==
    ASSUME IInv, NEW t \in Clients, pc[t] \in Releasing, Release,
           UNCHANGED <<exists, db, moves, crashes>>
    PROVE  GlobalStep /\ Quiet /\ Over_(db') /\ row[t] \in Rows
<1>1. StoreTypes /\ Contiguous /\ UndoBounded /\ Sealed(t) /\ Loaded(t)
  BY OwnHandler
<1>2. Over_(db) /\ row[t] \in Rows
  BY <1>1 DEF Sealed, Loaded, Releasing, Closed
<1>. QED
  BY <1>1, <1>2 DEF Release, GlobalStep, Quiet, StoreTypes, Contiguous, UndoBounded, Over_

LEMMA ReleaseKeeps ==
    ASSUME IInv, GameAssumption, NEW t \in Clients, MoveRelease(t) \/ ScoreRelease(t)
    PROVE  Safe
<1>1. pc[t] \in Releasing /\ Release /\ UNCHANGED <<exists, db, moves, crashes>>
      /\ Answer(t, row[t], {})
  BY DEF MoveRelease, ScoreRelease, Releasing
<1>. QED
  BY <1>1, ReleaseSafe, AnswerKeeps

LEMMA MoveEndKeeps ==
    ASSUME IInv, GameAssumption, NEW t \in Clients, MoveEnd(t) \/ ScoreCommit(t) \/ ResignCommit(t)
    PROVE  Safe
  BY EndCommitKeeps DEF MoveEnd, ScoreCommit, ResignCommit, Releasing

-----------------------------------------------------------------------------
(* undo_move.                                                              *)

LEMMA StartUndoKeeps ==
    ASSUME IInv, GameAssumption, NEW t \in Clients, StartUndo(t)
    PROVE  Safe
<1>1. pc[t] = Idle /\ LocalTypes
  BY OwnHandler DEF StartUndo, CanAsk
<1>2. PICK n \in Nat : arg' = [arg EXCEPT ![t] = n]
  BY DEF StartUndo, GameAssumption
<1>3. Edit(t, row[t], dirty[t])
  BY <1>1 DEF StartUndo, Edit, LocalTypes
<1>. QED
  BY <1>1, <1>2, <1>3, IdleHandler, WaitKeeps
     DEF StartUndo, Waiting, Attributes, Idle, WritePhase

LEMMA LockUndoKeeps ==
    ASSUME IInv, GameAssumption, NEW t \in Clients, LockUndo(t)
    PROVE  Safe
<1>. DEFINE r == Refreshed(t)
<1>1. /\ LocalTypes /\ Sealed(t) /\ Loaded(t)
      /\ pc[t] = "undo_wait" /\ LockFree(t) /\ UNCHANGED <<exists, db, moves, cache, lock, crashes>>
  BY OwnHandler DEF LockUndo
<1>2. r \in Rows /\ pc[t] \in Waiting
  BY <1>1, RefreshSafe DEF Waiting
<1>3. GlobalStep /\ Quiet
  BY <1>1, StillStore
<1>4. CASE Shut(t)
  BY <1>3, <1>4, ShutKeeps
<1>5. CASE Answer(t, r, StillDirty(t))
  BY <1>1, <1>2, <1>3, <1>5, RefreshSafe, AnswerKeeps
<1>6. CASE /\ MayUndo(r) /\ Edit(t, r, StillDirty(t)) /\ Goto(t, "undo_flush")
           /\ UNCHANGED <<writer, live, pos, arg, lockOf>>
  <2>. USE <1>6 DEF Goto, Edit
  <2>1. /\ db.status = "active" /\ writer # t /\ r = db /\ StillDirty(t) = {}
        /\ r.undo_count < UndoLimit
    BY <1>2, RefreshSafe DEF MayUndo
  <2>. HIDE DEF r
  <2>2. LocalTypes'
    BY <1>1, <1>2, <2>1 DEF LocalTypes, Busy, Critical
  <2>3. \A u \in Clients \ {t} : pc[u] \notin WritePhase
    BY <1>1, <2>1 DEF IInv, HandlerInv, Sealed, Over_, LockFree, WritePhase, Critical
  <2>4. Frame(t)
    BY <1>1, <1>3, <2>3 DEF LocalTypes, Frame, Untouched
  <2>5. HandlerInv(t)'
    <3>1. /\ pc'[t] = "undo_flush" /\ dirty'[t] = {} /\ row'[t] = r /\ arg'[t] \in Nat
          /\ writer' # t /\ lockOf'[t] = 0
      BY <1>1, <2>1 DEF LocalTypes, Sealed, Over_, Loaded
    <3>. QED
      BY <1>1, <1>2, <2>1, <3>1 DEF HandlerInv, Loaded, Changed, Sealed, Fits, Releasing, WritePhase
  <2>. QED
    BY <1>3, <2>2, <2>4, <2>5, StepKeeps
<1>. QED
  BY <1>4, <1>5, <1>6 DEF LockUndo

LEMMA UndoFlushKeeps ==
    ASSUME IInv, GameAssumption, NEW t \in Clients, UndoFlush(t)
    PROVE  Safe
<1>. DEFINE r == [row[t] EXCEPT !.move_count = @ - DeletedCount(t), !.undo_count = @ + 1]
<1>1. /\ StoreTypes /\ LocalTypes /\ Contiguous /\ UndoBounded
      /\ (db.status = "active" => lock = 0)
      /\ Loaded(t) /\ Changed(t) /\ Sealed(t) /\ Fits(t)
      /\ pc[t] = "undo_flush" /\ exists /\ writer' = t /\ cache' = Shortened(t)
      /\ Edit(t, r, dirty[t] \cup {"move_count", "undo_count"}) /\ Goto(t, "undo_commit")
      /\ UNCHANGED <<exists, db, moves, lock, live, pos, arg, lockOf, crashes>>
  BY OwnHandler DEF UndoFlush, CanWrite
<1>2. /\ row[t] \in Rows /\ db \in Rows /\ row[t].move_count = db.move_count
      /\ row[t].undo_count < UndoLimit /\ DOMAIN moves = 1..db.move_count /\ arg[t] \in Nat
  BY <1>1 DEF Loaded, Fits, StoreTypes, Contiguous, Closed
<1>3. PICK j \in 0..db.move_count : DOMAIN Kept(t) = 1..j /\ DeletedCount(t) = db.move_count - j
  <2>1. db.move_count \in Nat
    BY <1>2 DEF Rows
  <2>. QED
    BY <1>2, <2>1, UndoCutsShort
<1>4. r \in Rows /\ r.move_count = j /\ r.undo_count <= UndoLimit /\ r.status = row[t].status
  <2>1. /\ row[t].move_count - DeletedCount(t) = j /\ j \in Nat
        /\ row[t].undo_count + 1 \in Nat /\ row[t].undo_count + 1 <= UndoLimit
    BY <1>2, <1>3 DEF Rows, GameAssumption
  <2>. QED
    BY <1>2, <2>1 DEF Rows
<1>. HIDE DEF r
<1>5. cache' \in Positions /\ cache' # None
  <2>1. \A i \in 1..j : Kept(t)[i] \in Move
    BY <1>1, <1>3 DEF Kept, StoreTypes
  <2>. QED
    BY <1>1, <1>3, <2>1, ReplayOfInterval, NoneIsNoPosition DEF Shortened
<1>6. GlobalStep /\ Quiet
  BY <1>1, <1>5 DEF GlobalStep, Quiet, StoreTypes, Contiguous, UndoBounded, Over_
<1>7. LocalTypes'
  BY <1>1, <1>4 DEF LocalTypes, Goto, Edit, Busy, Critical, Attributes
<1>8. Frame(t)
  BY <1>1 DEF LocalTypes, Frame, Untouched, Goto, Edit, WritePhase
<1>9. HandlerInv(t)'
  <2>1. /\ pc'[t] = "undo_commit" /\ dirty'[t] = dirty[t] \cup {"move_count", "undo_count"}
        /\ row'[t] = r /\ arg'[t] = arg[t] /\ lockOf'[t] = lockOf[t]
    BY <1>1 DEF LocalTypes, Goto, Edit
  <2>2. Kept(t)' = Kept(t)
    BY <1>1 DEF Kept, TakenBack
  <2>3. Loaded(t)' /\ Fits(t)'
    BY <1>2, <1>3, <1>4, <2>1, <2>2 DEF Loaded, Fits
  <2>4. Changed(t)' /\ Sealed(t)'
    BY <1>1, <1>5, <2>1 DEF Changed, Sealed, Releasing, WritePhase, Over_
  <2>. QED
    BY <2>3, <2>4 DEF HandlerInv
<1>. QED
  BY <1>6, <1>7, <1>8, <1>9, StepKeeps

LEMMA UndoCommitKeeps ==
    ASSUME IInv, GameAssumption, NEW t \in Clients, UndoCommit(t)
    PROVE  Safe
<1>1. /\ StoreTypes /\ LocalTypes /\ Contiguous /\ (db.status = "active" => lock = 0)
      /\ Loaded(t) /\ Changed(t) /\ Sealed(t) /\ Fits(t)
      /\ pc[t] = "undo_commit" /\ exists /\ db' = Flush(t) /\ moves' = Kept(t) /\ writer' = None
      /\ Reply(t, row[t], {}) /\ UNCHANGED <<exists, cache, lock, crashes>>
  BY OwnHandler DEF UndoCommit, CanWrite
<1>2. row[t] \in Rows /\ DOMAIN Kept(t) = 1..row[t].move_count /\ "move_count" \in dirty[t]
  BY <1>1 DEF Loaded, Changed, Fits, Closed
<1>3. /\ Flush(t) \in Rows /\ (Over_(db) => Over_(Flush(t)))
      /\ Flush(t).undo_count <= UndoLimit /\ Flush(t).move_count = row[t].move_count
  BY <1>1, <1>2, FlushSafe DEF Closed
<1>4. \A n \in DOMAIN moves' : moves'[n] \in Move
  BY <1>1 DEF Kept, StoreTypes
<1>5. GlobalStep
  BY <1>1, <1>2, <1>3, <1>4 DEF GlobalStep, StoreTypes, Contiguous, UndoBounded, Over_
<1>. QED
  BY <1>1, <1>2, <1>5, ReplyKeeps DEF GameAssumption, WritePhase

-----------------------------------------------------------------------------
(* score_by_request and estimate_score.                                    *)

LEMMA StartScoreKeeps ==
    ASSUME IInv, GameAssumption, NEW t \in Clients, StartScore(t)
    PROVE  Safe
<1>. USE DEF StartScore, CanAsk, Goto, memory
<1>1. /\ StoreTypes /\ LocalTypes /\ Loaded(t) /\ Changed(t) /\ Sealed(t)
      /\ pc[t] = Idle /\ StateInHand \in Positions
  BY OwnHandler, StateInHandType
<1>2. /\ writer' \in {writer, t} /\ (writer' = t => writer = t \/ Over_(db))
  BY <1>1 DEF Sealed, Idle
<1>3. GlobalStep /\ Quiet
  BY StillStore
<1>4. LocalTypes'
  BY <1>1, <1>2 DEF LocalTypes, Busy
<1>5. Frame(t)
  BY <1>1, <1>2, <1>3 DEF LocalTypes, Frame, Untouched, WritePhase
<1>6. HandlerInv(t)'
  <2>1. pc'[t] = "score_engine" /\ row'[t] = row[t] /\ dirty'[t] = dirty[t] /\ lockOf'[t] = lockOf[t]
    BY <1>1 DEF LocalTypes
  <2>2. Loaded(t)' /\ Changed(t)' /\ Fits(t)'
    BY <1>1, <2>1 DEF Loaded, Changed, Fits, Idle, Closed
  <2>3. Sealed(t)'
    BY <1>1, <1>2, <2>1 DEF Sealed, Idle, Releasing
  <2>. QED
    BY <2>2, <2>3 DEF HandlerInv
<1>. QED
  BY <1>3, <1>4, <1>5, <1>6, StepKeeps

LEMMA ScoreEngineKeeps ==
    ASSUME IInv, GameAssumption, NEW t \in Clients, ScoreEngine(t)
    PROVE  Safe
<1>1. /\ LocalTypes /\ Changed(t) /\ pc[t] = "score_engine"
      /\ UNCHANGED <<exists, db, moves, cache, lock, crashes>>
  BY OwnHandler DEF ScoreEngine
<1>2. GlobalStep /\ Quiet
  BY <1>1, StillStore
<1>3. /\ row[t] \in Rows /\ dirty[t] \in SUBSET (Attributes \ {"undo_count", "status"})
      /\ Over_(db) \/ (writer # t /\ (cache # None \/ dirty[t] = {}))
  BY <1>1, IdleHandler
<1>4. CASE Answer(t, row[t], dirty[t])
  BY <1>1, <1>2, <1>3, <1>4, AnswerKeeps
<1>5. CASE /\ Goto(t, "score_wait") /\ lockOf' = [lockOf EXCEPT ![t] = lock]
           /\ UNCHANGED <<writer, live, row, dirty, pos, arg>>
  <2>1. Edit(t, row[t], dirty[t]) /\ arg' = [arg EXCEPT ![t] = arg[t]]
        /\ arg[t] \in Coords \cup Nat \cup {None}
    BY <1>1, <1>5 DEF Edit, LocalTypes
  <2>. QED
    BY <1>1, <1>3, <1>5, <2>1, WaitKeeps DEF Waiting, WritePhase, Attributes, store, memory
<1>. QED
  BY <1>4, <1>5 DEF ScoreEngine

LEMMA LockScoreKeeps ==
    ASSUME IInv, GameAssumption, NEW t \in Clients, LockScore(t)
    PROVE  Safe
<1>. DEFINE r == Refreshed(t)
<1>1. /\ LocalTypes /\ pc[t] = "score_wait" /\ UNCHANGED <<exists, db, moves, cache, lock, crashes>>
  BY OwnHandler DEF LockScore
<1>2. r \in Rows /\ pc[t] \in Waiting
  BY <1>1, RefreshSafe DEF Waiting
<1>3. GlobalStep /\ Quiet
  BY <1>1, StillStore
<1>4. CASE Shut(t)
  BY <1>3, <1>4, ShutKeeps
<1>5. CASE Answer(t, r, StillDirty(t)) /\ Over_(r)
  BY <1>1, <1>2, <1>3, <1>5, RefreshSafe, AnswerKeeps
<1>6. ASSUME NEW w \in {"user", "ai"}, r.status = "active",
             Edit(t, Ended(r, "finished", w, pos[t]), StillDirty(t) \cup EndFields),
             Goto(t, "score_commit"), UNCHANGED <<writer, live, pos, arg, lockOf>>
      PROVE  Safe
  <2>1. writer # t /\ StillDirty(t) = {}
    BY <1>2, <1>6, RefreshSafe
  <2>2. LET e == Ended(r, "finished", w, pos[t]) IN e \in Rows /\ Over_(e)
    BY <1>1, <1>2, EndedIsRow DEF LocalTypes
  <2>3. StillDirty(t) \cup EndFields = EndFields
    BY <2>1
  <2>. HIDE DEF r
  <2>. QED
    BY <1>1, <1>3, <1>6, <2>1, <2>2, <2>3, EditKeeps DEF EndFields
<1>. QED
  BY <1>4, <1>5, <1>6 DEF LockScore, Over_

-----------------------------------------------------------------------------
(* hint, resign and delete.                                                *)

LEMMA StartHintKeeps ==
    ASSUME IInv, GameAssumption, NEW t \in Clients, StartHint(t)
    PROVE  Safe
<1>1. LocalTypes /\ Sealed(t) /\ StoreTypes /\ pc[t] = Closed
  BY OwnHandler DEF StartHint, Request
<1>2. arg' = [arg EXCEPT ![t] = arg[t]] /\ arg[t] \in Coords \cup Nat \cup {None}
  BY <1>1 DEF StartHint, LocalTypes
<1>3. Over_(db) \/ writer # t
  BY <1>1 DEF Sealed, Closed
<1>. QED
  BY <1>1, <1>2, <1>3, WaitKeeps DEF StartHint, Waiting, WritePhase, Closed, StoreTypes

LEMMA LockHintKeeps ==
    ASSUME IInv, GameAssumption, NEW t \in Clients, LockHint(t)
    PROVE  Safe
<1>. USE DEF LockHint, Goto, store, memory
<1>1. /\ StoreTypes /\ LocalTypes /\ Loaded(t) /\ Changed(t) /\ Sealed(t) /\ pc[t] = "hint_wait"
  BY OwnHandler
<1>2. GlobalStep /\ Quiet
  BY StillStore
<1>3. LocalTypes'
  BY <1>1 DEF LocalTypes, Busy, Critical, StoreTypes
<1>4. Frame(t)
  BY <1>1, <1>2 DEF LocalTypes, Frame, Untouched, WritePhase
<1>5. HandlerInv(t)'
  <2>1. pc'[t] = "hint_engine"
    BY <1>1 DEF LocalTypes
  <2>. QED
    BY <1>1, <2>1 DEF HandlerInv, Loaded, Changed, Sealed, Fits, Closed, Releasing, Waiting
<1>. QED
  BY <1>2, <1>3, <1>4, <1>5, StepKeeps

LEMMA HintCommitKeeps ==
    ASSUME IInv, GameAssumption, NEW t \in Clients, HintCommit(t)
    PROVE  Safe
<1>1. /\ StoreTypes /\ Contiguous /\ UndoBounded /\ (db.status = "active" => lock = 0)
      /\ Loaded(t) /\ pc[t] = "hint_engine" /\ Shut(t)
      /\ db' = [db EXCEPT !.hint_count = row[t].hint_count + 1]
      /\ UNCHANGED <<exists, moves, cache, lock, crashes>>
  BY OwnHandler DEF HintCommit
<1>2. /\ db' \in Rows /\ db'.status = db.status /\ db'.undo_count = db.undo_count
      /\ db'.move_count = db.move_count
  <2>1. row[t].hint_count + 1 \in Nat
    BY <1>1 DEF Loaded, Closed, Rows
  <2>. QED
    BY <1>1, <2>1 DEF StoreTypes, Rows
<1>3. GlobalStep /\ Quiet
  BY <1>1, <1>2 DEF GlobalStep, Quiet, StoreTypes, Contiguous, UndoBounded, Over_
<1>. QED
  BY <1>1, <1>3, ShutKeeps

LEMMA StartResignKeeps ==
    ASSUME IInv, GameAssumption, NEW t \in Clients, StartResign(t)
    PROVE  Safe
<1>. DEFINE e == Ended(db, "resigned", "ai", StateInHand)
<1>1. /\ StoreTypes /\ LocalTypes /\ Sealed(t) /\ pc[t] = Closed
      /\ Edit(t, e, EndFields) /\ Goto(t, "resign_commit") /\ writer' \in {writer, t}
      /\ UNCHANGED <<exists, db, moves, cache, lock, live, pos, arg, lockOf, crashes>>
  BY OwnHandler DEF StartResign, Request, memory
<1>2. e \in Rows /\ Over_(e)
  BY <1>1, StateInHandType, EndedIsRow DEF StoreTypes
<1>. HIDE DEF e
<1>3. GlobalStep /\ Quiet
  BY <1>1, StillStore
<1>. USE DEF Goto, Edit
<1>4. LocalTypes'
  BY <1>1, <1>2 DEF LocalTypes, Busy, EndFields, Attributes
<1>5. Frame(t)
  BY <1>1, <1>3 DEF LocalTypes, Frame, Untouched, WritePhase
<1>6. HandlerInv(t)'
  <2>1. /\ pc'[t] = "resign_commit" /\ row'[t] = e /\ dirty'[t] = EndFields
        /\ lockOf'[t] = lockOf[t]
    BY <1>1 DEF LocalTypes
  <2>. QED
    BY <1>1, <1>2, <2>1 DEF HandlerInv, Loaded, Changed, Sealed, Fits, Closed, Releasing, EndFields
<1>. QED
  BY <1>3, <1>4, <1>5, <1>6, StepKeeps

LEMMA ResignReleaseKeeps ==
    ASSUME IInv, GameAssumption, NEW t \in Clients, ResignRelease(t)
    PROVE  Safe
<1>1. pc[t] \in Releasing /\ Release /\ UNCHANGED <<exists, db, moves, crashes>> /\ Shut(t)
  BY DEF ResignRelease, Releasing
<1>. QED
  BY <1>1, ReleaseSafe, ShutKeeps

LEMMA DeleteKeeps ==
    ASSUME IInv, GameAssumption, NEW t \in Clients, Delete(t)
    PROVE  Safe
<1>. USE DEF Delete, Request, memory, local
<1>1. /\ StoreTypes /\ LocalTypes /\ UndoBounded /\ (db.status = "active" => lock = 0)
      /\ pc[t] = Closed
  BY OwnHandler
<1>2. GlobalStep /\ Quiet /\ LocalTypes'
  <2>1. DOMAIN moves' = {}
    OBVIOUS
  <2>2. LocalTypes'
    BY <1>1 DEF LocalTypes
  <2>. QED
    BY <1>1, <2>1, <2>2 DEF GlobalStep, Quiet, StoreTypes, Contiguous, UndoBounded, Over_
<1>3. Frame(t)
  BY <1>1, <1>2 DEF Frame, Untouched, WritePhase, Closed
<1>4. HandlerInv(t)'
  BY <1>2, UntouchedKeeps DEF Untouched
<1>. QED
  BY <1>2, <1>3, <1>4, StepKeeps

-----------------------------------------------------------------------------
(* Connections, failures and restarts.                                     *)

LEMMA ConnectKeeps ==
    ASSUME IInv, GameAssumption, NEW t \in Clients, Connect(t)
    PROVE  Safe
<1>. USE DEF Connect
<1>1. /\ StoreTypes /\ LocalTypes /\ Sealed(t) /\ pc[t] = Closed
      /\ UNCHANGED <<exists, db, moves, cache, lock, crashes>>
  BY OwnHandler
<1>2. GlobalStep /\ Quiet
  BY <1>1, StillStore
<1>3. LocalTypes'
  <2>1. row' \in [Clients -> Rows \cup {None}] /\ dirty' \in [Clients -> SUBSET Attributes]
    BY <1>1 DEF LocalTypes, StoreTypes
  <2>2. pc' \in [Clients -> Busy \cup {Idle, Closed}]
    BY <1>1 DEF LocalTypes
  <2>. QED
    BY <1>1, <2>1, <2>2 DEF LocalTypes
<1>4. writer' \in {writer, None} /\ \A u \in Clients : Evicted(u) => writer' # u
  BY DEF GameAssumption
<1>5. ASSUME NEW u \in Clients
      PROVE  HandlerInv(u)' /\ (pc'[u] \in WritePhase => pc[u] \in WritePhase)
  <2>1. CASE u = t
    <3>1. pc'[t] = Idle /\ row'[t] = db /\ dirty'[t] = {} /\ lockOf'[t] = lockOf[t]
      BY <1>1 DEF LocalTypes
    <3>2. writer' = t => Over_(db)
      BY <1>1, <1>4 DEF Sealed, Closed, GameAssumption
    <3>. QED
      BY <1>1, <2>1, <3>1, <3>2
         DEF HandlerInv, Loaded, Changed, Sealed, Fits, Idle, Closed, Releasing, WritePhase, StoreTypes
  <2>2. CASE u # t /\ Evicted(u)
    <3>1. pc'[u] = Closed /\ dirty'[u] = {} /\ lockOf'[u] = lockOf[u] /\ writer' # u
      BY <1>1, <1>4, <2>2 DEF LocalTypes
    <3>2. Sealed(u)
      BY OwnHandler
    <3>. QED
      BY <1>1, <3>1, <3>2
         DEF HandlerInv, Loaded, Changed, Sealed, Fits, Idle, Closed, Releasing, WritePhase
  <2>3. CASE u # t /\ ~Evicted(u)
    <3>1. Untouched(u)
      BY <1>1, <2>3 DEF LocalTypes, Untouched
    <3>2. writer' = u => writer = u
      BY <1>4 DEF GameAssumption
    <3>. QED
      BY <1>2, <3>1, <3>2, UntouchedKeeps DEF Untouched
  <2>. QED
    BY <2>1, <2>2, <2>3
<1>6. OneWriter'
  BY <1>5 DEF IInv, OneWriter
<1>. QED
  BY <1>2, <1>3, <1>5, <1>6, TypesSplit DEF IInv, GlobalStep, Safe

LEMMA DropKeeps ==
    ASSUME IInv, GameAssumption, NEW t \in Clients, Drop(t)
    PROVE  Safe
<1>1. LocalTypes /\ UNCHANGED <<exists, db, moves, cache, lock, crashes>>
  BY OwnHandler DEF Drop
<1>2. GlobalStep /\ Quiet
  BY <1>1, StillStore
<1>3. CASE Shut(t)
  BY <1>2, <1>3, ShutKeeps
<1>4. CASE live' = None /\ UNCHANGED <<writer, local>>
  <2>. USE <1>4 DEF local
  <2>1. LocalTypes'
    BY <1>1 DEF LocalTypes
  <2>2. Frame(t)
    BY <1>2 DEF Frame, Untouched
  <2>3. HandlerInv(t)'
    BY <1>2, UntouchedKeeps DEF Untouched
  <2>. QED
    BY <1>2, <2>1, <2>2, <2>3, StepKeeps
<1>. QED
  BY <1>3, <1>4 DEF Drop

LEMMA AbortKeeps ==
    ASSUME IInv, GameAssumption, NEW t \in Clients, Abort(t)
    PROVE  Safe
<1>1. Shut(t) /\ UNCHANGED <<exists, db, moves, cache, lock, crashes>>
  BY DEF Abort, Fail
<1>. QED
  BY <1>1, StillStore, ShutKeeps

LEMMA CrashKeeps ==
    ASSUME IInv, GameAssumption, Crash
    PROVE  Safe
<1>. USE DEF Crash
<1>1. StoreTypes /\ LocalTypes /\ Contiguous /\ UndoBounded
  BY TypesSplit DEF IInv
<1>2. StoreTypes'
  BY <1>1 DEF StoreTypes
<1>3. LocalTypes'
  BY DEF LocalTypes, GameAssumption, Closed, Positions
<1>4. Contiguous' /\ UndoBounded' /\ OneWriter'
  BY <1>1 DEF Contiguous, UndoBounded, OneWriter, WritePhase, Closed
<1>5. ASSUME NEW t \in Clients
      PROVE  HandlerInv(t)'
  <2>1. pc'[t] = Closed /\ dirty'[t] = {} /\ lockOf'[t] = 0 /\ writer' # t
    BY DEF GameAssumption
  <2>. QED
    BY <2>1 DEF HandlerInv, Loaded, Changed, Sealed, Fits, Closed, Releasing
<1>. QED
  BY <1>2, <1>3, <1>4, <1>5, TypesSplit DEF IInv, Safe

-----------------------------------------------------------------------------
(* The theorems.                                                           *)

(* A game starts with an empty table, or with the AI's opener.             *)
LEMMA Opened ==
    ASSUME Init
    PROVE  \/ moves = <<>> /\ (FirstColor = UserColor \/ MayNotOpen)
           \/ FirstColor # UserColor /\ \E c \in Points : moves = <<[color |-> AiColor, coord |-> c]>>
<1>1. moves \in Openings
  BY DEF Init
<1>2. CASE FirstColor = UserColor
  BY <1>1, <1>2 DEF Openings
<1>3. CASE FirstColor # UserColor /\ MayNotOpen
  <2>1. moves \in {<<[color |-> AiColor, coord |-> c]>> : c \in Points} \cup {<<>>}
    BY <1>1, <1>3, Zenon DEF Openings
  <2>. QED
    BY <1>3, <2>1, Zenon
<1>4. CASE FirstColor # UserColor /\ ~MayNotOpen
  <2>1. moves \in {<<[color |-> AiColor, coord |-> c]>> : c \in Points} \cup {}
    BY <1>1, <1>4, Zenon DEF Openings
  <2>. QED
    BY <1>4, <2>1, Zenon
<1>. QED
  BY <1>2, <1>3, <1>4, Zenon

LEMMA InitHolds ==
    ASSUME Init, GameAssumption
    PROVE  IInv
<1>. USE DEF Init
<1>1. moves \in Seq(Move) /\ Len(moves) \in Nat /\ DOMAIN moves = 1..Len(moves)
  <2>1. ASSUME NEW c \in Points
        PROVE  <<[color |-> AiColor, coord |-> c]>> \in Seq(Move)
    <3>1. [color |-> AiColor, coord |-> c] \in Move
      BY DEF Move, Coords, AiColor, Opponent, Colors
    <3>. QED
      BY <3>1
  <2>2. moves = <<>> \/ \E c \in Points : moves = <<[color |-> AiColor, coord |-> c]>>
    BY Opened
  <2>3. moves \in Seq(Move)
    <3>1. <<>> \in Seq(Move)
      OBVIOUS
    <3>. QED
      BY <2>1, <2>2, <3>1, Zenon
  <2>. QED
    BY <2>3
<1>2. db \in Rows /\ db.move_count = Len(moves) /\ db.undo_count = 0 /\ db.status = "active"
  BY <1>1 DEF NewRow, Rows, Statuses
<1>3. StoreTypes
  BY <1>1, <1>2 DEF StoreTypes, Positions
<1>4. LocalTypes
  BY DEF LocalTypes, GameAssumption, Closed, Positions
<1>5. Contiguous /\ UndoBounded /\ OneWriter
  BY <1>1, <1>2 DEF Contiguous, UndoBounded, OneWriter, WritePhase, Closed, GameAssumption
<1>6. ASSUME NEW t \in Clients
      PROVE  HandlerInv(t)
  <2>1. pc[t] = Closed /\ dirty[t] = {} /\ lockOf[t] = 0 /\ writer # t
    BY DEF GameAssumption
  <2>. QED
    BY <2>1 DEF HandlerInv, Loaded, Changed, Sealed, Fits, Closed, Releasing
<1>. QED
  BY <1>3, <1>4, <1>5, <1>6, TypesSplit DEF IInv

(* Every action of the program keeps the invariant.                        *)
LEMMA NextKeeps ==
    ASSUME IInv, GameAssumption, [Next]_vars
    PROVE  Safe
<1>1. CASE UNCHANGED vars
  BY <1>1 DEF vars, store, memory, local, IInv, TypeOK, Contiguous, OneWriter, UndoBounded, HandlerInv,
              Loaded, Changed, Sealed, Fits, NewRows, Kept, TakenBack, Over_, Safe
<1>2. CASE Crash
  BY <1>2, CrashKeeps
<1>3. ASSUME NEW t \in Clients, Ask(t)
      PROVE  Safe
  BY <1>3, ConnectKeeps, DropKeeps, StartMoveKeeps, StartUndoKeeps, StartScoreKeeps,
     StartHintKeeps, StartResignKeeps, DeleteKeeps DEF Ask
<1>4. ASSUME NEW t \in Clients, Acquire(t)
      PROVE  Safe
  BY <1>4, LockMoveKeeps, LockUndoKeeps, LockScoreKeeps, LockHintKeeps DEF Acquire
<1>5. ASSUME NEW t \in Clients, Proceed(t)
      PROVE  Safe
  BY <1>5, MoveEngineKeeps, MoveCommitKeeps, MoveCacheKeeps, MovePostKeeps, MoveStreakKeeps,
     MoveEndKeeps, ReleaseKeeps, UndoFlushKeeps, UndoCommitKeeps, ScoreEngineKeeps,
     HintCommitKeeps, ResignReleaseKeeps, AbortKeeps DEF Proceed
<1>. QED
  BY <1>1, <1>2, <1>3, <1>4, <1>5 DEF Next

(* The invariant the other theorems stand on, of every handler at every    *)
(* step of every operation.                                                *)
THEOREM Invariant == Spec => []IInv
<1>1. Init => IInv
  BY InitHolds, GameAssumption
<1>2. IInv /\ [Next]_vars => IInv'
  BY NextKeeps, GameAssumption DEF Safe
<1>. QED
  BY <1>1, <1>2, PTL DEF Spec

(* Every variable keeps its type; in particular no undo from a stale row   *)
(* drives move_count below zero.                                           *)
THEOREM TypeCorrect == Spec => []TypeOK
<1>1. IInv => TypeOK
  BY DEF IInv
<1>. QED
  BY <1>1, Invariant, PTL

(* For any number of connections, failures and restarts the moves table    *)
(* is numbered 1..move_count.                                              *)
THEOREM NumbersContiguous == Spec => []MovesContiguous
<1>1. IInv => MovesContiguous
  BY DEF IInv, Contiguous, MovesContiguous
<1>. QED
  BY <1>1, Invariant, PTL

(* However many connections ask, no more than UNDO_LIMIT undos are         *)
(* committed.                                                              *)
THEOREM UndosLimited == Spec => []UndoBounded
<1>1. IInv => UndoBounded
  BY DEF IInv
<1>. QED
  BY <1>1, Invariant, PTL

(* A finished game is never active again, whatever row the handler that    *)
(* commits was working on.                                                 *)
THEOREM FinishedStays == Spec => StatusSealed
<1>1. IInv /\ [Next]_vars => [db.status # "active" => db'.status # "active"]_vars
  BY NextKeeps, GameAssumption DEF Safe, Over_
<1>. QED
  BY <1>1, Invariant, PTL DEF Spec, StatusSealed
=============================================================================
