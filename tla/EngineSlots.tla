---------------------------- MODULE EngineSlots ----------------------------
(***************************************************************************)
(* The shared KataGo processes: engine_pool.py's ownership table over      *)
(* core/katago/pool.py's sticky assignment, and every handler that talks   *)
(* to a process, one GTP command per step.                                 *)
(*                                                                         *)
(* A slot's board is the game whose size and komi were last set on it with *)
(* the stones played since.  The adapter serialises commands, so a command *)
(* is atomic; between two commands of one handler any other handler may    *)
(* run.  clear_board, boardsize, komi and profile are one step: each of    *)
(* them leaves an empty board.  What GameStore says of the rules state,    *)
(* the lock and the database is reduced here to hist, phase and "locked".  *)
(***************************************************************************)
EXTENDS Integers, Sequences, FiniteSets

CONSTANTS
    Games, Tasks,
    SlotCount,     \* settings.katago_pool_size
    Stones,        \* moves, user's or AI's
    Puzzle,        \* the daily challenge, graded on slot 0
    None,
    Ops,           \* handlers in use in this instance
    Concurrent,    \* may handlers of different games, or unlocked ones, overlap
    MaxStones, MaxFailures      \* bounds of the model

Slots == 0..(SlotCount - 1)

ASSUME SlotsAssumption ==
    /\ SlotCount \in Nat \ {0} /\ IsFiniteSet(Games)
    /\ None \notin Games \cup Slots /\ Puzzle \notin Games \cup {None}
    /\ Concurrent \in BOOLEAN
    /\ MaxStones \in Nat /\ MaxFailures \in Nat

VARIABLES
    hist,       \* the rules state of each game: its moves so far
    phase,      \* "new", "creating", "active" or "over"
    assigned,   \* KataGoPool._game_assignment
    owner,      \* engine_pool._adapter_owners
    board,      \* what each KataGo process has on its board
    task,       \* the handlers in flight
    failures    \* bound: failed commands and commits so far

vars == <<hist, phase, assigned, owner, board, task, failures>>

NoTask == [pc |-> "idle", game |-> None, home |-> None, slot |-> None, want |-> <<>>,
           played |-> 0, next |-> "idle", locked |-> FALSE]

Position(g, stones) == [game |-> g, stones |-> stones]

Init ==
    /\ hist = [g \in Games |-> <<>>]
    /\ phase = [g \in Games |-> "new"]
    /\ assigned = [g \in Games |-> None]
    /\ owner = [s \in Slots |-> None]
    /\ board = [s \in Slots |-> Position(None, <<>>)]
    /\ task = [t \in Tasks |-> NoTask]
    /\ failures = 0

-----------------------------------------------------------------------------
(* The pool and the ownership table.                                       *)

Load(s) == Cardinality({g \in Games : assigned[g] = s})

OneBased(g) == IF assigned[g] # None THEN assigned[g] ELSE SlotCount     \* mutant
FirstSlot(g) == 0                            \* mutant: no load balancing
(* adapter_for: sticky, else the first of the least loaded.                *)
SlotFor(g) == IF assigned[g] # None THEN assigned[g]
              ELSE CHOOSE s \in Slots : \A r \in Slots :
                       Load(s) < Load(r) \/ (Load(s) = Load(r) /\ s <= r)

Pin(g) == assigned' = [assigned EXCEPT ![g] = SlotFor(g)]

Pinned(g) == assigned[g] # None              \* mutant: nobody asks for the owner
(* adapter_owner(g) = g: no slot pinned means no owner.                    *)
Owns(g) == assigned[g] # None /\ owner[assigned[g]] = g

OwnerKept(g) == owner                        \* mutant: not dropped
(* drop_adapter_owner and release_game's last step: only its own entry.    *)
OwnerWithout(g) == IF Owns(g) THEN [owner EXCEPT ![assigned[g]] = None] ELSE owner

OwnersKept == owner                          \* mutant: not cleared
NoOwners == [s \in Slots |-> None]             \* set_adapter_owner(None)

ReleaseGame(g) == /\ assigned' = [assigned EXCEPT ![g] = None]
                  /\ owner' = OwnerWithout(g)

LockFree(g) == \A t \in Tasks : ~(task[t].locked /\ task[t].game = g)

CanStart(t, op) == /\ op \in Ops /\ task[t].pc = "idle"
                   /\ Concurrent \/ \A u \in Tasks : task[u].pc = "idle"

Set(t, r) == task' = [task EXCEPT ![t] = r]
At(t, l) == task[t].pc = l
Done(t) == Set(t, NoTask)
Goto(t, l) == task' = [task EXCEPT ![t].pc = l]

-----------------------------------------------------------------------------
(* create_game: the fresh game is pinned and its slot reseeded; the AI's   *)
(* opener, if it is on move, is generated before ownership is recorded.    *)

StartCreate(t, g) ==
    /\ CanStart(t, "create") /\ phase[g] = "new"
    /\ phase' = [phase EXCEPT ![g] = "creating"]
    /\ Pin(g)
    /\ Set(t, [NoTask EXCEPT !.pc = "reseed", !.game = g, !.next = "open",
                             !.home = SlotFor(g), !.locked = TRUE])
    /\ UNCHANGED <<hist, owner, board, failures>>

Open(t) ==
    LET g == task[t].game
        s == task[t].home
    IN
    /\ At(t, "open")
    /\ \/ /\ UNCHANGED <<hist, board>>                    \* the user is on move
          /\ owner' = [owner EXCEPT ![s] = g]
       \/ \E x \in Stones :
             /\ board' = [board EXCEPT ![s].stones = Append(@, x)]
             /\ \/ /\ hist' = [hist EXCEPT ![g] = <<x>>]
                   /\ owner' = [owner EXCEPT ![s] = g]
                \/ UNCHANGED <<hist, owner>>              \* AI_ILLEGAL_MOVE
    /\ phase' = [phase EXCEPT ![g] = "active"]
    /\ Done(t)
    /\ UNCHANGED <<assigned, failures>>

-----------------------------------------------------------------------------
(* _reseed_adapter: whoever owns the slot is dropped, the board is wiped,  *)
(* the position is played move by move, and only then is ownership         *)
(* recorded.  analyze_game does the same and records nobody; the daily     *)
(* challenge clears the whole table and plays its puzzle on slot 0.        *)

Reseed(t) ==
    LET g == task[t].game IN
    /\ At(t, "reseed")
    /\ Pin(g)
    /\ owner' = [owner EXCEPT ![SlotFor(g)] = None]       \* drop_slot_owner
    /\ Set(t, [task[t] EXCEPT !.pc = "wipe", !.slot = SlotFor(g), !.played = 0])
    /\ UNCHANGED <<hist, phase, board, failures>>

Wipe(t) ==
    /\ At(t, "wipe")
    /\ board' = [board EXCEPT ![task[t].slot] = Position(task[t].game, <<>>)]
    /\ Goto(t, IF task[t].want = <<>> THEN "loaded" ELSE "replay")
    /\ UNCHANGED <<hist, phase, assigned, owner, failures>>

Replay(t) ==
    LET k == task[t].played + 1 IN
    /\ At(t, "replay")
    /\ board' = [board EXCEPT ![task[t].slot].stones = Append(@, task[t].want[k])]
    /\ Set(t, [task[t] EXCEPT !.played = k,
                   !.pc = IF k = Len(task[t].want) THEN "loaded" ELSE "replay"])
    /\ UNCHANGED <<hist, phase, assigned, owner, failures>>

Loaded(t) ==
    LET g == task[t].game IN
    /\ At(t, "loaded")
    /\ owner' = IF g = Puzzle \/ task[t].next \in {"review", "open"} \/ assigned[g] = None
                THEN owner
                ELSE [owner EXCEPT ![assigned[g]] = g]    \* set_adapter_owner(g)
    /\ Goto(t, task[t].next)
    /\ UNCHANGED <<hist, phase, assigned, board, failures>>

-----------------------------------------------------------------------------
(* place_move: home is the adapter fetched before the lock, the one that   *)
(* genmove and the evaluation use.                                         *)

StartPlace(t, g) ==
    /\ CanStart(t, "place") /\ phase[g] = "active" /\ LockFree(g)
    /\ Len(hist[g]) + 2 <= MaxStones
    /\ Pin(g)
    /\ \E x \in Stones :
          Set(t, [NoTask EXCEPT !.pc = "sync", !.game = g, !.home = SlotFor(g),
                                !.slot = SlotFor(g), !.next = "genmove",
                                !.want = Append(hist[g], x), !.locked = TRUE])
    /\ UNCHANGED <<hist, phase, owner, board, failures>>

(* _sync_adapter: the owner only plays the new stone; a process that       *)
(* rejects it falls back to the reseed.                                    *)
Sync(t) ==
    LET g == task[t].game
        s == task[t].slot
        want == task[t].want
    IN
    /\ At(t, "sync")
    /\ \/ /\ Owns(g)
          /\ board' = [board EXCEPT ![s].stones = Append(@, want[Len(want)])]
          /\ Goto(t, "genmove")
       \/ Goto(t, "reseed") /\ UNCHANGED board
    /\ UNCHANGED <<hist, phase, assigned, owner, failures>>

(* genmove; the reply may be illegal by the rules.                         *)
(* Two passes, the user's or the AI's, go through _finalize_game first.    *)
Genmove(t) ==
    LET s == task[t].home IN
    /\ At(t, "genmove")
    /\ \/ /\ \E l \in {"commit", "finalize"} :              \* AI resigns; second pass
                Set(t, [task[t] EXCEPT !.pc = l, !.next = "commit"])
          /\ UNCHANGED <<owner, board>>
       \/ \E x \in Stones :
             /\ board' = [board EXCEPT ![s].stones = Append(@, x)]
             /\ \/ /\ \/ Set(t, [task[t] EXCEPT !.pc = "commit", !.want = Append(@, x)])
                      \/ Set(t, [task[t] EXCEPT !.pc = "finalize", !.next = "commit",
                                                !.want = Append(@, x)])
                   /\ UNCHANGED owner
                \/ /\ owner' = OwnerWithout(task[t].game)       \* AI_ILLEGAL_MOVE
                   /\ Done(t)
    /\ UNCHANGED <<hist, phase, assigned, failures>>

(* _infer_dead_stones: the ownership read of the final position.           *)
Finalize(t) ==
    /\ At(t, "finalize")
    /\ Goto(t, IF Owns(task[t].game) THEN "commit" ELSE "reseed")
    /\ UNCHANGED <<hist, phase, assigned, owner, board, failures>>

(* A reseed that dies on the way there is swallowed: no stone is dead.     *)
FinalizeFails(t) ==
    /\ failures < MaxFailures
    /\ task[t].next = "commit" /\ task[t].pc \in {"reseed", "wipe", "replay", "loaded"}
    /\ failures' = failures + 1
    /\ Goto(t, "commit")
    /\ UNCHANGED <<hist, phase, assigned, owner, board>>

(* The batch; a round that went through "next = commit" ended the game.    *)
Commit(t) ==
    LET g == task[t].game
        ended == task[t].next = "commit"
    IN
    /\ At(t, "commit")
    /\ hist' = [hist EXCEPT ![g] = task[t].want]
    /\ phase' = IF ended THEN [phase EXCEPT ![g] = "over"] ELSE phase
    /\ Set(t, [task[t] EXCEPT !.pc = IF ended THEN "release" ELSE "evaluate",
                              !.slot = task[t].home])
    /\ UNCHANGED <<assigned, owner, board, failures>>

(* The analyses of a game that goes on; they may end it after all.         *)
Evaluate(t) ==
    LET g == task[t].game IN
    /\ At(t, "evaluate")
    /\ \/ Done(t) /\ UNCHANGED phase
       \/ Goto(t, "release") /\ phase' = [phase EXCEPT ![g] = "over"]
    /\ UNCHANGED <<hist, assigned, owner, board, failures>>

Release(t) ==
    /\ At(t, "release")
    /\ ReleaseGame(task[t].game)
    /\ Done(t)
    /\ UNCHANGED <<hist, phase, board, failures>>

-----------------------------------------------------------------------------
(* undo_move: ownership is cleared for every game, then the shorter record *)
(* is stored.                                                              *)

StartUndo(t, g) ==
    /\ CanStart(t, "undo") /\ phase[g] = "active" /\ LockFree(g) /\ hist[g] # <<>>
    /\ owner' = NoOwners
    /\ Set(t, [NoTask EXCEPT !.pc = "takeback", !.game = g, !.locked = TRUE])
    /\ UNCHANGED <<hist, phase, assigned, board, failures>>

TakeBack(t) ==
    LET g == task[t].game IN
    /\ At(t, "takeback")
    /\ \E n \in 1..2 :
          hist' = [hist EXCEPT ![g] = SubSeq(@, 1, IF Len(@) <= n THEN 0 ELSE Len(@) - n)]
    /\ Done(t)
    /\ UNCHANGED <<phase, assigned, owner, board, failures>>

-----------------------------------------------------------------------------
(* Readers of a position: hint holds the game's lock; the WebSocket's      *)
(* first evaluation, estimate_score and score_by_request do not; the       *)
(* review of a past move and the daily challenge neither.                  *)

Ensure(t, g, locked) ==          \* ensure_slot_owner, then analyze
    Set(t, [NoTask EXCEPT !.pc = IF Owns(g) THEN "read" ELSE "reseed", !.game = g,
                          !.slot = SlotFor(g), !.home = SlotFor(g), !.next = "read",
                          !.want = hist[g], !.locked = locked])

StartHint(t, g) ==
    /\ CanStart(t, "hint") /\ phase[g] \in {"active", "over"} /\ LockFree(g)
    /\ Ensure(t, g, TRUE)
    /\ UNCHANGED <<hist, phase, assigned, owner, board, failures>>

StartRead(t, g) ==
    /\ CanStart(t, "read") /\ phase[g] \in {"active", "over"}
    /\ Ensure(t, g, FALSE)
    /\ UNCHANGED <<hist, phase, assigned, owner, board, failures>>

StartReview(t, g) ==
    /\ CanStart(t, "review") /\ phase[g] \in {"active", "over"}
    /\ \E n \in 0..Len(hist[g]) :
          Set(t, [NoTask EXCEPT !.pc = "reseed", !.game = g, !.next = "review",
                                !.want = SubSeq(hist[g], 1, n)])
    /\ UNCHANGED <<hist, phase, assigned, owner, board, failures>>

StartDaily(t) ==
    /\ CanStart(t, "daily")
    /\ owner' = NoOwners
    /\ \E x \in Stones :
          Set(t, [NoTask EXCEPT !.pc = "wipe", !.game = Puzzle, !.slot = 0,
                                !.next = "review", !.want = <<x>>])
    /\ UNCHANGED <<hist, phase, assigned, board, failures>>

(* The analysis; get_adapter pins a game that has lost its slot meanwhile. *)
Read(t) ==
    /\ task[t].pc \in {"read", "review"}
    /\ IF task[t].pc = "read" THEN Pin(task[t].game) ELSE UNCHANGED assigned
    /\ Done(t)
    /\ UNCHANGED <<hist, phase, owner, board, failures>>

-----------------------------------------------------------------------------
(* resign_game, and score_by_request's ending: no lock is held when the    *)
(* slot is given up, so a round may be in flight.                          *)

Resign(t, g) ==
    /\ CanStart(t, "resign") /\ phase[g] = "active"
    /\ phase' = [phase EXCEPT ![g] = "over"]
    /\ ReleaseGame(g)
    /\ UNCHANGED <<hist, board, task, failures>>

(* A command or a commit fails.  place_move forgets its own game's         *)
(* ownership once the adapter was touched (_adapter_round); the others     *)
(* leave the table as it is.                                               *)
Fail(t) ==
    LET g == task[t].game IN
    /\ failures < MaxFailures
    /\ ~At(t, "idle")
    /\ failures' = failures + 1
    /\ owner' = IF task[t].next \in {"genmove", "commit"} THEN OwnerWithout(g) ELSE owner
    /\ phase' = IF task[t].next = "open" THEN [phase EXCEPT ![g] = "active"] ELSE phase
    /\ Done(t)
    /\ UNCHANGED <<hist, assigned, board>>

Next ==
    \E t \in Tasks :
        \/ \E g \in Games :
              \/ StartCreate(t, g) \/ StartPlace(t, g) \/ StartUndo(t, g)
              \/ StartHint(t, g) \/ StartRead(t, g) \/ StartReview(t, g) \/ Resign(t, g)
        \/ StartDaily(t)
        \/ Open(t) \/ Reseed(t) \/ Wipe(t) \/ Replay(t) \/ Loaded(t)
        \/ Sync(t) \/ Genmove(t) \/ Finalize(t) \/ FinalizeFails(t) \/ Commit(t) \/ Evaluate(t) \/ Release(t)
        \/ TakeBack(t) \/ Read(t) \/ Fail(t)

Spec == Init /\ [][Next]_vars

-----------------------------------------------------------------------------
(* The values of every variable of the model.                              *)
Positions == [game : Games \cup {Puzzle, None}, stones : Seq(Stones)]
Labels == {"idle", "open", "reseed", "wipe", "replay", "loaded", "sync", "genmove",
           "finalize", "commit", "evaluate", "release", "takeback", "read", "review"}
TypeOK ==
    /\ hist \in [Games -> Seq(Stones)]
    /\ phase \in [Games -> {"new", "creating", "active", "over"}]
    /\ assigned \in [Games -> Slots \cup {None}]
    /\ owner \in [Slots -> Games \cup {None}]
    /\ board \in [Slots -> Positions]
    /\ task \in [Tasks -> [pc : Labels, game : Games \cup {Puzzle, None},
                           home : Slots \cup {None}, slot : Slots \cup {None},
                           want : Seq(Stones), played : Nat, next : Labels,
                           locked : BOOLEAN]]
    /\ failures \in Nat

InRound(g) == \E t \in Tasks : task[t].game = g /\ task[t].pc \in {"genmove", "finalize", "commit"}

(* An owner recorded for a slot can be trusted: its board is the game's    *)
(* rules state, so the fast path may play on top of it.  While the owner's *)
(* round is between its own stone and the commit the board runs ahead.     *)
OwnerIsSynced ==
    \A s \in Slots : owner[s] # None /\ ~InRound(owner[s])
        => board[s] = Position(owner[s], hist[owner[s]])

(* genmove is asked on the position the user just left, never on another   *)
(* game's stones or on a board a stone ahead (#97, #105).                  *)
GenmoveOnOwnBoard ==
    \A t \in Tasks : At(t, "genmove")
        => board[task[t].home] = Position(task[t].game, task[t].want)

(* Every analysis reads the position it was asked for (#107, #109).        *)
ReadsOwnBoard ==
    \A t \in Tasks : task[t].pc \in {"read", "review", "evaluate"}
        => board[task[t].slot] = Position(task[t].game, task[t].want)

(* With no more games than slots, no two games share a process.            *)
NoSharing ==
    Cardinality(Games) <= SlotCount =>
        \A g, h \in Games : g # h /\ assigned[g] # None => assigned[g] # assigned[h]
=============================================================================
