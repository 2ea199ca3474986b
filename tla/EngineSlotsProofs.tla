------------------------- MODULE EngineSlotsProofs -------------------------
(***************************************************************************)
(* For every number of games, processes and handlers in flight: the pool's *)
(* sticky, least-loaded assignment gives every game a process of its own   *)
(* as long as there are enough processes; and as long as handlers do not   *)
(* meet on one, whoever is asked about a position has it on its board.     *)
(***************************************************************************)
EXTENDS EngineSlots, FiniteSetTheorems, SequenceTheorems, WellFoundedInduction, TLAPS

(* A set of natural numbers that is not empty has a least element.         *)
LEMMA LessIsWellFounded ==
    \E R : IsWellFoundedOn(R, Nat) /\ \A x, y \in Nat : <<y, x>> \in R <=> y < x
<1>1. \A x, y \in Nat : <<y, x>> \in OpToRel(<, Nat) <=> y < x
  BY DEF OpToRel
<1>. QED
  BY <1>1, NatLessThanWellFounded, Zenon

LEMMA LeastNatural ==
    ASSUME NEW T \in SUBSET Nat, T # {}
    PROVE  \E x \in T : \A y \in T : x <= y
<1>1. PICK R : IsWellFoundedOn(R, Nat) /\ \A x, y \in Nat : <<y, x>> \in R <=> y < x
  BY LessIsWellFounded
<1>2. \E x \in T : \A y \in T : ~ (<<y, x>> \in R)
  BY <1>1, WFMin
<1>3. ASSUME NEW x \in T, NEW y \in T, <<y, x>> \notin R
      PROVE  x <= y
  <2>1. x \in Nat /\ y \in Nat
    OBVIOUS
  <2>2. ~ (y < x)
    BY <1>1, <1>3, <2>1
  <2>. QED
    BY <2>1, <2>2
<1>. QED
  BY <1>2, <1>3, Zenon

(* The assignment is a table from games to slots, one to one if it can be. *)
PinInv == assigned \in [Games -> Slots \cup {None}] /\ NoSharing

LEMMA LoadIsNatural ==
    ASSUME SlotsAssumption, NEW s
    PROVE  Load(s) \in Nat /\ (Load(s) = 0 <=> \A g \in Games : assigned[g] # s)
<1>. DEFINE S == {g \in Games : assigned[g] = s}
<1>1. IsFiniteSet(S)
  BY FS_Subset DEF SlotsAssumption
<1>2. Cardinality(S) \in Nat /\ (Cardinality(S) = 0 <=> S = {})
  BY <1>1, FS_CardinalityType, FS_EmptySet
<1>. QED
  BY <1>2 DEF Load

(* adapter_for finds a slot for a game that has none, and no slot has a    *)
(* smaller load.                                                           *)
LEMMA LeastLoaded ==
    ASSUME SlotsAssumption, NEW g, assigned[g] = None
    PROVE  SlotFor(g) \in Slots /\ \A r \in Slots : Load(SlotFor(g)) <= Load(r)
<1>1. Slots \in SUBSET Nat /\ 0 \in Slots /\ \A s \in Slots : Load(s) \in Nat
  BY LoadIsNatural DEF SlotsAssumption, Slots
<1>2. PICK m \in {Load(s) : s \in Slots} : \A n \in {Load(s) : s \in Slots} : m <= n
  <2>1. {Load(s) : s \in Slots} \in SUBSET Nat /\ {Load(s) : s \in Slots} # {}
    BY <1>1
  <2>. QED
    BY <2>1, LeastNatural
<1>3. PICK s \in {r \in Slots : Load(r) = m} : \A n \in {r \in Slots : Load(r) = m} : s <= n
  <2>1. {r \in Slots : Load(r) = m} \in SUBSET Nat /\ {r \in Slots : Load(r) = m} # {}
    BY <1>1, <1>2
  <2>. QED
    BY <2>1, LeastNatural
<1>. DEFINE Best(x) == \A r \in Slots : Load(x) < Load(r) \/ (Load(x) = Load(r) /\ x <= r)
<1>4. s \in Slots /\ Best(s)
  BY <1>1, <1>2, <1>3
<1>5. SlotFor(g) \in Slots /\ Best(SlotFor(g))
  BY <1>4 DEF SlotFor
<1>. QED
  BY <1>1, <1>5

(* With enough slots, one of them is free for a game that has none.        *)
LEMMA OneIsFree ==
    ASSUME SlotsAssumption, PinInv, Cardinality(Games) <= SlotCount,
           NEW g \in Games, assigned[g] = None
    PROVE  \E s \in Slots : \A h \in Games : assigned[h] # s
<1>. DEFINE Others == Games \ {g}
            f == [s \in Slots |-> CHOOSE h \in Others : assigned[h] = s]
<1>1. SUFFICES ASSUME \A s \in Slots : \E h \in Games : assigned[h] = s
               PROVE  FALSE
  OBVIOUS
<1>2. \A s \in Slots : f[s] \in Others /\ assigned[f[s]] = s
  BY <1>1 DEF SlotsAssumption
<1>3. f \in [Slots -> Others]
  BY <1>2
<1>4. IsFiniteSet(Slots) /\ Cardinality(Slots) = SlotCount
  BY FS_Interval DEF Slots, SlotsAssumption
<1>5. IsFiniteSet(Others) /\ Cardinality(Others) < Cardinality(Slots)
  <2>1. IsFiniteSet(Others) /\ Cardinality(Others) = Cardinality(Games) - 1
    BY FS_RemoveElement DEF SlotsAssumption
  <2>2. Cardinality(Games) \in Nat
    BY FS_CardinalityType DEF SlotsAssumption
  <2>. QED
    BY <1>4, <2>1, <2>2 DEF SlotsAssumption
<1>. HIDE DEF f, Others
<1>6. \E x, y \in Slots : x # y /\ f[x] = f[y]
  BY <1>3, <1>4, <1>5, FS_PigeonHole, Zenon
<1>. QED
  BY <1>2, <1>6

LEMMA PinKeeps ==
    ASSUME SlotsAssumption, PinInv, NEW g, Pin(g)
    PROVE  PinInv'
<1>1. CASE g \in Games /\ assigned[g] = None
  <2>1. SlotFor(g) \in Slots /\ \A r \in Slots : Load(SlotFor(g)) <= Load(r)
    BY <1>1, LeastLoaded
  <2>2. Cardinality(Games) <= SlotCount => \A h \in Games : assigned[h] # SlotFor(g)
    <3>1. ASSUME Cardinality(Games) <= SlotCount
          PROVE  \A h \in Games : assigned[h] # SlotFor(g)
      <4>1. PICK s \in Slots : \A h \in Games : assigned[h] # s
        BY <1>1, <3>1, OneIsFree
      <4>2. Load(SlotFor(g)) = 0
        BY <2>1, <4>1, LoadIsNatural
      <4>. QED
        BY <4>2, LoadIsNatural
    <3>. QED
      BY <3>1
  <2>. QED
    BY <1>1, <2>1, <2>2 DEF Pin, PinInv, NoSharing
<1>2. CASE ~(g \in Games /\ assigned[g] = None)
  <2>1. assigned' = assigned
    BY <1>2 DEF Pin, PinInv, SlotFor
  <2>. QED
    BY <2>1 DEF PinInv, NoSharing
<1>. QED
  BY <1>1, <1>2

LEMMA ReleaseKeeps ==
    ASSUME SlotsAssumption, PinInv, NEW g, ReleaseGame(g)
    PROVE  PinInv'
  BY DEF ReleaseGame, PinInv, NoSharing

(* No handler changes the assignment but by pinning or releasing a game.   *)
LEMMA StepPinsOrReleases ==
    ASSUME [Next]_vars
    PROVE  assigned' = assigned \/ (\E g : Pin(g)) \/ (\E g : ReleaseGame(g))
<1>1. CASE UNCHANGED vars
  BY <1>1 DEF vars
<1>2. ASSUME NEW t \in Tasks, NEW g \in Games,
             \/ StartCreate(t, g) \/ StartPlace(t, g) \/ StartUndo(t, g) \/ StartHint(t, g)
             \/ StartRead(t, g) \/ StartReview(t, g) \/ Resign(t, g)
      PROVE  assigned' = assigned \/ (\E h : Pin(h)) \/ (\E h : ReleaseGame(h))
  BY <1>2, Zenon DEF StartCreate, StartPlace, StartUndo, StartHint, StartRead, StartReview, Resign
<1>3. ASSUME NEW t \in Tasks, Reseed(t) \/ Read(t) \/ Release(t)
      PROVE  assigned' = assigned \/ (\E h : Pin(h)) \/ (\E h : ReleaseGame(h))
  BY <1>3, Zenon DEF Reseed, Read, Release
<1>4. ASSUME NEW t \in Tasks,
             \/ StartDaily(t) \/ Open(t) \/ Wipe(t) \/ Replay(t) \/ Loaded(t) \/ Sync(t)
             \/ Genmove(t) \/ Finalize(t) \/ FinalizeFails(t) \/ Commit(t) \/ Evaluate(t)
             \/ TakeBack(t) \/ Fail(t)
      PROVE  assigned' = assigned
  BY <1>4, Zenon DEF StartDaily, Open, Wipe, Replay, Loaded, Sync, Genmove, Finalize, FinalizeFails,
                     Commit, Evaluate, TakeBack, Fail
<1>. QED
  BY <1>1, <1>2, <1>3, <1>4, Zenon DEF Next

(* katago_pool_size processes serve as many games without any two of them  *)
(* sharing one (KataGoPool.adapter_for, release).                          *)
THEOREM PinsAreExclusive == Spec => []NoSharing
<1>1. Init => PinInv
  BY DEF Init, PinInv, NoSharing
<1>2. PinInv /\ [Next]_vars => PinInv'
  <2>1. ASSUME PinInv, assigned' = assigned
        PROVE  PinInv'
    BY <2>1 DEF PinInv, NoSharing
  <2>. QED
    BY <2>1, StepPinsOrReleases, PinKeeps, ReleaseKeeps, SlotsAssumption
<1>3. PinInv => NoSharing
  BY DEF PinInv
<1>. QED
  BY <1>1, <1>2, <1>3, PTL DEF Spec

-----------------------------------------------------------------------------
(* Whose position a process has on its board.                              *)

(* Handlers do not meet: one runs at a time, or each game has a process of *)
(* its own and only handlers that hold the game's lock are in use.         *)
Apart ==
    \/ ~ Concurrent
    \/ Cardinality(Games) <= SlotCount /\ Ops \subseteq {"create", "place", "undo", "hint"}

TaskType == [pc : Labels, game : Games \cup {Puzzle, None},
             home : Slots \cup {None}, slot : Slots \cup {None},
             want : Seq(Stones), played : Nat, next : Labels, locked : BOOLEAN]

Busy(t) == task[t].pc # "idle"
Seeding == {"reseed", "wipe", "replay", "loaded"}
Round == {"genmove", "finalize", "commit"}

(* What a handler's step says of the handler it is in.                     *)
Course(k) ==
    /\ k.pc \in Seeding => k.next \in {"open", "genmove", "commit", "read", "review"}
    /\ k.pc \in {"sync", "genmove", "evaluate"} => k.next = "genmove"
    /\ k.pc \in {"commit", "release"} => k.next \in {"genmove", "commit"}
    /\ k.pc = "finalize" => k.next = "commit"
    /\ k.pc \in {"open", "read", "review"} => k.next = k.pc
    /\ k.pc = "takeback" => k.next = "idle"
    /\ k.pc # "idle" => k.game \in Games \cup {Puzzle}
    /\ k.pc # "idle" /\ k.game = Puzzle => k.next = "review" /\ k.pc # "reseed"
    /\ k.pc = "wipe" => k.played = 0
    /\ k.pc = "replay" => k.played < Len(k.want)
    /\ k.pc = "sync" => k.want # <<>>

(* Two handlers in flight are on different games.                          *)
Isolated ==
    /\ \A t, u \in Tasks : t # u /\ Busy(t) /\ Busy(u)
          => Concurrent /\ task[t].game # task[u].game
    /\ \A t \in Tasks : Busy(t) =>
          /\ task[t].game \in Games => phase[task[t].game] # "new"
          /\ Concurrent => task[t].game \in Games /\ task[t].locked

NewIsEmpty == \A g \in Games : phase[g] = "new" => hist[g] = <<>>

(* A slot's owner is a game pinned to it.                                  *)
OwnerIsPinned == \A s \in Slots : owner[s] # None => assigned[owner[s]] = s

OwnedBy(g) == \E s \in Slots : owner[s] = g

(* Where a handler that is loading a position stands.                      *)
SeedInv(k) ==
    /\ k.pc \in {"wipe", "replay", "loaded"} =>
          /\ k.slot \in Slots /\ owner[k.slot] = None
          /\ k.game = Puzzle \/ assigned[k.game] = k.slot
    /\ k.pc = "replay" => board[k.slot] = Position(k.game, SubSeq(k.want, 1, k.played))
    /\ k.pc = "loaded" => board[k.slot] = Position(k.game, k.want)
    /\ k.pc \in Seeding \cup {"open"} /\ k.next = "open" => k.want = <<>> /\ hist[k.game] = <<>>
    /\ k.pc \in Seeding /\ k.next = "commit" => ~ OwnedBy(k.game) /\ owner[k.home] = None
    /\ k.pc \in Seeding /\ k.next = "read" => k.want = hist[k.game]

(* Where one that changes or reads a position stands.                      *)
UseInv(k) ==
    /\ k.pc \in Round \cup {"sync", "evaluate", "open"}
          \/ (k.pc \in Seeding /\ k.next \in {"open", "genmove", "commit"})
       => k.home \in Slots /\ assigned[k.game] = k.home
    /\ k.pc = "sync" => k.slot = k.home /\ Append(hist[k.game], k.want[Len(k.want)]) = k.want
    /\ k.pc \in Round =>
          /\ owner[k.home] \in {k.game, None}
          /\ owner[k.home] = k.game \/ k.next = "genmove" => board[k.home] = Position(k.game, k.want)
    /\ k.pc = "open" => owner[k.home] = None /\ board[k.home] = Position(k.game, <<>>)
    /\ k.pc \in {"evaluate", "read", "review"} =>
          /\ k.slot \in Slots /\ board[k.slot] = Position(k.game, k.want)
          /\ k.game = Puzzle \/ assigned[k.game] = k.slot
    /\ k.pc = "takeback" => ~ OwnedBy(k.game)

BoardInv ==
    /\ Isolated /\ NewIsEmpty /\ OwnerIsPinned /\ OwnerIsSynced
    /\ \A t \in Tasks : SeedInv(task[t]) /\ UseInv(task[t])

Plain == TypeOK /\ PinInv /\ \A t \in Tasks : Course(task[t])
Inv == Plain /\ (Apart => BoardInv)

-----------------------------------------------------------------------------
(* One handler's step.                                                     *)

(* Handler t, of game g, steps to k; it may write slot s.                  *)
Step(t, g, s, k) ==
    /\ g \in Games \cup {Puzzle}
    /\ Busy(t) => task[t].game = g
    /\ k.pc # "idle" => /\ k.game = g /\ (g \in Games => phase'[g] # "new")
                        /\ Concurrent => g \in Games /\ k.locked
    /\ \A u \in Tasks \ {t} : Busy(u) => Concurrent /\ g \in Games /\ task[u].game # g
    /\ \A h \in Games : phase'[h] = "new" => phase[h] = "new" /\ hist'[h] = hist[h]
    /\ \A h \in Games \ {g} : hist'[h] = hist[h] /\ assigned'[h] = assigned[h]
    /\ \A r \in Slots : /\ board'[r] = board[r] \/ (r = s /\ owner[r] \in {g, None})
                        /\ owner'[r] \in {owner[r], None} \/ (r = s /\ owner'[r] = g)
    /\ s # None /\ Concurrent => s = assigned'[g]

(* Whoever is recorded for g is the slot it is pinned to, on its position. *)
Recorded(g, k) ==
    \A r \in Slots : owner'[r] = g =>
        /\ g \in Games /\ assigned'[g] = r
        /\ k.pc \in Round \/ board'[r] = Position(g, hist'[g])

(* What is known of another handler in flight survives the step.           *)
LEMMA OthersKeep ==
    ASSUME Plain, Apart, BoardInv, PinInv', NEW t \in Tasks, NEW g, NEW s, NEW k, Step(t, g, s, k),
           NEW u \in Tasks \ {t}, task'[u] = task[u], Busy(u)
    PROVE  SeedInv(task[u])' /\ UseInv(task[u])'
<1>. DEFINE h == task[u].game
<1>1. Concurrent /\ h \in Games /\ h # g
  BY DEF Step, BoardInv, Isolated
<1>2. Cardinality(Games) <= SlotCount
  BY <1>1 DEF Apart
<1>3. hist'[h] = hist[h] /\ assigned'[h] = assigned[h]
  BY <1>1 DEF Step
<1>4. \A r \in Slots : assigned[h] = r => r # s
  <2>1. SUFFICES ASSUME s \in Slots, assigned[h] = s
                 PROVE  FALSE
    OBVIOUS
  <2>2. s = assigned'[g] /\ s # None
    BY <1>1, <2>1, SlotsAssumption DEF Step
  <2>3. CASE g \in Games
    BY <1>1, <1>2, <1>3, <2>1, <2>2, <2>3 DEF PinInv, NoSharing
  <2>4. CASE g \notin Games
    BY <2>4 DEF Step
  <2>. QED
    BY <2>3, <2>4
<1>5. \A r \in Slots : assigned[h] = r => board'[r] = board[r] /\ owner'[r] \in {owner[r], None}
  BY <1>4 DEF Step
<1>6. OwnedBy(h)' => OwnedBy(h)
  BY <1>1, SlotsAssumption DEF OwnedBy, Step
<1>7. SeedInv(task[u]) /\ UseInv(task[u])
  BY DEF BoardInv
<1>8. h # Puzzle /\ h # None
  BY <1>1, SlotsAssumption
<1>9. PICK c : c = task[u]
  OBVIOUS
<1>. HIDE DEF h
<1>10. SeedInv(c)'
  <2>1. c.pc \in Seeding /\ c.next = "commit" => c.home \in Slots /\ assigned[h] = c.home
    BY <1>7, <1>9 DEF UseInv, h
  <2>. QED
    BY <1>3, <1>5, <1>6, <1>7, <1>8, <1>9, <2>1 DEF SeedInv, h
<1>11. UseInv(c)'
  BY <1>3, <1>5, <1>6, <1>7, <1>8, <1>9 DEF UseInv, h, Round
<1>. QED
  BY <1>9, <1>10, <1>11

(* The invariant survives a handler's step that ends as it should.         *)
LEMMA StepKeeps ==
    ASSUME Inv, PinInv', TypeOK', NEW t \in Tasks, NEW g, NEW s, NEW k, Set(t, k), Course(k),
           Apart => Step(t, g, s, k) /\ SeedInv(k)' /\ UseInv(k)' /\ Recorded(g, k)
    PROVE  Inv'
<1>1. task'[t] = k /\ \A u \in Tasks \ {t} : task'[u] = task[u]
  BY DEF Set, Inv, Plain, TypeOK
<1>2. \A u \in Tasks : Course(task'[u])
  BY <1>1 DEF Inv, Plain
<1>3. Plain'
  BY <1>2 DEF Plain, Course
<1>4. ASSUME Apart
      PROVE  BoardInv'
  <2>1. Step(t, g, s, k) /\ SeedInv(k)' /\ UseInv(k)' /\ Recorded(g, k)
    BY <1>4
  <2>2. Plain /\ BoardInv
    BY <1>4 DEF Inv
  <2>3. Isolated'
    <3>1. ASSUME NEW u \in Tasks \ {t}, Busy(u)', Busy(t)'
          PROVE  Concurrent /\ task'[u].game # task'[t].game
      BY <1>1, <2>1, <3>1 DEF Step, Busy
    <3>2. ASSUME NEW u \in Tasks \ {t}, NEW v \in Tasks \ {t}, u # v, Busy(u)', Busy(v)'
          PROVE  Concurrent /\ task'[u].game # task'[v].game
      BY <1>1, <2>2, <3>2 DEF BoardInv, Isolated, Busy
    <3>3. ASSUME NEW u \in Tasks, Busy(u)'
          PROVE  /\ task'[u].game \in Games => phase'[task'[u].game] # "new"
                 /\ Concurrent => task'[u].game \in Games /\ task'[u].locked
      BY <1>1, <2>1, <2>2, <3>3 DEF BoardInv, Isolated, Busy, Step
    <3>. QED
      BY <3>1, <3>2, <3>3 DEF Isolated
  <2>4. ASSUME NEW r \in Slots, owner'[r] # None, owner'[r] # g
        PROVE  /\ owner'[r] = owner[r] /\ owner[r] \in Games /\ owner[r] # None
               /\ hist'[owner[r]] = hist[owner[r]] /\ assigned'[owner[r]] = assigned[owner[r]]
               /\ board'[r] = board[r]
    BY <2>1, <2>2, <2>4 DEF Step, Plain, TypeOK
  <2>5. OwnerIsPinned'
    BY <2>1, <2>2, <2>4 DEF OwnerIsPinned, BoardInv, Recorded
  <2>6. OwnerIsSynced'
    <3>1. SUFFICES ASSUME NEW r \in Slots, owner'[r] # None,
                          \A u \in Tasks : task'[u].game = owner'[r] => task'[u].pc \notin Round
                   PROVE  board'[r] = Position(owner'[r], hist'[owner'[r]])
      BY DEF OwnerIsSynced, InRound, Round
    <3>2. CASE owner'[r] = g
      BY <1>1, <2>1, <3>1, <3>2 DEF Recorded, Step, Round
    <3>3. CASE owner'[r] # g
      <4>1. \A u \in Tasks : task[u].game = owner[r] => task[u].pc \notin Round
        BY <1>1, <2>1, <2>4, <3>1, <3>3 DEF Step, Busy, Round
      <4>. QED
        BY <2>2, <2>4, <3>1, <3>3, <4>1 DEF BoardInv, OwnerIsSynced, InRound, Round
    <3>. QED
      BY <3>2, <3>3
  <2>7. ASSUME NEW u \in Tasks
        PROVE  (SeedInv(task[u]) /\ UseInv(task[u]))'
    <3>1. CASE u = t
      BY <1>1, <2>1, <3>1 DEF SeedInv, UseInv, OwnedBy
    <3>2. CASE u # t /\ Busy(u)
      BY <1>1, <1>4, <2>1, <2>2, <3>2, OthersKeep
    <3>3. CASE u # t /\ ~ Busy(u)
      BY <1>1, <3>3 DEF Busy, SeedInv, UseInv, Seeding, Round
    <3>. QED
      BY <3>1, <3>2, <3>3
  <2>8. NewIsEmpty'
    BY <2>1, <2>2 DEF NewIsEmpty, BoardInv, Step
  <2>. QED
    BY <2>3, <2>5, <2>6, <2>7, <2>8 DEF BoardInv
<1>. QED
  BY <1>3, <1>4 DEF Inv, Apart

(* What is known where handler t is in flight.                             *)
LEMMA InFlight ==
    ASSUME Inv, Apart, NEW t \in Tasks, Busy(t), NEW g, g = task[t].game
    PROVE  /\ Plain /\ BoardInv /\ g \in Games \cup {Puzzle}
           /\ g \in Games => phase[g] # "new"
           /\ Concurrent => g \in Games /\ task[t].locked
           /\ \A u \in Tasks \ {t} : Busy(u) => Concurrent /\ g \in Games /\ task[u].game # g
           /\ task[t].pc \notin Round => \A r \in Slots : owner[r] = g =>
                 g \in Games /\ assigned[g] = r /\ board[r] = Position(g, hist[g])
<1>1. Plain /\ BoardInv
  BY DEF Inv
<1>2. /\ g \in Games \cup {Puzzle} /\ (g \in Games => phase[g] # "new")
      /\ Concurrent => g \in Games /\ task[t].locked
  BY <1>1 DEF Plain, Course, BoardInv, Isolated, Busy
<1>3. \A u \in Tasks \ {t} : Busy(u) => Concurrent /\ g \in Games /\ task[u].game # g
  BY <1>1, <1>2 DEF BoardInv, Isolated
<1>4. ASSUME task[t].pc \notin Round, NEW r \in Slots, owner[r] = g
      PROVE  g \in Games /\ assigned[g] = r /\ board[r] = Position(g, hist[g])
  <2>1. g # None /\ g \in Games
    BY <1>1, <1>2, <1>4, SlotsAssumption DEF Plain, TypeOK
  <2>2. ~ InRound(g)
    BY <1>3, <1>4 DEF InRound, Round, Busy
  <2>. QED
    BY <1>1, <1>4, <2>1, <2>2 DEF BoardInv, OwnerIsPinned, OwnerIsSynced
<1>. QED
  BY <1>1, <1>2, <1>3, <1>4

(* What is known where handler t starts on game g.                         *)
LEMMA Starting ==
    ASSUME Inv, Apart, NEW t \in Tasks, NEW g \in Games, NEW op, CanStart(t, op),
           \/ phase[g] = "new" \/ LockFree(g)
           \/ op \notin {"create", "place", "undo", "hint"}
    PROVE  /\ Plain /\ BoardInv /\ ~ Busy(t)
           /\ op \notin {"create", "place", "undo", "hint"} => ~ Concurrent
           /\ \A u \in Tasks \ {t} : Busy(u) => Concurrent /\ task[u].game # g
           /\ \A r \in Slots : owner[r] = g => assigned[g] = r /\ board[r] = Position(g, hist[g])
<1>1. Plain /\ BoardInv /\ ~ Busy(t)
  BY DEF Inv, CanStart, Busy
<1>2. op \notin {"create", "place", "undo", "hint"} => ~ Concurrent
  BY DEF Apart, CanStart
<1>3. ASSUME NEW u \in Tasks, Busy(u)
      PROVE  Concurrent /\ task[u].game # g
  <2>1. Concurrent
    BY <1>3 DEF CanStart, Busy
  <2>2. task[u].locked /\ (task[u].game \in Games => phase[task[u].game] # "new")
    BY <1>1, <1>3, <2>1 DEF BoardInv, Isolated
  <2>. QED
    BY <1>2, <2>1, <2>2 DEF LockFree
<1>4. ~ InRound(g)
  BY <1>3 DEF InRound, Busy
<1>5. g # None
  BY SlotsAssumption
<1>6. \A r \in Slots : owner[r] = g => assigned[g] = r /\ board[r] = Position(g, hist[g])
  BY <1>1, <1>4, <1>5 DEF BoardInv, OwnerIsPinned, OwnerIsSynced
<1>. QED
  BY <1>1, <1>2, <1>3, <1>6

(* Pinning a game gives it the slot it has, or else one of the pool's.     *)
LEMMA SlotForType ==
    ASSUME Plain, NEW g \in Games
    PROVE  /\ SlotFor(g) \in Slots /\ SlotFor(g) # None
           /\ assigned[g] # None => SlotFor(g) = assigned[g]
           /\ Pin(g) => assigned' = [assigned EXCEPT ![g] = SlotFor(g)] /\ assigned'[g] = SlotFor(g)
<1>1. assigned \in [Games -> Slots \cup {None}]
  BY DEF Plain, PinInv
<1>2. SlotFor(g) \in Slots
  <2>1. CASE assigned[g] = None
    BY <2>1, SlotsAssumption, LeastLoaded
  <2>2. CASE assigned[g] # None
    BY <1>1, <2>2 DEF SlotFor
  <2>. QED
    BY <2>1, <2>2
<1>. QED
  BY <1>1, <1>2, SlotsAssumption DEF SlotFor, Pin

(* A handler that is done has nothing under way.                           *)
LEMMA NothingUnderWay ==
    /\ Course(NoTask) /\ ~ (NoTask.pc # "idle") /\ NoTask \in TaskType
    /\ SeedInv(NoTask)' /\ UseInv(NoTask)'
<1>1. <<>> \in Seq(Stones) /\ "idle" \in Labels
  BY EmptySeq DEF Labels
<1>. QED
  BY <1>1 DEF Course, NoTask, TaskType, SeedInv, UseInv, Seeding, Round

LEMMA ReseedKeeps ==
    ASSUME Inv, PinInv', NEW t \in Tasks, Reseed(t)
    PROVE  Inv'
<1>1. PICK g, c, s, k : /\ c = task[t] /\ g = c.game /\ s = SlotFor(g)
                        /\ k = [c EXCEPT !.pc = "wipe", !.slot = s, !.played = 0]
  OBVIOUS
<1>2. /\ Plain /\ c \in TaskType /\ Course(c) /\ c.pc = "reseed" /\ g \in Games /\ Busy(t)
  BY <1>1 DEF Inv, Plain, TypeOK, TaskType, Course, Reseed, At, Busy
<1>3. /\ s \in Slots /\ s # None /\ assigned'[g] = s /\ assigned' = [assigned EXCEPT ![g] = s]
      /\ assigned[g] # None => s = assigned[g]
  BY <1>1, <1>2, SlotForType DEF Reseed
<1>4. /\ k \in TaskType /\ Course(k) /\ Set(t, k)
  BY <1>1, <1>2, <1>3 DEF Reseed, Set, TaskType, Course, Seeding, Labels
<1>5. TypeOK'
  BY <1>1, <1>2, <1>3, <1>4 DEF Plain, TypeOK, Reseed, Set, TaskType
<1>6. ASSUME Apart
      PROVE  Step(t, g, s, k) /\ SeedInv(k)' /\ UseInv(k)' /\ Recorded(g, k)
  <2>1. /\ BoardInv /\ SeedInv(c) /\ UseInv(c)
        /\ (g \in Games => phase[g] # "new") /\ (Concurrent => c.locked)
        /\ \A u \in Tasks \ {t} : Busy(u) => Concurrent /\ g \in Games /\ task[u].game # g
        /\ \A r \in Slots : owner[r] = g => assigned[g] = r
    BY <1>1, <1>2, <1>6, InFlight DEF BoardInv, Round
  <2>2. \A r \in Slots : owner'[r] # g
    BY <1>1, <1>2, <1>3, <2>1, SlotsAssumption DEF Reseed, Plain, TypeOK
  <2>3. Step(t, g, s, k)
    BY <1>1, <1>2, <1>3, <2>1 DEF Step, Reseed, Plain, TypeOK
  <2>4. SeedInv(k)'
    BY <1>1, <1>2, <1>3, <2>1, <2>2 DEF SeedInv, Reseed, Seeding, Plain, TypeOK, OwnedBy, TaskType
  <2>5. UseInv(k)'
    BY <1>1, <1>2, <1>3, <2>1, <2>2, SlotsAssumption DEF UseInv, Reseed, Seeding, Round, TaskType
  <2>. QED
    BY <2>2, <2>3, <2>4, <2>5 DEF Recorded
<1>. QED
  BY <1>4, <1>5, <1>6, StepKeeps

(* The first n moves and the next one are the first n + 1.                 *)
LEMMA OneMore ==
    ASSUME NEW S, NEW w \in Seq(S), NEW n \in Nat, n < Len(w)
    PROVE  /\ SubSeq(w, 1, n) \in Seq(S) /\ w[n + 1] \in S
           /\ Append(SubSeq(w, 1, n), w[n + 1]) = SubSeq(w, 1, n + 1)
           /\ n + 1 = Len(w) => SubSeq(w, 1, n + 1) = w
<1>. DEFINE a == SubSeq(w, 1, n)
            b == SubSeq(w, 1, n + 1)
<1>1. Len(w) \in Nat /\ n + 1 \in 1..Len(w) /\ w[n + 1] \in S
  BY LenProperties, ElementOfSeq
<1>2. a \in Seq(S) /\ Len(a) = n /\ \A i \in 1..n : a[i] = w[i]
  BY <1>1, SubSeqProperties
<1>3. b \in Seq(S) /\ Len(b) = n + 1 /\ \A i \in 1..(n + 1) : b[i] = w[i]
  BY <1>1, SubSeqProperties
<1>4. /\ Append(a, w[n + 1]) \in Seq(S) /\ Len(Append(a, w[n + 1])) = n + 1
      /\ \A i \in 1..n : Append(a, w[n + 1])[i] = a[i]
      /\ Append(a, w[n + 1])[n + 1] = w[n + 1]
  BY <1>1, <1>2, AppendProperties
<1>. HIDE DEF a, b
<1>5. Append(a, w[n + 1]) = b
  <2>1. \A i \in 1..(n + 1) : Append(a, w[n + 1])[i] = b[i]
    BY <1>2, <1>3, <1>4
  <2>. QED
    BY <1>3, <1>4, <2>1, SeqEqual
<1>6. n + 1 = Len(w) => b = w
  BY <1>3, SeqEqual
<1>. QED
  BY <1>1, <1>2, <1>5, <1>6 DEF a, b

LEMMA StoneAdded ==
    ASSUME NEW p, NEW g, NEW w, NEW x, p = Position(g, w)
    PROVE  [p EXCEPT !.stones = Append(@, x)] = Position(g, Append(w, x))
  BY DEF Position

LEMMA WipeKeeps ==
    ASSUME Inv, PinInv', NEW t \in Tasks, Wipe(t)
    PROVE  Inv'
<1>1. PICK g, c, s, k : /\ c = task[t] /\ g = c.game /\ s = c.slot
                        /\ k = [c EXCEPT !.pc = IF c.want = <<>> THEN "loaded" ELSE "replay"]
  OBVIOUS
<1>2. /\ Plain /\ c \in TaskType /\ Course(c) /\ c.pc = "wipe" /\ g \in Games \cup {Puzzle} /\ Busy(t)
  BY <1>1 DEF Inv, Plain, TypeOK, TaskType, Course, Wipe, At, Busy
<1>3. c.want \in Seq(Stones) /\ c.played = 0 /\ <<>> \in Seq(Stones)
      /\ (c.want # <<>> => c.played < Len(c.want)) /\ SubSeq(c.want, 1, c.played) = <<>>
  <2>1. c.want \in Seq(Stones) /\ c.played = 0 /\ <<>> \in Seq(Stones)
    BY <1>2, EmptySeq DEF TaskType, Course
  <2>2. Len(c.want) \in Nat /\ (c.want # <<>> => Len(c.want) # 0)
    BY <2>1, EmptySeq, LenProperties
  <2>3. SubSeq(c.want, 1, 0) = <<>>
    BY <2>1, SubSeqEmpty
  <2>. QED
    BY <2>1, <2>2, <2>3
<1>4. /\ k \in TaskType /\ Course(k) /\ Set(t, k)
  BY <1>1, <1>2, <1>3 DEF Wipe, Goto, Set, TaskType, Course, Seeding, Labels
<1>5. TypeOK'
  BY <1>1, <1>2, <1>3, <1>4 DEF Plain, TypeOK, Wipe, Set, TaskType, Position, Positions
<1>6. ASSUME Apart
      PROVE  Step(t, g, s, k) /\ SeedInv(k)' /\ UseInv(k)' /\ Recorded(g, k)
  <2>1. /\ BoardInv /\ SeedInv(c) /\ UseInv(c)
        /\ (g \in Games => phase[g] # "new") /\ (Concurrent => g \in Games /\ c.locked)
        /\ \A u \in Tasks \ {t} : Busy(u) => Concurrent /\ g \in Games /\ task[u].game # g
        /\ \A r \in Slots : owner[r] = g => g \in Games /\ assigned[g] = r /\ board[r] = Position(g, hist[g])
    BY <1>1, <1>2, <1>6, InFlight DEF BoardInv, Round
  <2>2. /\ s \in Slots /\ owner[s] = None /\ (g = Puzzle \/ assigned[g] = s)
        /\ board'[s] = Position(g, <<>>) /\ \A r \in Slots \ {s} : board'[r] = board[r]
    BY <1>1, <1>2, <2>1 DEF SeedInv, Wipe, Plain, TypeOK
  <2>3. Step(t, g, s, k)
    BY <1>1, <1>2, <2>1, <2>2, SlotsAssumption DEF Step, Wipe, TaskType
  <2>4. SeedInv(k)'
    <3>1. /\ k.pc \in {"loaded", "replay"} /\ (k.pc = "loaded" => c.want = <<>>)
          /\ k.slot = s /\ k.game = g /\ k.want = c.want /\ k.played = c.played /\ k.next = c.next
      BY <1>1, <1>2 DEF TaskType
    <3>2. assigned' = assigned /\ owner' = owner /\ hist' = hist
      BY DEF Wipe
    <3>3. board'[s] = Position(g, SubSeq(k.want, 1, k.played)) /\ board'[s] = Position(g, <<>>)
      BY <1>3, <2>2, <3>1, Zenon
    <3>. QED
      BY <1>1, <1>2, <2>1, <2>2, <3>1, <3>2, <3>3 DEF SeedInv, Seeding, OwnedBy
  <2>5. UseInv(k)'
    BY <1>1, <1>2, <2>1, <2>2 DEF UseInv, Wipe, Seeding, Round, TaskType
  <2>6. Recorded(g, k)
    BY <1>1, <1>2, <2>1, <2>2, SlotsAssumption DEF Recorded, Wipe
  <2>. QED
    BY <2>3, <2>4, <2>5, <2>6
<1>. QED
  BY <1>4, <1>5, <1>6, StepKeeps

LEMMA ReplayKeeps ==
    ASSUME Inv, PinInv', NEW t \in Tasks, Replay(t)
    PROVE  Inv'
<1>1. PICK g, c, s, n, k : /\ c = task[t] /\ g = c.game /\ s = c.slot /\ n = c.played
                           /\ k = [c EXCEPT !.played = n + 1,
                                      !.pc = IF n + 1 = Len(c.want) THEN "loaded" ELSE "replay"]
  OBVIOUS
<1>2. /\ Plain /\ c \in TaskType /\ Course(c) /\ c.pc = "replay" /\ g \in Games \cup {Puzzle} /\ Busy(t)
  BY <1>1 DEF Inv, Plain, TypeOK, TaskType, Course, Replay, At, Busy
<1>3. /\ c.want \in Seq(Stones) /\ n \in Nat /\ n < Len(c.want) /\ Len(c.want) \in Nat
      /\ c.want[n + 1] \in Stones
      /\ Append(SubSeq(c.want, 1, n), c.want[n + 1]) = SubSeq(c.want, 1, n + 1)
      /\ n + 1 = Len(c.want) => SubSeq(c.want, 1, n + 1) = c.want
  <2>1. c.want \in Seq(Stones) /\ n \in Nat /\ n < Len(c.want) /\ Len(c.want) \in Nat
    BY <1>1, <1>2, LenProperties DEF TaskType, Course
  <2>. QED
    BY <2>1, OneMore
<1>4. /\ k \in TaskType /\ Course(k) /\ Set(t, k)
  <2>1. /\ k.pc = IF n + 1 = Len(c.want) THEN "loaded" ELSE "replay"
        /\ k.played = n + 1 /\ k.want = c.want /\ k.game = c.game /\ k.next = c.next
    BY <1>1, <1>2 DEF TaskType
  <2>2. n + 1 \in Nat /\ (n + 1 # Len(c.want) => n + 1 < Len(c.want))
    BY <1>3
  <2>3. k \in TaskType
    BY <1>1, <1>2, <2>2, ZenonT(60) DEF TaskType, Labels
  <2>4. Course(k)
    BY <1>2, <2>1, <2>2 DEF Course, Seeding
  <2>5. Set(t, k)
    BY <1>1 DEF Replay, Set
  <2>. QED
    BY <2>3, <2>4, <2>5
<1>5. TypeOK'
  <2>1. board' \in [Slots -> Positions]
    <3>1. SUFFICES ASSUME NEW r \in Slots, r = s
                   PROVE  [board[r] EXCEPT !.stones = Append(@, c.want[n + 1])] \in Positions
      BY <1>1, <1>2 DEF Replay, Plain, TypeOK
    <3>2. board[r].stones \in Seq(Stones) /\ board[r] \in Positions
      BY <1>2 DEF Plain, TypeOK, Positions
    <3>3. Append(board[r].stones, c.want[n + 1]) \in Seq(Stones)
      BY <1>3, <3>2, AppendProperties
    <3>. QED
      BY <3>2, <3>3 DEF Positions
  <2>. QED
    BY <1>1, <1>2, <1>4, <2>1 DEF Plain, TypeOK, Replay, Set, TaskType
<1>6. ASSUME Apart
      PROVE  Step(t, g, s, k) /\ SeedInv(k)' /\ UseInv(k)' /\ Recorded(g, k)
  <2>1. /\ BoardInv /\ SeedInv(c) /\ UseInv(c)
        /\ (g \in Games => phase[g] # "new") /\ (Concurrent => g \in Games /\ c.locked)
        /\ \A u \in Tasks \ {t} : Busy(u) => Concurrent /\ g \in Games /\ task[u].game # g
        /\ \A r \in Slots : owner[r] = g => g \in Games /\ assigned[g] = r /\ board[r] = Position(g, hist[g])
    BY <1>1, <1>2, <1>6, InFlight DEF BoardInv, Round
  <2>2. /\ s \in Slots /\ owner[s] = None /\ (g = Puzzle \/ assigned[g] = s)
        /\ board[s] = Position(g, SubSeq(c.want, 1, n))
    BY <1>1, <1>2, <2>1 DEF SeedInv
  <2>3. /\ board'[s] = Position(g, SubSeq(c.want, 1, n + 1))
        /\ \A r \in Slots \ {s} : board'[r] = board[r]
    <3>1. /\ board' = [board EXCEPT ![s].stones = Append(@, c.want[n + 1])]
          /\ board \in [Slots -> Positions]
      BY <1>1, <1>2 DEF Replay, Plain, TypeOK
    <3>2. board'[s] = [board[s] EXCEPT !.stones = Append(@, c.want[n + 1])]
      BY <2>2, <3>1
    <3>3. board'[s] = Position(g, Append(SubSeq(c.want, 1, n), c.want[n + 1]))
      BY <2>2, <3>2, StoneAdded
    <3>. QED
      BY <1>3, <3>1, <3>3
  <2>4. Step(t, g, s, k)
    BY <1>1, <1>2, <2>1, <2>2, <2>3, SlotsAssumption DEF Step, Replay, TaskType
  <2>5. SeedInv(k)'
    BY <1>1, <1>2, <1>3, <2>1, <2>2, <2>3 DEF SeedInv, Replay, Seeding, OwnedBy, TaskType
  <2>6. UseInv(k)'
    BY <1>1, <1>2, <2>1, <2>2 DEF UseInv, Replay, Seeding, Round, TaskType
  <2>7. Recorded(g, k)
    BY <1>1, <1>2, <2>1, <2>2, <2>3, SlotsAssumption DEF Recorded, Replay
  <2>. QED
    BY <2>4, <2>5, <2>6, <2>7
<1>. QED
  BY <1>4, <1>5, <1>6, StepKeeps

LEMMA LoadedKeeps ==
    ASSUME Inv, PinInv', NEW t \in Tasks, Loaded(t)
    PROVE  Inv'
<1>1. PICK g, c, s, k : /\ c = task[t] /\ g = c.game /\ s = c.slot
                        /\ k = [c EXCEPT !.pc = c.next]
  OBVIOUS
<1>2. /\ Plain /\ c \in TaskType /\ Course(c) /\ c.pc = "loaded" /\ g \in Games \cup {Puzzle} /\ Busy(t)
      /\ c.next \in {"open", "genmove", "commit", "read", "review"}
  BY <1>1 DEF Inv, Plain, TypeOK, TaskType, Course, Loaded, At, Busy, Seeding
<1>3. /\ k \in TaskType /\ Course(k) /\ Set(t, k)
  BY <1>1, <1>2 DEF Loaded, Goto, Set, TaskType, Course, Seeding, Labels
<1>4. TypeOK'
  BY <1>1, <1>2, <1>3 DEF Plain, TypeOK, Loaded, Set, TaskType
<1>5. ASSUME Apart
      PROVE  Step(t, g, s, k) /\ SeedInv(k)' /\ UseInv(k)' /\ Recorded(g, k)
  <2>1. /\ BoardInv /\ SeedInv(c) /\ UseInv(c)
        /\ (g \in Games => phase[g] # "new") /\ (Concurrent => g \in Games /\ c.locked)
        /\ \A u \in Tasks \ {t} : Busy(u) => Concurrent /\ g \in Games /\ task[u].game # g
        /\ \A r \in Slots : owner[r] = g => g \in Games /\ assigned[g] = r /\ board[r] = Position(g, hist[g])
    BY <1>1, <1>2, <1>5, InFlight DEF BoardInv, Round
  <2>2. /\ s \in Slots /\ owner[s] = None /\ (g = Puzzle \/ assigned[g] = s)
        /\ board[s] = Position(g, c.want)
    BY <1>1, <1>2, <2>1 DEF SeedInv
  <2>3. /\ \A r \in Slots \ {s} : owner'[r] = owner[r]
        /\ g = Puzzle \/ c.next \in {"review", "open"} => owner' = owner
        /\ g # Puzzle /\ c.next \notin {"review", "open"} => owner'[s] = g
    BY <1>1, <1>2, <2>2, SlotsAssumption DEF Loaded, Plain, TypeOK
  <2>4. Step(t, g, s, k)
    BY <1>1, <1>2, <2>1, <2>2, <2>3, SlotsAssumption DEF Step, Loaded, TaskType
  <2>5. SeedInv(k)'
    BY <1>1, <1>2, <2>1, <2>2, <2>3 DEF SeedInv, Loaded, Seeding, OwnedBy, TaskType
  <2>6. UseInv(k)'
    BY <1>1, <1>2, <2>1, <2>2, <2>3, SlotsAssumption DEF UseInv, SeedInv, Loaded, Seeding, Round, TaskType, Course
  <2>7. Recorded(g, k)
    BY <1>1, <1>2, <2>1, <2>2, <2>3, SlotsAssumption DEF Recorded, Loaded, SeedInv, Seeding, Round, TaskType
  <2>. QED
    BY <2>4, <2>5, <2>6, <2>7
<1>. QED
  BY <1>3, <1>4, <1>5, StepKeeps

(* The stones of a slot's board grow by one.                               *)
LEMMA BoardGrows ==
    ASSUME Plain, NEW s, NEW x \in Stones, board' = [board EXCEPT ![s].stones = Append(@, x)]
    PROVE  /\ board' \in [Slots -> Positions]
           /\ \A r \in Slots : r # s => board'[r] = board[r]
           /\ s \in Slots => \A g, w : board[s] = Position(g, w) => board'[s] = Position(g, Append(w, x))
<1>1. board \in [Slots -> Positions]
  BY DEF Plain, TypeOK
<1>2. \A r \in Slots : [board[r] EXCEPT !.stones = Append(@, x)] \in Positions
  <2>1. SUFFICES ASSUME NEW r \in Slots
                 PROVE  [board[r] EXCEPT !.stones = Append(@, x)] \in Positions
    OBVIOUS
  <2>2. board[r].stones \in Seq(Stones) /\ board[r] \in Positions
    BY <1>1 DEF Positions
  <2>3. Append(board[r].stones, x) \in Seq(Stones)
    BY <2>2, AppendProperties
  <2>. QED
    BY <2>2, <2>3 DEF Positions
<1>3. s \in Slots => board'[s] = [board[s] EXCEPT !.stones = Append(@, x)]
  BY <1>1
<1>4. s \in Slots => \A g, w : board[s] = Position(g, w) => board'[s] = Position(g, Append(w, x))
  BY <1>3, StoneAdded
<1>5. \A r \in Slots : r # s => board'[r] = board[r]
  BY <1>1
<1>6. board' \in [Slots -> Positions]
  BY <1>1, <1>2
<1>. QED
  BY <1>4, <1>5, <1>6

LEMMA OneStone ==
    ASSUME NEW S, NEW x \in S
    PROVE  <<x>> \in Seq(S) /\ Append(<<>>, x) = <<x>>
<1>1. /\ Append(<<>>, x) \in Seq(S) /\ Len(Append(<<>>, x)) = 1
      /\ Append(<<>>, x)[1] = x
  BY EmptySeq, AppendProperties
<1>2. <<x>> \in Seq(S) /\ Len(<<x>>) = 1 /\ <<x>>[1] = x
  OBVIOUS
<1>3. \A i \in 1..1 : Append(<<>>, x)[i] = <<x>>[i]
  BY <1>1, <1>2
<1>. QED
  BY <1>1, <1>2, <1>3, SeqEqual

LEMMA OpenKeeps ==
    ASSUME Inv, PinInv', NEW t \in Tasks, Open(t)
    PROVE  Inv'
<1>1. PICK g, c, s, k : c = task[t] /\ g = c.game /\ s = c.home /\ k = NoTask
  OBVIOUS
<1>2. Plain /\ c \in TaskType /\ Course(c) /\ c.pc = "open" /\ c.next = "open" /\ g \in Games /\ Busy(t)
  BY <1>1 DEF Inv, Plain, TypeOK, TaskType, Course, Open, At, Busy
<1>3. /\ k \in TaskType /\ Course(k) /\ Set(t, k) /\ k.pc = "idle"
      /\ SeedInv(k)' /\ UseInv(k)'
  BY <1>1, NothingUnderWay DEF Open, Done, SeedInv, UseInv, NoTask
<1>4. phase' = [phase EXCEPT ![g] = "active"] /\ assigned' = assigned
  BY <1>1 DEF Open
<1>5. CASE hist' = hist /\ board' = board /\ owner' = [owner EXCEPT ![s] = g]
  <2>1. TypeOK'
    BY <1>1, <1>2, <1>3, <1>4, <1>5 DEF Plain, TypeOK, Open, Set, TaskType
  <2>2. ASSUME Apart
        PROVE  Step(t, g, s, k) /\ Recorded(g, k)
    <3>1. /\ BoardInv /\ UseInv(c) /\ SeedInv(c) /\ phase[g] # "new"
          /\ \A u \in Tasks \ {t} : Busy(u) => Concurrent /\ g \in Games /\ task[u].game # g
          /\ \A r \in Slots : owner[r] = g => assigned[g] = r /\ board[r] = Position(g, hist[g])
      BY <1>1, <1>2, <2>2, InFlight DEF BoardInv, Round
    <3>2. /\ s \in Slots /\ assigned[g] = s /\ owner[s] = None
          /\ hist[g] = <<>> /\ board[s] = Position(g, <<>>)
      BY <1>1, <1>2, <3>1 DEF UseInv, SeedInv
    <3>3. Step(t, g, s, k)
      BY <1>1, <1>2, <1>3, <1>4, <1>5, <3>1, <3>2 DEF Step, Plain, TypeOK
    <3>4. Recorded(g, k)
      BY <1>2, <1>4, <1>5, <3>1, <3>2 DEF Recorded, Plain, TypeOK
    <3>. QED
      BY <3>3, <3>4
  <2>. QED
    BY <1>3, <2>1, <2>2, StepKeeps
<1>6. ASSUME NEW x \in Stones, board' = [board EXCEPT ![s].stones = Append(@, x)],
             \/ hist' = [hist EXCEPT ![g] = <<x>>] /\ owner' = [owner EXCEPT ![s] = g]
             \/ hist' = hist /\ owner' = owner
      PROVE  Inv'
  <2>1. /\ board' \in [Slots -> Positions] /\ \A r \in Slots : r # s => board'[r] = board[r]
        /\ s \in Slots => \A h, w : board[s] = Position(h, w) => board'[s] = Position(h, Append(w, x))
    BY <1>2, <1>6, BoardGrows
  <2>2. PICK one : one = <<x>> /\ one \in Seq(Stones) /\ Append(<<>>, x) = one
    BY <1>6, OneStone
  <2>3. TypeOK'
    <3>1. hist' = [hist EXCEPT ![g] = one] \/ hist' = hist
      BY <1>6, <2>2, Zenon
    <3>2. hist' \in [Games -> Seq(Stones)]
      BY <1>2, <2>2, <3>1 DEF Plain, TypeOK
    <3>. QED
      BY <1>1, <1>2, <1>3, <1>4, <1>6, <2>1, <3>2, ZenonT(60) DEF Plain, TypeOK, Open, Set, TaskType
  <2>4. ASSUME Apart
        PROVE  Step(t, g, s, k) /\ Recorded(g, k)
    <3>1. /\ BoardInv /\ UseInv(c) /\ SeedInv(c) /\ phase[g] # "new"
          /\ \A u \in Tasks \ {t} : Busy(u) => Concurrent /\ g \in Games /\ task[u].game # g
          /\ \A r \in Slots : owner[r] = g => assigned[g] = r /\ board[r] = Position(g, hist[g])
      BY <1>1, <1>2, <2>4, InFlight DEF BoardInv, Round
    <3>2. /\ s \in Slots /\ assigned[g] = s /\ owner[s] = None
          /\ hist[g] = <<>> /\ board[s] = Position(g, <<>>)
      BY <1>1, <1>2, <3>1 DEF UseInv, SeedInv
    <3>3. board'[s] = Position(g, one)
      <4>1. board'[s] = Position(g, Append(<<>>, x))
        BY <2>1, <3>2
      <4>. QED
        BY <2>2, <4>1, Zenon
    <3>4. Step(t, g, s, k)
      BY <1>1, <1>2, <1>3, <1>4, <1>6, <2>1, <3>1, <3>2 DEF Step, Plain, TypeOK
    <3>5. Recorded(g, k)
      <4>1. CASE hist' = hist /\ owner' = owner
        BY <1>2, <1>4, <2>1, <3>1, <3>2, <4>1, SlotsAssumption DEF Recorded
      <4>2. CASE hist' = [hist EXCEPT ![g] = <<x>>] /\ owner' = [owner EXCEPT ![s] = g]
        <5>1. hist'[g] = one
          BY <1>2, <2>2, <4>2, Zenon DEF Plain, TypeOK
        <5>. QED
          BY <1>2, <1>4, <3>1, <3>2, <3>3, <4>2, <5>1 DEF Recorded, Plain, TypeOK
      <4>. QED
        BY <1>6, <4>1, <4>2
    <3>. QED
      BY <3>4, <3>5
  <2>. QED
    BY <1>3, <2>3, <2>4, StepKeeps
<1>. QED
  BY <1>1, <1>5, <1>6 DEF Open

LEMMA StartCreateKeeps ==
    ASSUME Inv, PinInv', NEW t \in Tasks, NEW g \in Games, StartCreate(t, g)
    PROVE  Inv'
<1>1. PICK s, k : /\ s = SlotFor(g)
                  /\ k = [NoTask EXCEPT !.pc = "reseed", !.game = g, !.next = "open",
                                        !.home = s, !.locked = TRUE]
  OBVIOUS
<1>2. /\ Plain /\ task[t].pc = "idle" /\ phase[g] = "new" /\ CanStart(t, "create")
  BY DEF Inv, StartCreate, CanStart
<1>3. /\ s \in Slots /\ s # None /\ assigned'[g] = s /\ assigned' = [assigned EXCEPT ![g] = s]
      /\ assigned[g] # None => s = assigned[g]
  BY <1>1, <1>2, SlotForType DEF StartCreate
<1>4. /\ k.pc = "reseed" /\ k.game = g /\ k.next = "open" /\ k.home = s /\ k.locked
      /\ k.want = <<>> /\ k.played = 0 /\ k.slot = None
      /\ k \in TaskType /\ Set(t, k)
  BY <1>1, <1>3, NothingUnderWay DEF StartCreate, TaskType, NoTask, Labels
<1>5. Course(k)
  BY <1>4, SlotsAssumption DEF Course, Seeding
<1>6. TypeOK'
  BY <1>1, <1>2, <1>3, <1>4 DEF Plain, TypeOK, StartCreate, Set, TaskType
<1>7. ASSUME Apart
      PROVE  Step(t, g, None, k) /\ SeedInv(k)' /\ UseInv(k)' /\ Recorded(g, k)
  <2>1. /\ BoardInv /\ ~ Busy(t)
        /\ \A u \in Tasks \ {t} : Busy(u) => Concurrent /\ task[u].game # g
        /\ \A r \in Slots : owner[r] = g => assigned[g] = r /\ board[r] = Position(g, hist[g])
    BY <1>2, <1>7, Starting
  <2>2. hist[g] = <<>>
    BY <1>2, <2>1 DEF BoardInv, NewIsEmpty
  <2>3. /\ phase' = [phase EXCEPT ![g] = "creating"] /\ hist' = hist /\ owner' = owner
        /\ board' = board
    BY DEF StartCreate
  <2>4. Step(t, g, None, k)
    BY <1>2, <1>3, <1>4, <2>1, <2>3 DEF Step, Plain, TypeOK
  <2>5. SeedInv(k)'
    BY <1>4, <2>2, <2>3 DEF SeedInv, Seeding
  <2>6. UseInv(k)'
    BY <1>3, <1>4 DEF UseInv, Seeding, Round
  <2>7. Recorded(g, k)
    BY <1>3, <2>1, <2>3, SlotsAssumption DEF Recorded
  <2>. QED
    BY <2>4, <2>5, <2>6, <2>7
<1>. QED
  BY <1>4, <1>5, <1>6, <1>7, StepKeeps

(* drop_adapter_owner: the game owns no slot any more, no other loses one. *)
LEMMA Disowned ==
    ASSUME Plain, NEW g \in Games
    PROVE  /\ OwnerWithout(g) \in [Slots -> Games \cup {None}]
           /\ \A r \in Slots : OwnerWithout(g)[r] \in {owner[r], None}
           /\ OwnerIsPinned => \A r \in Slots : OwnerWithout(g)[r] # g
  BY SlotsAssumption DEF Plain, TypeOK, OwnerWithout, Owns, OwnerIsPinned

LEMMA StartPlaceKeeps ==
    ASSUME Inv, PinInv', NEW t \in Tasks, NEW g \in Games, StartPlace(t, g)
    PROVE  Inv'
<1>1. PICK x \in Stones :
          Set(t, [NoTask EXCEPT !.pc = "sync", !.game = g, !.home = SlotFor(g), !.slot = SlotFor(g),
                                !.next = "genmove", !.want = Append(hist[g], x), !.locked = TRUE])
  BY DEF StartPlace
<1>2. PICK s, w, k : /\ s = SlotFor(g) /\ w = Append(hist[g], x)
                     /\ k = [NoTask EXCEPT !.pc = "sync", !.game = g, !.home = s, !.slot = s,
                                           !.next = "genmove", !.want = w, !.locked = TRUE]
  OBVIOUS
<1>3. /\ Plain /\ task[t].pc = "idle" /\ phase[g] = "active" /\ CanStart(t, "place") /\ LockFree(g)
      /\ hist[g] \in Seq(Stones)
  BY DEF Inv, StartPlace, CanStart, Plain, TypeOK
<1>4. /\ s \in Slots /\ s # None /\ assigned'[g] = s /\ assigned' = [assigned EXCEPT ![g] = s]
      /\ assigned[g] # None => s = assigned[g]
  BY <1>2, <1>3, SlotForType DEF StartPlace
<1>5. w \in Seq(Stones) /\ w[Len(w)] = x /\ w # <<>>
  BY <1>1, <1>2, <1>3, AppendProperties, EmptySeq
<1>6. /\ k.pc = "sync" /\ k.game = g /\ k.next = "genmove" /\ k.home = s /\ k.locked
      /\ k.want = w /\ k.played = 0 /\ k.slot = s
      /\ k \in TaskType /\ Set(t, k)
  BY <1>1, <1>2, <1>4, <1>5, NothingUnderWay DEF TaskType, NoTask, Labels
<1>7. Course(k)
  BY <1>5, <1>6, SlotsAssumption DEF Course, Seeding
<1>8. TypeOK'
  <2>1. UNCHANGED <<hist, phase, owner, board, failures>>
    BY DEF StartPlace
  <2>. QED
    BY <1>3, <1>4, <1>6, <2>1 DEF Plain, TypeOK, Set, TaskType
<1>9. ASSUME Apart
      PROVE  Step(t, g, None, k) /\ SeedInv(k)' /\ UseInv(k)' /\ Recorded(g, k)
  <2>1. /\ BoardInv /\ ~ Busy(t)
        /\ \A u \in Tasks \ {t} : Busy(u) => Concurrent /\ task[u].game # g
        /\ \A r \in Slots : owner[r] = g => assigned[g] = r /\ board[r] = Position(g, hist[g])
    BY <1>3, <1>9, Starting
  <2>2. phase' = phase /\ hist' = hist /\ owner' = owner /\ board' = board
    BY DEF StartPlace
  <2>3. Step(t, g, None, k)
    BY <1>3, <1>4, <1>6, <2>1, <2>2 DEF Step, Plain, TypeOK
  <2>4. SeedInv(k)'
    BY <1>6 DEF SeedInv, Seeding
  <2>5. UseInv(k)'
    BY <1>2, <1>4, <1>5, <1>6, <2>2 DEF UseInv, Seeding, Round
  <2>6. Recorded(g, k)
    BY <1>4, <2>1, <2>2, SlotsAssumption DEF Recorded
  <2>. QED
    BY <2>3, <2>4, <2>5, <2>6
<1>. QED
  BY <1>6, <1>7, <1>8, <1>9, StepKeeps

LEMMA SyncKeeps ==
    ASSUME Inv, PinInv', NEW t \in Tasks, Sync(t)
    PROVE  Inv'
<1>1. PICK g, c, s : c = task[t] /\ g = c.game /\ s = c.slot
  OBVIOUS
<1>2. /\ Plain /\ c \in TaskType /\ Course(c) /\ c.pc = "sync" /\ g \in Games /\ Busy(t)
      /\ c.next = "genmove"
  BY <1>1 DEF Inv, Plain, TypeOK, TaskType, Course, Sync, At, Busy
<1>3. ASSUME Apart
      PROVE  /\ BoardInv /\ SeedInv(c) /\ UseInv(c)
             /\ (g \in Games => phase[g] # "new") /\ (Concurrent => g \in Games /\ c.locked)
             /\ \A u \in Tasks \ {t} : Busy(u) => Concurrent /\ g \in Games /\ task[u].game # g
             /\ \A r \in Slots : owner[r] = g => g \in Games /\ assigned[g] = r /\ board[r] = Position(g, hist[g])
  BY <1>1, <1>2, <1>3, InFlight DEF BoardInv, Round
<1>4. UNCHANGED <<hist, phase, assigned, owner, failures>>
  BY DEF Sync
<1>5. CASE Goto(t, "reseed") /\ UNCHANGED board
  <2>1. PICK k : k = [c EXCEPT !.pc = "reseed"]
    OBVIOUS
  <2>2. /\ k.pc = "reseed" /\ k.game = g /\ k.next = "genmove" /\ k.home = c.home /\ k.locked = c.locked
        /\ k \in TaskType /\ Set(t, k)
    BY <1>1, <1>2, <1>5, <2>1 DEF TaskType, Labels, Goto, Set
  <2>3. Course(k)
    BY <1>2, <2>2, SlotsAssumption DEF Course, Seeding
  <2>4. TypeOK'
    BY <1>2, <1>4, <1>5, <2>2 DEF Plain, TypeOK, Set, TaskType
  <2>5. ASSUME Apart
        PROVE  Step(t, g, None, k) /\ SeedInv(k)' /\ UseInv(k)' /\ Recorded(g, k)
    <3>1. Step(t, g, None, k)
      BY <1>1, <1>2, <1>3, <1>4, <1>5, <2>2, <2>5 DEF Step
    <3>2. SeedInv(k)' /\ UseInv(k)'
      BY <1>1, <1>2, <1>3, <1>4, <2>2, <2>5 DEF SeedInv, UseInv, Seeding, Round
    <3>3. Recorded(g, k)
      BY <1>3, <1>4, <1>5, <2>5 DEF Recorded
    <3>. QED
      BY <3>1, <3>2, <3>3
  <2>. QED
    BY <2>2, <2>3, <2>4, <2>5, StepKeeps
<1>6. CASE /\ Owns(g) /\ Goto(t, "genmove")
           /\ board' = [board EXCEPT ![s].stones = Append(@, c.want[Len(c.want)])]
  <2>1. PICK k, x : k = [c EXCEPT !.pc = "genmove"] /\ x = c.want[Len(c.want)]
    OBVIOUS
  <2>2. /\ k.pc = "genmove" /\ k.game = g /\ k.next = "genmove" /\ k.home = c.home /\ k.locked = c.locked
        /\ k.want = c.want /\ k \in TaskType /\ Set(t, k)
    BY <1>1, <1>2, <1>6, <2>1 DEF TaskType, Labels, Goto, Set
  <2>3. Course(k)
    BY <1>2, <2>2, SlotsAssumption DEF Course, Seeding
  <2>4. x \in Stones
    <3>1. c.want \in Seq(Stones) /\ c.want # <<>>
      BY <1>2 DEF TaskType, Course
    <3>2. Len(c.want) \in 1..Len(c.want)
      BY <3>1, EmptySeq, LenProperties
    <3>. QED
      BY <2>1, <3>1, <3>2, ElementOfSeq
  <2>5. /\ board' \in [Slots -> Positions] /\ \A r \in Slots : r # s => board'[r] = board[r]
        /\ s \in Slots => \A h, w : board[s] = Position(h, w) => board'[s] = Position(h, Append(w, x))
    <3>1. board' = [board EXCEPT ![s].stones = Append(@, x)]
      BY <1>6, <2>1, Zenon
    <3>. QED
      BY <1>2, <2>4, <3>1, BoardGrows
  <2>6. TypeOK'
    BY <1>2, <1>4, <2>2, <2>5 DEF Plain, TypeOK, Set, TaskType
  <2>7. ASSUME Apart
        PROVE  Step(t, g, s, k) /\ SeedInv(k)' /\ UseInv(k)' /\ Recorded(g, k)
    <3>1. /\ s \in Slots /\ assigned[g] = s /\ s = c.home /\ owner[s] = g
          /\ Append(hist[g], x) = c.want
      BY <1>1, <1>2, <1>3, <1>6, <2>1, <2>7 DEF UseInv, Owns
    <3>2. board'[s] = Position(g, c.want)
      <4>1. board[s] = Position(g, hist[g])
        BY <1>3, <2>7, <3>1
      <4>2. board'[s] = Position(g, Append(hist[g], x))
        BY <2>5, <3>1, <4>1
      <4>. QED
        BY <3>1, <4>2, Zenon
    <3>3. Step(t, g, s, k)
      BY <1>1, <1>2, <1>3, <1>4, <2>2, <2>5, <2>7, <3>1 DEF Step
    <3>4. SeedInv(k)' /\ UseInv(k)'
      BY <1>4, <2>2, <3>1, <3>2 DEF SeedInv, UseInv, Seeding, Round
    <3>5. Recorded(g, k)
      BY <1>3, <1>4, <2>2, <2>7 DEF Recorded, Round
    <3>. QED
      BY <3>3, <3>4, <3>5
  <2>. QED
    BY <2>2, <2>3, <2>6, <2>7, StepKeeps
<1>. QED
  BY <1>1, <1>5, <1>6 DEF Sync

LEMMA GenmoveKeeps ==
    ASSUME Inv, PinInv', NEW t \in Tasks, Genmove(t)
    PROVE  Inv'
<1>1. PICK g, c, s : c = task[t] /\ g = c.game /\ s = c.home
  OBVIOUS
<1>2. /\ Plain /\ c \in TaskType /\ Course(c) /\ c.pc = "genmove" /\ g \in Games /\ Busy(t)
      /\ c.next = "genmove"
  BY <1>1 DEF Inv, Plain, TypeOK, TaskType, Course, Genmove, At, Busy
<1>3. ASSUME Apart
      PROVE  /\ BoardInv /\ UseInv(c)
             /\ (g \in Games => phase[g] # "new") /\ (Concurrent => g \in Games /\ c.locked)
             /\ \A u \in Tasks \ {t} : Busy(u) => Concurrent /\ g \in Games /\ task[u].game # g
  BY <1>1, <1>2, <1>3, InFlight DEF BoardInv
<1>4. ASSUME Apart
      PROVE  /\ s \in Slots /\ s # None /\ assigned[g] = s /\ owner[s] \in {g, None}
             /\ board[s] = Position(g, c.want) /\ OwnerIsPinned
             /\ \A r \in Slots : owner[r] = g => r = s
  BY <1>1, <1>2, <1>3, <1>4, SlotsAssumption DEF UseInv, Round, BoardInv, OwnerIsPinned
<1>5. UNCHANGED <<hist, phase, assigned, failures>>
  BY DEF Genmove
<1>6. CASE /\ \E l \in {"commit", "finalize"} : Set(t, [task[t] EXCEPT !.pc = l, !.next = "commit"])
           /\ UNCHANGED <<owner, board>>
  <2>1. PICK l \in {"commit", "finalize"} : Set(t, [task[t] EXCEPT !.pc = l, !.next = "commit"])
    BY <1>6
  <2>2. PICK k : k = [c EXCEPT !.pc = l, !.next = "commit"]
    OBVIOUS
  <2>3. /\ k.pc = l /\ k.game = g /\ k.next = "commit" /\ k.home = s /\ k.locked = c.locked
        /\ k.want = c.want /\ k \in TaskType /\ Set(t, k)
    BY <1>1, <1>2, <2>1, <2>2 DEF TaskType, Labels
  <2>4. Course(k)
    BY <1>2, <2>3, SlotsAssumption DEF Course, Seeding
  <2>5. TypeOK'
    BY <1>2, <1>5, <1>6, <2>3 DEF Plain, TypeOK, Set, TaskType
  <2>6. ASSUME Apart
        PROVE  Step(t, g, None, k) /\ SeedInv(k)' /\ UseInv(k)' /\ Recorded(g, k)
    <3>1. Step(t, g, None, k)
      BY <1>1, <1>2, <1>3, <1>5, <1>6, <2>3, <2>6 DEF Step
    <3>2. SeedInv(k)' /\ UseInv(k)'
      BY <1>4, <1>5, <1>6, <2>3, <2>6 DEF SeedInv, UseInv, Seeding, Round
    <3>3. Recorded(g, k)
      BY <1>2, <1>4, <1>5, <1>6, <2>3, <2>6 DEF Recorded, Round
    <3>. QED
      BY <3>1, <3>2, <3>3
  <2>. QED
    BY <2>3, <2>4, <2>5, <2>6, StepKeeps
<1>7. ASSUME NEW x \in Stones, board' = [board EXCEPT ![s].stones = Append(@, x)],
             \/ /\ owner' = owner
                /\ \/ Set(t, [task[t] EXCEPT !.pc = "commit", !.want = Append(@, x)])
                   \/ Set(t, [task[t] EXCEPT !.pc = "finalize", !.next = "commit",
                                             !.want = Append(@, x)])
             \/ owner' = OwnerWithout(g) /\ Done(t)
      PROVE  Inv'
  <2>1. /\ board' \in [Slots -> Positions] /\ \A r \in Slots : r # s => board'[r] = board[r]
        /\ s \in Slots => \A h, w : board[s] = Position(h, w) => board'[s] = Position(h, Append(w, x))
    BY <1>2, <1>7, BoardGrows
  <2>2. PICK w : w = Append(c.want, x)
    OBVIOUS
  <2>3. c.want \in Seq(Stones) /\ w \in Seq(Stones)
    BY <1>2, <2>2, AppendProperties DEF TaskType
  <2>4. Apart => board'[s] = Position(g, w)
    BY <1>4, <2>1, <2>2
  <2>5. ASSUME owner' = owner, NEW k, Set(t, k), k.want = w, k \in TaskType, Course(k), k.game = g,
               k.home = s, k.locked = c.locked, k.pc \in {"commit", "finalize"}
        PROVE  Inv'
    <3>1. TypeOK'
      BY <1>2, <1>5, <2>1, <2>5 DEF Plain, TypeOK, Set, TaskType
    <3>2. ASSUME Apart
          PROVE  Step(t, g, s, k) /\ SeedInv(k)' /\ UseInv(k)' /\ Recorded(g, k)
      <4>1. Step(t, g, s, k)
        BY <1>1, <1>2, <1>3, <1>4, <1>5, <2>1, <2>5, <3>2 DEF Step
      <4>2. SeedInv(k)' /\ UseInv(k)'
        BY <1>4, <1>5, <2>4, <2>5, <3>2 DEF SeedInv, UseInv, Seeding, Round
      <4>3. Recorded(g, k)
        BY <1>2, <1>4, <1>5, <2>5, <3>2 DEF Recorded, Round
      <4>. QED
        BY <4>1, <4>2, <4>3
    <3>. QED
      BY <2>5, <3>1, <3>2, StepKeeps
  <2>6. CASE owner' = owner /\ Set(t, [task[t] EXCEPT !.pc = "commit", !.want = Append(@, x)])
    <3>1. PICK k : k = [c EXCEPT !.pc = "commit", !.want = w]
      OBVIOUS
    <3>2. /\ k.pc = "commit" /\ k.game = g /\ k.next = "genmove" /\ k.home = s /\ k.locked = c.locked
          /\ k.want = w /\ k \in TaskType
      BY <1>1, <1>2, <2>3, <3>1 DEF TaskType, Labels
    <3>3. Set(t, k)
      BY <1>1, <2>2, <2>6, <3>1
    <3>4. Course(k)
      BY <1>2, <3>2, SlotsAssumption DEF Course, Seeding
    <3>. QED
      BY <2>5, <2>6, <3>2, <3>3, <3>4
  <2>7. CASE /\ owner' = owner
             /\ Set(t, [task[t] EXCEPT !.pc = "finalize", !.next = "commit", !.want = Append(@, x)])
    <3>1. PICK k : k = [c EXCEPT !.pc = "finalize", !.next = "commit", !.want = w]
      OBVIOUS
    <3>2. /\ k.pc = "finalize" /\ k.game = g /\ k.next = "commit" /\ k.home = s /\ k.locked = c.locked
          /\ k.want = w /\ k \in TaskType
      BY <1>1, <1>2, <2>3, <3>1 DEF TaskType, Labels
    <3>3. Set(t, k)
      BY <1>1, <2>2, <2>7, <3>1
    <3>4. Course(k)
      BY <1>2, <3>2, SlotsAssumption DEF Course, Seeding
    <3>. QED
      BY <2>5, <2>7, <3>2, <3>3, <3>4
  <2>8. CASE owner' = OwnerWithout(g) /\ Done(t)
    <3>1. PICK k : k = NoTask
      OBVIOUS
    <3>2. /\ k \in TaskType /\ Course(k) /\ Set(t, k) /\ k.pc = "idle" /\ SeedInv(k)' /\ UseInv(k)'
      BY <2>8, <3>1, NothingUnderWay DEF Done, SeedInv, UseInv, NoTask
    <3>3. /\ owner' \in [Slots -> Games \cup {None}]
          /\ \A r \in Slots : owner'[r] \in {owner[r], None}
          /\ OwnerIsPinned => \A r \in Slots : owner'[r] # g
      BY <1>2, <2>8, Disowned
    <3>4. TypeOK'
      BY <1>2, <1>5, <2>1, <3>2, <3>3 DEF Plain, TypeOK, Set, TaskType
    <3>5. ASSUME Apart
          PROVE  Step(t, g, s, k) /\ Recorded(g, k)
      BY <1>1, <1>2, <1>3, <1>4, <1>5, <2>1, <3>2, <3>3, <3>5 DEF Step, Recorded
    <3>. QED
      BY <3>2, <3>4, <3>5, StepKeeps
  <2>. QED
    BY <1>7, <2>6, <2>7, <2>8
<1>. QED
  BY <1>1, <1>6, <1>7 DEF Genmove

LEMMA FinalizeKeeps ==
    ASSUME Inv, PinInv', NEW t \in Tasks, Finalize(t)
    PROVE  Inv'
<1>1. PICK g, c, s, k : /\ c = task[t] /\ g = c.game /\ s = c.home
                        /\ k = [c EXCEPT !.pc = IF Owns(g) THEN "commit" ELSE "reseed"]
  OBVIOUS
<1>2. /\ Plain /\ c \in TaskType /\ Course(c) /\ c.pc = "finalize" /\ g \in Games /\ Busy(t)
      /\ c.next = "commit"
  BY <1>1 DEF Inv, Plain, TypeOK, TaskType, Course, Finalize, At, Busy
<1>3. /\ k.pc = IF Owns(g) THEN "commit" ELSE "reseed"
      /\ k.game = g /\ k.next = "commit" /\ k.home = s /\ k.locked = c.locked
      /\ k.want = c.want /\ k \in TaskType /\ Set(t, k)
  BY <1>1, <1>2 DEF TaskType, Labels, Finalize, Goto, Set
<1>4. Course(k)
  BY <1>2, <1>3, SlotsAssumption DEF Course, Seeding
<1>5. UNCHANGED <<hist, phase, assigned, owner, board, failures>>
  BY DEF Finalize
<1>6. TypeOK'
  BY <1>2, <1>3, <1>5 DEF Plain, TypeOK, Set, TaskType
<1>7. ASSUME Apart
      PROVE  Step(t, g, None, k) /\ SeedInv(k)' /\ UseInv(k)' /\ Recorded(g, k)
  <2>1. /\ BoardInv /\ UseInv(c)
        /\ (g \in Games => phase[g] # "new") /\ (Concurrent => g \in Games /\ c.locked)
        /\ \A u \in Tasks \ {t} : Busy(u) => Concurrent /\ g \in Games /\ task[u].game # g
    BY <1>1, <1>2, <1>7, InFlight DEF BoardInv
  <2>2. /\ s \in Slots /\ s # None /\ assigned[g] = s /\ owner[s] \in {g, None}
        /\ owner[s] = g => board[s] = Position(g, c.want)
        /\ \A r \in Slots : owner[r] = g => r = s
    BY <1>1, <1>2, <2>1, SlotsAssumption DEF UseInv, Round, BoardInv, OwnerIsPinned
  <2>3. Owns(g) <=> owner[s] = g
    BY <2>2 DEF Owns
  <2>4. Step(t, g, None, k)
    BY <1>1, <1>2, <1>3, <1>5, <2>1 DEF Step
  <2>5. SeedInv(k)' /\ UseInv(k)'
    BY <1>3, <1>5, <2>2, <2>3 DEF SeedInv, UseInv, Seeding, Round, OwnedBy
  <2>6. Recorded(g, k)
    BY <1>2, <1>3, <1>5, <2>2, <2>3 DEF Recorded, Round
  <2>. QED
    BY <2>4, <2>5, <2>6
<1>. QED
  BY <1>3, <1>4, <1>6, <1>7, StepKeeps

LEMMA FinalizeFailsKeeps ==
    ASSUME Inv, PinInv', NEW t \in Tasks, FinalizeFails(t)
    PROVE  Inv'
<1>1. PICK g, c, s, k : c = task[t] /\ g = c.game /\ s = c.home /\ k = [c EXCEPT !.pc = "commit"]
  OBVIOUS
<1>2. /\ Plain /\ c \in TaskType /\ Course(c) /\ c.pc \in Seeding /\ g \in Games /\ Busy(t)
      /\ c.next = "commit"
  BY <1>1 DEF Inv, Plain, TypeOK, TaskType, Course, FinalizeFails, Busy, Seeding
<1>3. /\ k.pc = "commit" /\ k.game = g /\ k.next = "commit" /\ k.home = s /\ k.locked = c.locked
      /\ k.want = c.want /\ k \in TaskType /\ Set(t, k)
  BY <1>1, <1>2 DEF TaskType, Labels, FinalizeFails, Goto, Set
<1>4. Course(k)
  BY <1>2, <1>3, SlotsAssumption DEF Course, Seeding
<1>5. UNCHANGED <<hist, phase, assigned, owner, board>> /\ failures' = failures + 1
  BY DEF FinalizeFails
<1>6. TypeOK'
  BY <1>2, <1>3, <1>5 DEF Plain, TypeOK, Set, TaskType
<1>7. ASSUME Apart
      PROVE  Step(t, g, None, k) /\ SeedInv(k)' /\ UseInv(k)' /\ Recorded(g, k)
  <2>1. /\ BoardInv /\ UseInv(c) /\ SeedInv(c)
        /\ (g \in Games => phase[g] # "new") /\ (Concurrent => g \in Games /\ c.locked)
        /\ \A u \in Tasks \ {t} : Busy(u) => Concurrent /\ g \in Games /\ task[u].game # g
    BY <1>1, <1>2, <1>7, InFlight DEF BoardInv
  <2>2. /\ s \in Slots /\ s # None /\ assigned[g] = s /\ owner[s] = None /\ ~ OwnedBy(g)
    BY <1>1, <1>2, <2>1, SlotsAssumption DEF UseInv, SeedInv
  <2>3. Step(t, g, None, k)
    BY <1>1, <1>2, <1>3, <1>5, <2>1 DEF Step
  <2>4. SeedInv(k)' /\ UseInv(k)'
    BY <1>2, <1>3, <1>5, <2>2, SlotsAssumption DEF SeedInv, UseInv, Seeding, Round, OwnedBy
  <2>5. Recorded(g, k)
    BY <1>2, <1>5, <2>2 DEF Recorded, OwnedBy
  <2>. QED
    BY <2>3, <2>4, <2>5
<1>. QED
  BY <1>3, <1>4, <1>6, <1>7, StepKeeps

LEMMA CommitKeeps ==
    ASSUME Inv, PinInv', NEW t \in Tasks, Commit(t)
    PROVE  Inv'
<1>1. PICK g, c, s, k : /\ c = task[t] /\ g = c.game /\ s = c.home
                        /\ k = [c EXCEPT !.pc = IF c.next = "commit" THEN "release" ELSE "evaluate",
                                         !.slot = s]
  OBVIOUS
<1>2. /\ Plain /\ c \in TaskType /\ Course(c) /\ c.pc = "commit" /\ g \in Games /\ Busy(t)
      /\ c.next \in {"genmove", "commit"}
  BY <1>1 DEF Inv, Plain, TypeOK, TaskType, Course, Commit, At, Busy
<1>3. /\ k.pc = IF c.next = "commit" THEN "release" ELSE "evaluate"
      /\ k.game = g /\ k.next = c.next /\ k.home = s /\ k.locked = c.locked
      /\ k.slot = s /\ k.want = c.want /\ k \in TaskType /\ Set(t, k)
  BY <1>1, <1>2 DEF TaskType, Labels, Commit, Set
<1>4. Course(k)
  BY <1>2, <1>3, SlotsAssumption DEF Course, Seeding
<1>5. /\ hist' = [hist EXCEPT ![g] = c.want] /\ UNCHANGED <<assigned, owner, board, failures>>
      /\ phase' = phase \/ phase' = [phase EXCEPT ![g] = "over"]
  BY <1>1 DEF Commit
<1>6. TypeOK'
  <2>1. c.want \in Seq(Stones)
    BY <1>2 DEF TaskType
  <2>. QED
    BY <1>2, <1>3, <1>5, <2>1 DEF Plain, TypeOK, Set, TaskType
<1>7. ASSUME Apart
      PROVE  Step(t, g, None, k) /\ SeedInv(k)' /\ UseInv(k)' /\ Recorded(g, k)
  <2>1. /\ BoardInv /\ UseInv(c)
        /\ (g \in Games => phase[g] # "new") /\ (Concurrent => g \in Games /\ c.locked)
        /\ \A u \in Tasks \ {t} : Busy(u) => Concurrent /\ g \in Games /\ task[u].game # g
    BY <1>1, <1>2, <1>7, InFlight DEF BoardInv
  <2>2. /\ s \in Slots /\ s # None /\ assigned[g] = s /\ owner[s] \in {g, None}
        /\ owner[s] = g \/ c.next = "genmove" => board[s] = Position(g, c.want)
        /\ \A r \in Slots : owner[r] = g => r = s
    BY <1>1, <1>2, <2>1, SlotsAssumption DEF UseInv, Round, BoardInv, OwnerIsPinned
  <2>3. hist'[g] = c.want /\ \A h \in Games \ {g} : hist'[h] = hist[h]
    BY <1>2, <1>5 DEF Plain, TypeOK
  <2>4. (\A h \in Games : phase'[h] = "new" => phase[h] = "new") /\ phase'[g] # "new"
    BY <1>2, <1>5, <2>1 DEF Plain, TypeOK
  <2>5. Step(t, g, None, k)
    BY <1>1, <1>2, <1>3, <1>5, <2>1, <2>3, <2>4 DEF Step
  <2>6. SeedInv(k)' /\ UseInv(k)'
    BY <1>2, <1>3, <1>5, <2>2 DEF SeedInv, UseInv, Seeding, Round
  <2>7. Recorded(g, k)
    BY <1>2, <1>3, <1>5, <2>2, <2>3 DEF Recorded, Round
  <2>. QED
    BY <2>5, <2>6, <2>7
<1>. QED
  BY <1>3, <1>4, <1>6, <1>7, StepKeeps

LEMMA EvaluateKeeps ==
    ASSUME Inv, PinInv', NEW t \in Tasks, Evaluate(t)
    PROVE  Inv'
<1>1. PICK g, c, k : /\ c = task[t] /\ g = c.game
                     /\ \/ k = NoTask /\ phase' = phase
                        \/ k = [c EXCEPT !.pc = "release"] /\ phase' = [phase EXCEPT ![g] = "over"]
                     /\ Set(t, k)
  <2>1. CASE Done(t) /\ UNCHANGED phase
    BY <2>1 DEF Done
  <2>2. CASE Goto(t, "release") /\ phase' = [phase EXCEPT ![task[t].game] = "over"]
    <3>1. Set(t, [task[t] EXCEPT !.pc = "release"])
      BY <2>2 DEF Goto, Set
    <3>. QED
      BY <2>2, <3>1
  <2>. QED
    BY <2>1, <2>2 DEF Evaluate
<1>2. /\ Plain /\ c \in TaskType /\ Course(c) /\ c.pc = "evaluate" /\ g \in Games /\ Busy(t)
      /\ c.next = "genmove"
  BY <1>1 DEF Inv, Plain, TypeOK, TaskType, Course, Evaluate, At, Busy
<1>3. /\ k.pc \in {"idle", "release"} /\ k \in TaskType
      /\ k.pc = "release" => k.game = g /\ k.next = "genmove" /\ k.locked = c.locked
  BY <1>1, <1>2, NothingUnderWay DEF TaskType, Labels, NoTask
<1>4. Course(k)
  BY <1>2, <1>3, SlotsAssumption DEF Course, Seeding
<1>5. UNCHANGED <<hist, assigned, owner, board, failures>>
  BY DEF Evaluate
<1>6. TypeOK'
  BY <1>1, <1>2, <1>3, <1>5 DEF Plain, TypeOK, Set, TaskType
<1>7. ASSUME Apart
      PROVE  Step(t, g, None, k) /\ SeedInv(k)' /\ UseInv(k)' /\ Recorded(g, k)
  <2>1. /\ BoardInv
        /\ (g \in Games => phase[g] # "new") /\ (Concurrent => g \in Games /\ c.locked)
        /\ \A u \in Tasks \ {t} : Busy(u) => Concurrent /\ g \in Games /\ task[u].game # g
        /\ \A r \in Slots : owner[r] = g => g \in Games /\ assigned[g] = r /\ board[r] = Position(g, hist[g])
    BY <1>1, <1>2, <1>7, InFlight DEF Round
  <2>2. (\A h \in Games : phase'[h] = "new" => phase[h] = "new") /\ phase'[g] # "new"
    BY <1>1, <1>2, <2>1 DEF Plain, TypeOK
  <2>3. Step(t, g, None, k)
    BY <1>1, <1>2, <1>3, <1>5, <2>1, <2>2 DEF Step
  <2>4. SeedInv(k)' /\ UseInv(k)'
    BY <1>3 DEF SeedInv, UseInv, Seeding, Round
  <2>5. Recorded(g, k)
    BY <1>5, <2>1 DEF Recorded
  <2>. QED
    BY <2>3, <2>4, <2>5
<1>. QED
  BY <1>1, <1>4, <1>6, <1>7, StepKeeps

LEMMA GameReleased ==
    ASSUME Plain, NEW g \in Games, ReleaseGame(g)
    PROVE  /\ assigned' \in [Games -> Slots \cup {None}]
           /\ \A h \in Games \ {g} : assigned'[h] = assigned[h]
           /\ owner' \in [Slots -> Games \cup {None}]
           /\ \A r \in Slots : owner'[r] \in {owner[r], None}
           /\ OwnerIsPinned => \A r \in Slots : owner'[r] # g
<1>1. owner' = OwnerWithout(g) /\ assigned' = [assigned EXCEPT ![g] = None]
  BY DEF ReleaseGame
<1>2. assigned \in [Games -> Slots \cup {None}]
  BY DEF Plain, TypeOK
<1>. QED
  BY <1>1, <1>2, Disowned

LEMMA ReleaseStepKeeps ==
    ASSUME Inv, PinInv', NEW t \in Tasks, Release(t)
    PROVE  Inv'
<1>1. PICK g, c, k : c = task[t] /\ g = c.game /\ k = NoTask
  OBVIOUS
<1>2. /\ Plain /\ c \in TaskType /\ Course(c) /\ c.pc = "release" /\ g \in Games /\ Busy(t)
  BY <1>1 DEF Inv, Plain, TypeOK, TaskType, Course, Release, At, Busy
<1>3. /\ k \in TaskType /\ Course(k) /\ Set(t, k) /\ k.pc = "idle" /\ SeedInv(k)' /\ UseInv(k)'
  BY <1>1, NothingUnderWay DEF Release, Done, SeedInv, UseInv, NoTask
<1>4. ReleaseGame(g) /\ UNCHANGED <<hist, phase, board, failures>>
  BY <1>1 DEF Release
<1>5. /\ assigned' \in [Games -> Slots \cup {None}]
      /\ \A h \in Games \ {g} : assigned'[h] = assigned[h]
      /\ owner' \in [Slots -> Games \cup {None}]
      /\ \A r \in Slots : owner'[r] \in {owner[r], None}
      /\ OwnerIsPinned => \A r \in Slots : owner'[r] # g
  BY <1>2, <1>4, GameReleased
<1>6. TypeOK'
  BY <1>2, <1>3, <1>4, <1>5 DEF Plain, TypeOK, Set, TaskType
<1>7. ASSUME Apart
      PROVE  Step(t, g, None, k) /\ Recorded(g, k)
  <2>1. /\ BoardInv
        /\ \A u \in Tasks \ {t} : Busy(u) => Concurrent /\ g \in Games /\ task[u].game # g
    BY <1>1, <1>2, <1>7, InFlight
  <2>. QED
    BY <1>1, <1>2, <1>3, <1>4, <1>5, <2>1 DEF Step, Recorded, BoardInv
<1>. QED
  BY <1>3, <1>6, <1>7, StepKeeps

LEMMA ResignKeeps ==
    ASSUME Inv, PinInv', NEW t \in Tasks, NEW g \in Games, Resign(t, g)
    PROVE  Inv'
<1>1. PICK k : k = task[t]
  OBVIOUS
<1>2. /\ Plain /\ k \in TaskType /\ Course(k) /\ k.pc = "idle" /\ CanStart(t, "resign")
  BY <1>1 DEF Inv, Plain, TypeOK, TaskType, Resign, CanStart
<1>3. /\ phase' = [phase EXCEPT ![g] = "over"] /\ ReleaseGame(g)
      /\ UNCHANGED <<hist, board, task, failures>>
  BY DEF Resign
<1>4. Set(t, k)
  BY <1>1, <1>2, <1>3 DEF Set, Plain, TypeOK
<1>5. /\ assigned' \in [Games -> Slots \cup {None}]
      /\ \A h \in Games \ {g} : assigned'[h] = assigned[h]
      /\ owner' \in [Slots -> Games \cup {None}]
      /\ \A r \in Slots : owner'[r] \in {owner[r], None}
      /\ OwnerIsPinned => \A r \in Slots : owner'[r] # g
  BY <1>2, <1>3, GameReleased
<1>6. TypeOK'
  BY <1>2, <1>3, <1>5 DEF Plain, TypeOK
<1>7. ASSUME Apart
      PROVE  Step(t, g, None, k) /\ SeedInv(k)' /\ UseInv(k)' /\ Recorded(g, k)
  <2>1. /\ BoardInv /\ ~ Busy(t)
        /\ \A u \in Tasks \ {t} : Busy(u) => Concurrent /\ task[u].game # g
    BY <1>2, <1>7, Starting
  <2>2. \A h \in Games : phase'[h] = "new" => phase[h] = "new"
    BY <1>2, <1>3 DEF Plain, TypeOK
  <2>3. Step(t, g, None, k) /\ Recorded(g, k)
    BY <1>2, <1>3, <1>5, <2>1, <2>2 DEF Step, Recorded, BoardInv
  <2>4. SeedInv(k)' /\ UseInv(k)'
    BY <1>2 DEF SeedInv, UseInv, Seeding, Round
  <2>. QED
    BY <2>3, <2>4
<1>. QED
  BY <1>2, <1>4, <1>6, <1>7, StepKeeps

LEMMA StartUndoKeeps ==
    ASSUME Inv, PinInv', NEW t \in Tasks, NEW g \in Games, StartUndo(t, g)
    PROVE  Inv'
<1>1. PICK k : k = [NoTask EXCEPT !.pc = "takeback", !.game = g, !.locked = TRUE]
  OBVIOUS
<1>2. /\ Plain /\ task[t].pc = "idle" /\ phase[g] = "active" /\ CanStart(t, "undo") /\ LockFree(g)
  BY DEF Inv, StartUndo, CanStart
<1>3. /\ k.pc = "takeback" /\ k.game = g /\ k.next = "idle" /\ k.locked
      /\ k \in TaskType /\ Set(t, k)
  BY <1>1, NothingUnderWay DEF StartUndo, TaskType, NoTask, Labels
<1>4. Course(k)
  BY <1>3, SlotsAssumption DEF Course, Seeding
<1>5. owner' = NoOwners /\ UNCHANGED <<hist, phase, assigned, board, failures>>
  BY DEF StartUndo
<1>6. \A r \in Slots : owner'[r] = None
  BY <1>5 DEF NoOwners
<1>7. TypeOK'
  BY <1>2, <1>3, <1>5 DEF Plain, TypeOK, Set, TaskType, NoOwners
<1>8. ASSUME Apart
      PROVE  Step(t, g, None, k) /\ SeedInv(k)' /\ UseInv(k)' /\ Recorded(g, k)
  <2>1. /\ BoardInv /\ ~ Busy(t)
        /\ \A u \in Tasks \ {t} : Busy(u) => Concurrent /\ task[u].game # g
    BY <1>2, <1>8, Starting
  <2>2. Step(t, g, None, k)
    BY <1>2, <1>3, <1>5, <1>6, <2>1 DEF Step
  <2>3. SeedInv(k)' /\ UseInv(k)'
    BY <1>3, <1>6, SlotsAssumption DEF SeedInv, UseInv, Seeding, Round, OwnedBy
  <2>4. Recorded(g, k)
    BY <1>6, SlotsAssumption DEF Recorded
  <2>. QED
    BY <2>2, <2>3, <2>4
<1>. QED
  BY <1>3, <1>4, <1>7, <1>8, StepKeeps

LEMMA TakeBackKeeps ==
    ASSUME Inv, PinInv', NEW t \in Tasks, TakeBack(t)
    PROVE  Inv'
<1>1. PICK g, c, k : c = task[t] /\ g = c.game /\ k = NoTask
  OBVIOUS
<1>2. /\ Plain /\ c \in TaskType /\ Course(c) /\ c.pc = "takeback" /\ g \in Games /\ Busy(t)
  BY <1>1 DEF Inv, Plain, TypeOK, TaskType, Course, TakeBack, At, Busy
<1>3. /\ k \in TaskType /\ Course(k) /\ Set(t, k) /\ k.pc = "idle" /\ SeedInv(k)' /\ UseInv(k)'
  BY <1>1, NothingUnderWay DEF TakeBack, Done, SeedInv, UseInv, NoTask
<1>4. PICK n \in 1..2 :
          hist' = [hist EXCEPT ![g] = SubSeq(@, 1, IF Len(@) <= n THEN 0 ELSE Len(@) - n)]
  BY <1>1 DEF TakeBack
<1>5. PICK m : m = IF Len(hist[g]) <= n THEN 0 ELSE Len(hist[g]) - n
  OBVIOUS
<1>6. hist[g] \in Seq(Stones) /\ m \in 0..Len(hist[g])
  <2>1. hist[g] \in Seq(Stones) /\ Len(hist[g]) \in Nat
    BY <1>2, LenProperties DEF Plain, TypeOK
  <2>. QED
    BY <1>5, <2>1
<1>7. PICK w : w = SubSeq(hist[g], 1, m) /\ w \in Seq(Stones)
  <2>1. SubSeq(hist[g], 1, m) \in Seq(Stones)
    BY <1>6, SubSeqProperties
  <2>. QED
    BY <2>1, Zenon
<1>8. hist' = [hist EXCEPT ![g] = w]
  <2>1. hist' = [hist EXCEPT ![g] = SubSeq(hist[g], 1, m)]
    BY <1>4, <1>5
  <2>. QED
    BY <1>7, <2>1, Zenon
<1>9. UNCHANGED <<phase, assigned, owner, board, failures>>
  BY DEF TakeBack
<1>10. TypeOK'
  BY <1>2, <1>3, <1>7, <1>8, <1>9 DEF Plain, TypeOK, Set, TaskType
<1>11. ASSUME Apart
       PROVE  Step(t, g, None, k) /\ Recorded(g, k)
  <2>1. /\ BoardInv /\ UseInv(c) /\ phase[g] # "new"
        /\ \A u \in Tasks \ {t} : Busy(u) => Concurrent /\ g \in Games /\ task[u].game # g
    BY <1>1, <1>2, <1>11, InFlight DEF BoardInv
  <2>2. \A h \in Games \ {g} : hist'[h] = hist[h]
    BY <1>2, <1>8 DEF Plain, TypeOK
  <2>3. \A r \in Slots : owner'[r] # g
    BY <1>1, <1>2, <1>9, <2>1 DEF UseInv, OwnedBy
  <2>. QED
    BY <1>1, <1>2, <1>3, <1>9, <2>1, <2>2, <2>3 DEF Step, Recorded
<1>. QED
  BY <1>3, <1>10, <1>11, StepKeeps

(* Asking for the board of a game, whether it owns its slot or must reseed.*)
LEMMA EnsureKeeps ==
    ASSUME Inv, PinInv', NEW t \in Tasks, NEW g \in Games, NEW op, NEW locked \in BOOLEAN,
           CanStart(t, op), Ensure(t, g, locked), phase[g] \in {"active", "over"},
           \/ locked /\ LockFree(g)
           \/ op \notin {"create", "place", "undo", "hint"},
           UNCHANGED <<hist, phase, assigned, owner, board, failures>>
    PROVE  Inv'
<1>1. PICK s, k : /\ s = SlotFor(g)
                  /\ k = [NoTask EXCEPT !.pc = IF Owns(g) THEN "read" ELSE "reseed", !.game = g,
                             !.slot = s, !.home = s, !.next = "read", !.want = hist[g],
                             !.locked = locked]
  OBVIOUS
<1>2. Plain /\ task[t].pc = "idle" /\ hist[g] \in Seq(Stones)
  BY DEF Inv, CanStart, Plain, TypeOK
<1>3. s \in Slots /\ (assigned[g] # None => s = assigned[g])
  BY <1>1, <1>2, SlotForType
<1>4. /\ k.pc = IF Owns(g) THEN "read" ELSE "reseed"
      /\ k.game = g /\ k.next = "read" /\ k.slot = s /\ k.want = hist[g] /\ k.locked = locked
      /\ k \in TaskType /\ Set(t, k)
  BY <1>1, <1>2, <1>3, NothingUnderWay DEF Ensure, TaskType, NoTask, Labels
<1>5. Course(k)
  BY <1>4, SlotsAssumption DEF Course, Seeding
<1>6. TypeOK'
  BY <1>2, <1>4 DEF Plain, TypeOK, Set, TaskType
<1>7. ASSUME Apart
      PROVE  Step(t, g, None, k) /\ SeedInv(k)' /\ UseInv(k)' /\ Recorded(g, k)
  <2>1. /\ BoardInv /\ ~ Busy(t) /\ (op \notin {"create", "place", "undo", "hint"} => ~ Concurrent)
        /\ \A u \in Tasks \ {t} : Busy(u) => Concurrent /\ task[u].game # g
        /\ \A r \in Slots : owner[r] = g => assigned[g] = r /\ board[r] = Position(g, hist[g])
    BY <1>7, Starting
  <2>2. Step(t, g, None, k)
    BY <1>2, <1>4, <2>1 DEF Step
  <2>3. SeedInv(k)'
    BY <1>4, SlotsAssumption DEF SeedInv, Seeding
  <2>4. Owns(g) => assigned[g] = s /\ board[s] = Position(g, hist[g])
    BY <1>3, <2>1 DEF Owns
  <2>5. UseInv(k)'
    BY <1>3, <1>4, <2>4 DEF UseInv, Seeding, Round
  <2>6. Recorded(g, k)
    BY <2>1 DEF Recorded
  <2>. QED
    BY <2>2, <2>3, <2>5, <2>6
<1>. QED
  BY <1>4, <1>5, <1>6, <1>7, StepKeeps

LEMMA StartReviewKeeps ==
    ASSUME Inv, PinInv', NEW t \in Tasks, NEW g \in Games, StartReview(t, g)
    PROVE  Inv'
<1>1. PICK n \in 0..Len(hist[g]) :
          Set(t, [NoTask EXCEPT !.pc = "reseed", !.game = g, !.next = "review",
                                !.want = SubSeq(hist[g], 1, n)])
  BY DEF StartReview
<1>2. /\ Plain /\ task[t].pc = "idle" /\ phase[g] # "new" /\ CanStart(t, "review")
      /\ hist[g] \in Seq(Stones) /\ Len(hist[g]) \in Nat
  BY LenProperties DEF Inv, StartReview, CanStart, Plain, TypeOK
<1>3. PICK w : w = SubSeq(hist[g], 1, n) /\ w \in Seq(Stones)
  <2>1. SubSeq(hist[g], 1, n) \in Seq(Stones)
    BY <1>2, SubSeqProperties
  <2>. QED
    BY <2>1, Zenon
<1>4. PICK k : k = [NoTask EXCEPT !.pc = "reseed", !.game = g, !.next = "review", !.want = w]
  OBVIOUS
<1>5. /\ k.pc = "reseed" /\ k.game = g /\ k.next = "review" /\ k \in TaskType
  BY <1>3, <1>4, NothingUnderWay DEF TaskType, NoTask, Labels
<1>6. Set(t, k)
  BY <1>1, <1>3, <1>4, Zenon
<1>7. Course(k)
  BY <1>5, SlotsAssumption DEF Course, Seeding
<1>8. UNCHANGED <<hist, phase, assigned, owner, board, failures>>
  BY DEF StartReview
<1>9. TypeOK'
  BY <1>2, <1>5, <1>6, <1>8 DEF Plain, TypeOK, Set, TaskType
<1>10. ASSUME Apart
       PROVE  Step(t, g, None, k) /\ SeedInv(k)' /\ UseInv(k)' /\ Recorded(g, k)
  <2>1. /\ BoardInv /\ ~ Busy(t) /\ ~ Concurrent
        /\ \A u \in Tasks \ {t} : Busy(u) => Concurrent /\ task[u].game # g
        /\ \A r \in Slots : owner[r] = g => assigned[g] = r /\ board[r] = Position(g, hist[g])
    BY <1>2, <1>10, Starting
  <2>2. Step(t, g, None, k)
    BY <1>2, <1>5, <1>8, <2>1 DEF Step
  <2>3. SeedInv(k)' /\ UseInv(k)'
    BY <1>5 DEF SeedInv, UseInv, Seeding, Round
  <2>4. Recorded(g, k)
    BY <1>8, <2>1 DEF Recorded
  <2>. QED
    BY <2>2, <2>3, <2>4
<1>. QED
  BY <1>5, <1>6, <1>7, <1>9, <1>10, StepKeeps

LEMMA StartDailyKeeps ==
    ASSUME Inv, PinInv', NEW t \in Tasks, StartDaily(t)
    PROVE  Inv'
<1>1. PICK x \in Stones :
          Set(t, [NoTask EXCEPT !.pc = "wipe", !.game = Puzzle, !.slot = 0,
                                !.next = "review", !.want = <<x>>])
  BY DEF StartDaily
<1>2. PICK w : w = <<x>> /\ w \in Seq(Stones)
  BY <1>1, OneStone, Zenon
<1>3. PICK k : k = [NoTask EXCEPT !.pc = "wipe", !.game = Puzzle, !.slot = 0,
                                  !.next = "review", !.want = w]
  OBVIOUS
<1>4. Plain /\ task[t].pc = "idle" /\ CanStart(t, "daily")
  BY DEF Inv, StartDaily, CanStart
<1>5. 0 \in Slots
  BY SlotsAssumption DEF Slots
<1>6. /\ k.pc = "wipe" /\ k.game = Puzzle /\ k.slot = 0 /\ k.next = "review" /\ k.want = w
      /\ k.played = 0 /\ k \in TaskType
  BY <1>2, <1>3, <1>5, NothingUnderWay DEF TaskType, NoTask, Labels
<1>7. Set(t, k)
  BY <1>1, <1>2, <1>3, Zenon
<1>8. Course(k)
  BY <1>6 DEF Course, Seeding
<1>9. owner' = NoOwners /\ UNCHANGED <<hist, phase, assigned, board, failures>>
  BY DEF StartDaily
<1>10. \A r \in Slots : owner'[r] = None
  BY <1>9 DEF NoOwners
<1>11. TypeOK'
  BY <1>4, <1>6, <1>7, <1>9 DEF Plain, TypeOK, Set, TaskType, NoOwners
<1>12. ASSUME Apart
       PROVE  Step(t, Puzzle, None, k) /\ SeedInv(k)' /\ UseInv(k)' /\ Recorded(Puzzle, k)
  <2>1. ~ Concurrent /\ ~ Busy(t) /\ \A u \in Tasks : ~ Busy(u)
    BY <1>4, <1>12 DEF Apart, CanStart, Busy
  <2>2. Puzzle \notin Games /\ Puzzle # None
    BY SlotsAssumption
  <2>3. Step(t, Puzzle, None, k)
    BY <1>4, <1>6, <1>9, <1>10, <2>1, <2>2 DEF Step
  <2>4. SeedInv(k)' /\ UseInv(k)'
    BY <1>5, <1>6, <1>10 DEF SeedInv, UseInv, Seeding, Round
  <2>5. Recorded(Puzzle, k)
    BY <1>10, <2>2 DEF Recorded
  <2>. QED
    BY <2>3, <2>4, <2>5
<1>. QED
  BY <1>6, <1>7, <1>8, <1>11, <1>12, StepKeeps

LEMMA ReadKeeps ==
    ASSUME Inv, PinInv', NEW t \in Tasks, Read(t)
    PROVE  Inv'
<1>1. PICK g, c, k : c = task[t] /\ g = c.game /\ k = NoTask
  OBVIOUS
<1>2. /\ Plain /\ c \in TaskType /\ Course(c) /\ c.pc \in {"read", "review"}
      /\ g \in Games \cup {Puzzle} /\ (c.pc = "read" => g \in Games) /\ Busy(t)
  BY <1>1 DEF Inv, Plain, TypeOK, TaskType, Course, Read, Busy
<1>3. /\ k \in TaskType /\ Course(k) /\ Set(t, k) /\ k.pc = "idle" /\ SeedInv(k)' /\ UseInv(k)'
  BY <1>1, NothingUnderWay DEF Read, Done, SeedInv, UseInv, NoTask
<1>4. UNCHANGED <<hist, phase, owner, board, failures>>
  BY DEF Read
<1>5. /\ \A h \in Games \ {g} : assigned'[h] = assigned[h]
      /\ g \in Games /\ assigned[g] # None => assigned'[g] = assigned[g]
  <2>1. CASE c.pc = "read"
    BY <1>1, <1>2, <2>1, SlotForType DEF Read, Plain, TypeOK
  <2>2. CASE c.pc # "read"
    BY <1>1, <2>2 DEF Read
  <2>. QED
    BY <2>1, <2>2
<1>6. TypeOK'
  BY <1>2, <1>3, <1>4 DEF Plain, TypeOK, Set, TaskType, PinInv
<1>7. ASSUME Apart
      PROVE  Step(t, g, None, k) /\ Recorded(g, k)
  <2>1. /\ BoardInv
        /\ \A u \in Tasks \ {t} : Busy(u) => Concurrent /\ g \in Games /\ task[u].game # g
        /\ \A r \in Slots : owner[r] = g => g \in Games /\ assigned[g] = r /\ board[r] = Position(g, hist[g])
    BY <1>1, <1>2, <1>7, InFlight DEF Round
  <2>2. Step(t, g, None, k)
    BY <1>1, <1>2, <1>3, <1>4, <1>5, <2>1 DEF Step
  <2>3. Recorded(g, k)
    BY <1>4, <1>5, <2>1, SlotsAssumption DEF Recorded
  <2>. QED
    BY <2>2, <2>3
<1>. QED
  BY <1>3, <1>6, <1>7, StepKeeps

LEMMA FailKeeps ==
    ASSUME Inv, PinInv', NEW t \in Tasks, Fail(t)
    PROVE  Inv'
<1>1. PICK g, c, k : c = task[t] /\ g = c.game /\ k = NoTask
  OBVIOUS
<1>2. /\ Plain /\ c \in TaskType /\ Course(c) /\ Busy(t) /\ g \in Games \cup {Puzzle}
      /\ c.next # "review" => g \in Games
      /\ c.pc \in Round => c.next \in {"genmove", "commit"}
  BY <1>1 DEF Inv, Plain, TypeOK, TaskType, Course, Fail, At, Busy, Round
<1>3. /\ k \in TaskType /\ Course(k) /\ Set(t, k) /\ k.pc = "idle" /\ SeedInv(k)' /\ UseInv(k)'
  BY <1>1, NothingUnderWay DEF Fail, Done, SeedInv, UseInv, NoTask
<1>4. /\ UNCHANGED <<hist, assigned, board>> /\ failures' = failures + 1
      /\ owner' = IF c.next \in {"genmove", "commit"} THEN OwnerWithout(g) ELSE owner
      /\ phase' = IF c.next = "open" THEN [phase EXCEPT ![g] = "active"] ELSE phase
  BY <1>1 DEF Fail
<1>5. /\ owner' \in [Slots -> Games \cup {None}]
      /\ \A r \in Slots : owner'[r] \in {owner[r], None}
      /\ OwnerIsPinned /\ c.next \in {"genmove", "commit"} => \A r \in Slots : owner'[r] # g
  <2>1. CASE c.next \in {"genmove", "commit"}
    BY <1>2, <1>4, <2>1, Disowned
  <2>2. CASE c.next \notin {"genmove", "commit"}
    BY <1>2, <1>4, <2>2 DEF Plain, TypeOK
  <2>. QED
    BY <2>1, <2>2
<1>6. /\ phase' \in [Games -> {"new", "creating", "active", "over"}]
      /\ \A h \in Games : phase'[h] = "new" => phase[h] = "new"
  BY <1>2, <1>4 DEF Plain, TypeOK
<1>7. TypeOK'
  BY <1>2, <1>3, <1>4, <1>5, <1>6 DEF Plain, TypeOK, Set, TaskType
<1>8. ASSUME Apart
      PROVE  Step(t, g, None, k) /\ Recorded(g, k)
  <2>1. /\ BoardInv
        /\ \A u \in Tasks \ {t} : Busy(u) => Concurrent /\ g \in Games /\ task[u].game # g
        /\ c.pc \notin Round => \A r \in Slots : owner[r] = g =>
              g \in Games /\ assigned[g] = r /\ board[r] = Position(g, hist[g])
    BY <1>1, <1>2, <1>8, InFlight
  <2>2. Step(t, g, None, k)
    BY <1>1, <1>2, <1>3, <1>4, <1>5, <1>6, <2>1 DEF Step
  <2>3. CASE c.next \in {"genmove", "commit"}
    BY <1>5, <2>1, <2>2, <2>3 DEF Recorded, BoardInv
  <2>4. CASE c.next \notin {"genmove", "commit"}
    BY <1>2, <1>4, <2>1, <2>2, <2>4 DEF Recorded
  <2>. QED
    BY <2>3, <2>4
<1>. QED
  BY <1>3, <1>7, <1>8, StepKeeps

-----------------------------------------------------------------------------
LEMMA InitInv == Init => Inv
<1>1. SUFFICES ASSUME Init
               PROVE  Inv
  OBVIOUS
<1>2. \A t \in Tasks : task[t] = NoTask /\ Course(task[t]) /\ task[t] \in TaskType /\ ~ Busy(t)
  BY <1>1, NothingUnderWay DEF Init, Busy
<1>3. TypeOK
  <2>1. <<>> \in Seq(Stones)
    BY EmptySeq
  <2>. QED
    BY <1>1, <1>2, <2>1, SlotsAssumption DEF Init, TypeOK, TaskType, Positions, Position
<1>4. PinInv
  BY <1>1 DEF Init, PinInv, NoSharing
<1>5. \A t \in Tasks : SeedInv(task[t]) /\ UseInv(task[t])
  BY <1>2 DEF Busy, SeedInv, UseInv, Seeding, Round
<1>6. Isolated /\ NewIsEmpty /\ OwnerIsPinned /\ OwnerIsSynced
  BY <1>1, <1>2 DEF Init, Isolated, NewIsEmpty, OwnerIsPinned, OwnerIsSynced
<1>. QED
  BY <1>2, <1>3, <1>4, <1>5, <1>6 DEF Inv, Plain, BoardInv

LEMMA NextKeeps ==
    ASSUME Inv, [Next]_vars
    PROVE  Inv'
<1>1. PinInv'
  <2>1. PinInv
    BY DEF Inv, Plain
  <2>2. CASE assigned' = assigned
    BY <2>1, <2>2 DEF PinInv, NoSharing
  <2>. QED
    BY <2>1, <2>2, StepPinsOrReleases, PinKeeps, ReleaseKeeps, SlotsAssumption
<1>2. CASE UNCHANGED vars
  BY <1>2 DEF vars, Inv, Plain, TypeOK, PinInv, NoSharing, Course, Apart, BoardInv, Isolated, Busy,
              NewIsEmpty, OwnerIsPinned, OwnerIsSynced, InRound, SeedInv, UseInv, OwnedBy
<1>3. ASSUME NEW t \in Tasks, NEW g \in Games,
             \/ StartCreate(t, g) \/ StartPlace(t, g) \/ StartUndo(t, g)
             \/ StartReview(t, g) \/ Resign(t, g)
      PROVE  Inv'
  BY <1>1, <1>3, StartCreateKeeps, StartPlaceKeeps, StartUndoKeeps, StartReviewKeeps, ResignKeeps
<1>4. ASSUME NEW t \in Tasks, NEW g \in Games, StartHint(t, g)
      PROVE  Inv'
  BY <1>1, <1>4, EnsureKeeps DEF StartHint
<1>5. ASSUME NEW t \in Tasks, NEW g \in Games, StartRead(t, g)
      PROVE  Inv'
  <2>1. "read" \notin {"create", "place", "undo", "hint"} /\ FALSE \in BOOLEAN
    OBVIOUS
  <2>2. /\ CanStart(t, "read") /\ Ensure(t, g, FALSE) /\ phase[g] \in {"active", "over"}
        /\ UNCHANGED <<hist, phase, assigned, owner, board, failures>>
    BY <1>5 DEF StartRead
  <2>. QED
    BY <1>1, <2>1, <2>2, EnsureKeeps
<1>6. ASSUME NEW t \in Tasks,
             \/ StartDaily(t) \/ Open(t) \/ Reseed(t) \/ Wipe(t) \/ Replay(t) \/ Loaded(t)
             \/ Sync(t) \/ Genmove(t) \/ Finalize(t) \/ FinalizeFails(t)
      PROVE  Inv'
  BY <1>1, <1>6, StartDailyKeeps, OpenKeeps, ReseedKeeps, WipeKeeps, ReplayKeeps, LoadedKeeps,
     SyncKeeps, GenmoveKeeps, FinalizeKeeps, FinalizeFailsKeeps
<1>7. ASSUME NEW t \in Tasks,
             \/ Commit(t) \/ Evaluate(t) \/ Release(t) \/ TakeBack(t) \/ Read(t) \/ Fail(t)
      PROVE  Inv'
  BY <1>1, <1>7, CommitKeeps, EvaluateKeeps, ReleaseStepKeeps, TakeBackKeeps, ReadKeeps, FailKeeps
<1>. QED
  BY <1>2, <1>3, <1>4, <1>5, <1>6, <1>7, Zenon DEF Next

(* The invariant holds of every state the pool and the handlers reach.     *)
THEOREM InvHolds == Spec => []Inv
  BY InitInv, NextKeeps, PTL DEF Spec

(* The pool, the ownership table, the processes' boards and the handlers   *)
(* of engine_pool.py, games.py and game_service.py hold values of their    *)
(* types, whatever handlers meet.                                          *)
THEOREM SlotsType == Spec => []TypeOK
<1>1. Inv => TypeOK
  BY DEF Inv, Plain
<1>. QED
  BY <1>1, InvHolds, PTL

(* While handlers do not meet on a process, genmove is asked on the        *)
(* position the user just left (place_move, _sync_adapter).                *)
THEOREM GenmoveOnTheGame == Apart => (Spec => []GenmoveOnOwnBoard)
<1>. SUFFICES ASSUME Apart
              PROVE  Spec => []GenmoveOnOwnBoard
  OBVIOUS
<1>1. Inv => GenmoveOnOwnBoard
  BY DEF Inv, Plain, BoardInv, UseInv, Course, Round, GenmoveOnOwnBoard, At
<1>. QED
  BY <1>1, InvHolds, PTL

(* While handlers do not meet on a process, the game recorded for it is    *)
(* the one on its board, up to its last stone (set_adapter_owner).         *)
THEOREM OwnersAreSynced == Apart => (Spec => []OwnerIsSynced)
<1>. SUFFICES ASSUME Apart
              PROVE  Spec => []OwnerIsSynced
  OBVIOUS
<1>1. Inv => OwnerIsSynced
  BY DEF Inv, BoardInv
<1>. QED
  BY <1>1, InvHolds, PTL

(* While handlers do not meet on a process, every analysis is of the       *)
(* position it was asked for (ensure_slot_owner, analyze_game, the daily   *)
(* challenge).                                                             *)
THEOREM ReadersReadTheirs == Apart => (Spec => []ReadsOwnBoard)
<1>. SUFFICES ASSUME Apart
              PROVE  Spec => []ReadsOwnBoard
  OBVIOUS
<1>1. Inv => ReadsOwnBoard
  BY DEF Inv, BoardInv, UseInv, ReadsOwnBoard
<1>. QED
  BY <1>1, InvHolds, PTL
=============================================================================
