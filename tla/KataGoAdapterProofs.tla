------------------------ MODULE KataGoAdapterProofs ------------------------
(***************************************************************************)
(* core/katago/adapter.py for any number of callers, board sizes, stones,  *)
(* moves and faults: after one fault, on whatever command and at whatever  *)
(* moment of it, replies stay matched to their commands and the process    *)
(* ends up on the board its callers have been told.                        *)
(***************************************************************************)
EXTENDS KataGoAdapter, SequenceTheorems, TLAPS

-----------------------------------------------------------------------------
(* The inductive invariant.                                                *)

Inside == {"ensure", "replay", "replay_read", "write", "read", "return", "stream", "drain"}
Entry == [pc : {"idle", "wait"} \cup Inside, cmd : Commands \cup {None}, step : Nat, retry : BOOLEAN]

(* One caller is inside the lock; where it stands says what it is sending, *)
(* how far its replay has come and whether there is a process to talk to.  *)
Turn(t, c) ==
    /\ t = holder <=> c.pc \in Inside
    /\ c.pc # "idle" => c.cmd \in Commands
    /\ c.pc \notin Inside => ~ c.retry
    /\ c.pc \in Inside \ {"ensure"} => proc # None
    /\ c.pc \in {"replay", "replay_read"} => c.step \in 1..(Len(replay.plays) + 1)
    /\ c.pc \in {"write", "read"} => c.cmd.op \notin {"start", "analyze"}
    /\ c.pc \in {"stream", "drain"} => c.cmd.op = "analyze"

Turns == \A t \in Callers : Turn(t, call[t])

(* The board of a new process that has been told k commands of the script. *)
Partly(k) == IF k = 0 THEN Board(DefaultSize, {})
             ELSE Board(replay.size, {replay.plays[i] : i \in 1..(k - 1)} \ {Pass})

Quiet == proc # None => proc.out = <<>> /\ (proc.up => OnTold)
Asked(c) == proc.up /\ proc.in = <<c>> /\ proc.out = <<>> /\ proc.board = Told
Answered(c) ==
    /\ proc.in = <<>> /\ Len(proc.out) = 1
    /\ proc.out[1].to = c /\ proc.out[1].on = Told
    /\ LET r == Recorded(c, proc.out[1])
       IN proc.board = Board(r.size, Placed(r.plays)) /\ None \notin Placed(r.plays)

(* Where the process is in the exchange its caller c is in.                *)
Rebuilding(c) ==
    /\ c.pc = "replay" =>
          /\ proc.up /\ proc.in = <<>> /\ proc.out = <<>>
          /\ proc.board = Partly(c.step - 1)
    /\ c.pc = "replay_read" =>
          /\ proc.up
          /\ \/ /\ proc.in = <<Script[c.step]>> /\ proc.out = <<>>
                /\ proc.board = Partly(c.step - 1)
             \/ /\ proc.in = <<>> /\ Len(proc.out) = 1
                /\ proc.board = Partly(c.step)

Exchanging(c) ==
    c.pc \in {"read", "drain"} =>
        (~proc.up /\ proc.out = <<>>) \/ Asked(c.cmd) \/ Answered(c.cmd)

(* A process is only ever missing, dead or half rebuilt, and a command     *)
(* only ever tried again, because of a fault not yet made up for.          *)
Fits(c) ==
    /\ c.pc \in {"replay", "replay_read"} \/ c.retry => faults >= 1
    /\ c.pc \in {"ensure", "write", "return", "stream"} => Quiet
    /\ Rebuilding(c) /\ Exchanging(c)

InStep ==
    /\ ~ Working => faults >= 1
    /\ holder = None => Quiet
    /\ \A t \in Callers : t = holder => Fits(call[t])

Inv == TypeOK /\ Turns /\ (OneAtATime => InStep)

-----------------------------------------------------------------------------
(* Commands, the script and the record.                                    *)

LEMMA CommandKinds ==
    ASSUME NEW c \in Commands
    PROVE  /\ c \in Written
           /\ c.op \in {"start", "clear_board", "boardsize", "play", "genmove", "analyze"}
           /\ c.op = "boardsize" => c.arg \in Sizes
           /\ c.op = "play" => c.arg \in Stones \cup {Pass}
  BY DEF Commands, Command, Written

LEMMA WrittenKinds ==
    ASSUME NEW c \in Written
    PROVE  /\ c.op = "boardsize" => c.arg \in Sizes
           /\ c.op = "play" => c.arg \in Stones \cup {Pass, None}
  BY DEF Commands, Command, Written

Plays == Seq(Stones \cup {Pass, None})

LEMMA OneThen ==
    ASSUME NEW S, NEW a \in S, NEW m \in Seq(S)
    PROVE  /\ Len(<<a>> \o m) = Len(m) + 1 /\ (<<a>> \o m)[1] = a
           /\ \A n \in 2..(Len(m) + 1) : (<<a>> \o m)[n] = m[n - 1]
<1>1. <<a>> \in Seq(S) /\ Len(<<a>>) = 1 /\ Len(m) \in Nat
  OBVIOUS
<1>2. Len(<<a>> \o m) = Len(m) + 1
  BY <1>1
<1>3. (<<a>> \o m)[1] = a
  BY <1>1
<1>4. ASSUME NEW n \in 2..(Len(m) + 1)
      PROVE  (<<a>> \o m)[n] = m[n - 1]
  BY <1>1
<1>. QED
  BY <1>2, <1>3, <1>4

(* The script sets the size and plays the record, a command for each move. *)
LEMMA ScriptIs ==
    ASSUME replay \in [size : Sizes, plays : Plays]
    PROVE  /\ Len(Script) = Len(replay.plays) + 1
           /\ Script[1] = Command("boardsize", replay.size)
           /\ \A n \in 2..(Len(replay.plays) + 1) : Script[n] = Command("play", replay.plays[n - 1])
           /\ \A n \in 1..(Len(replay.plays) + 1) : Script[n] \in Written
<1>. DEFINE N == Len(replay.plays)
            moves == [i \in 1..N |-> Command("play", replay.plays[i])]
            first == Command("boardsize", replay.size)
<1>1. N \in Nat /\ \A i \in 1..N : replay.plays[i] \in Stones \cup {Pass, None}
  BY DEF Plays
<1>2. \A x \in Stones \cup {Pass, None} : Command("play", x) \in Written
  BY DEF Written, Commands
<1>3. first \in Written
  BY DEF Written, Commands
<1>4. moves \in Seq(Written) /\ Len(moves) = N
  BY <1>1, <1>2
<1>5. \A n \in 2..(N + 1) : n - 1 \in 1..N
  BY <1>1
<1>6. Script = <<first>> \o moves
  BY DEF Script
<1>7. /\ Len(Script) = N + 1 /\ Script[1] = first
      /\ \A n \in 2..(N + 1) : Script[n] = moves[n - 1]
  <2>. HIDE DEF moves, first, N
  <2>. QED
    BY <1>3, <1>4, <1>6, OneThen
<1>8. \A n \in 2..(N + 1) : Script[n] = Command("play", replay.plays[n - 1])
  BY <1>5, <1>7
<1>9. ASSUME NEW n \in 1..(N + 1)
      PROVE  Script[n] \in Written
  <2>1. n = 1 \/ n \in 2..(N + 1)
    BY <1>1
  <2>. QED
    BY <1>1, <1>2, <1>3, <1>5, <1>7, <1>8, <2>1
<1>. QED
  BY <1>7, <1>8, <1>9

LEMMA PlacedAppend ==
    ASSUME NEW plays \in Plays, NEW x \in Stones \cup {Pass, None}
    PROVE  /\ Append(plays, x) \in Plays
           /\ Placed(Append(plays, x)) = (Placed(plays) \cup {x}) \ {Pass}
<1>. DEFINE q == Append(plays, x)
<1>1. /\ q \in Plays /\ Len(q) = Len(plays) + 1 /\ q[Len(plays) + 1] = x
      /\ \A i \in 1..Len(plays) : q[i] = plays[i]
  BY DEF Plays
<1>2. 1..Len(q) = 1..Len(plays) \cup {Len(plays) + 1}
  BY <1>1 DEF Plays
<1>. QED
  <2>. HIDE DEF q
  <2>1. {q[i] : i \in 1..Len(q)} = {plays[i] : i \in 1..Len(plays)} \cup {x}
    BY <1>1, <1>2
  <2>. QED
    BY <1>1, <2>1 DEF Placed, q

(* A new process told the whole script is on the callers' board, and a     *)
(* command more of it brings it a command nearer.                          *)
LEMMA PartlyIs ==
    ASSUME replay \in [size : Sizes, plays : Plays], None \notin Placed(replay.plays)
    PROVE  /\ Partly(0) = Board(DefaultSize, {})
           /\ Partly(1) = Board(replay.size, {})
           /\ Partly(Len(replay.plays) + 1) = Told
           /\ \A n \in 1..Len(replay.plays) :
                 /\ replay.plays[n] \in Stones \cup {Pass}
                 /\ Partly(n).size = replay.size
                 /\ Partly(n + 1) = Board(replay.size, (Partly(n).stones \cup {replay.plays[n]}) \ {Pass})
<1>. DEFINE p == replay.plays
            Until(n) == {p[i] : i \in 1..n}
<1>1. Len(p) \in Nat /\ p \in Plays
  BY DEF Plays
<1>2. Partly(1) = Board(replay.size, {})
  <2>1. Until(1 - 1) = {}
    OBVIOUS
  <2>. QED
    BY <2>1 DEF Partly
<1>3. Partly(Len(p) + 1) = Told
  <2>1. (Len(p) + 1) - 1 = Len(p) /\ Len(p) + 1 # 0
    BY <1>1
  <2>. QED
    BY <2>1 DEF Partly, Told, Placed
<1>4. ASSUME NEW n \in 1..Len(p)
      PROVE  /\ p[n] \in Stones \cup {Pass}
             /\ Partly(n).size = replay.size
             /\ Partly(n + 1) = Board(replay.size, (Partly(n).stones \cup {p[n]}) \ {Pass})
  <2>1. p[n] \in Stones \cup {Pass}
    BY <1>1, AdapterAssumption DEF Plays, Placed
  <2>2. n # 0 /\ n + 1 # 0 /\ (n + 1) - 1 = n
    BY <1>1
  <2>3. 1..n = 1..(n - 1) \cup {n}
    BY <1>1
  <2>4. Until(n) = Until(n - 1) \cup {p[n]}
    BY <2>3
  <2>5. Partly(n) = Board(replay.size, Until(n - 1) \ {Pass})
        /\ Partly(n + 1) = Board(replay.size, Until(n) \ {Pass})
    BY <2>2 DEF Partly
  <2>. HIDE DEF Until
  <2>6. Partly(n).size = replay.size /\ Partly(n).stones = Until(n - 1) \ {Pass}
    BY <2>5 DEF Board
  <2>7. Until(n) \ {Pass} = ((Until(n - 1) \ {Pass}) \cup {p[n]}) \ {Pass}
    BY <2>4
  <2>. QED
    BY <2>1, <2>5, <2>6, <2>7
<1>. QED
  BY <1>2, <1>3, <1>4 DEF Partly

LEMMA AfterReplayIs ==
    ASSUME NEW t \in Callers, call[t].cmd \in Commands
    PROVE  /\ AfterReplay(t) \in {"return", "stream", "write"}
           /\ AfterReplay(t) = "write" => call[t].cmd.op \notin {"start", "analyze"}
           /\ AfterReplay(t) = "stream" => call[t].cmd.op = "analyze"
  BY DEF AfterReplay

-----------------------------------------------------------------------------
(* A caller inside the lock moves on; the others wait.                     *)

ProcOK == proc \in {None} \cup Processes
RestOK ==
    /\ replay \in [size : Sizes, plays : Plays]
    /\ OneAtATime => None \notin Placed(replay.plays)
    /\ faults \in 0..MaxFaults

LEMMA TypeParts ==
    TypeOK <=> /\ holder \in Callers \cup {None} /\ call \in [Callers -> Entry]
               /\ ProcOK /\ RestOK
<1>1. {"idle", "wait"} \cup Inside =
          {"idle", "wait", "ensure", "replay", "replay_read", "write", "read",
           "return", "stream", "drain"}
  BY DEF Inside
<1>. QED
  BY <1>1 DEF TypeOK, ProcOK, RestOK, Entry, Plays

LEMMA TypePartsNext ==
    TypeOK' <=> /\ holder' \in Callers \cup {None} /\ call' \in [Callers -> Entry]
                /\ ProcOK' /\ RestOK'
<1>1. {"idle", "wait"} \cup Inside =
          {"idle", "wait", "ensure", "replay", "replay_read", "write", "read",
           "return", "stream", "drain"}
  BY DEF Inside
<1>. QED
  BY <1>1 DEF TypeOK, ProcOK, RestOK, Entry, Plays, OneAtATime

LEMMA SameScript ==
    ASSUME replay' = replay
    PROVE  /\ Told' = Told /\ Script' = Script
           /\ \A k : Partly(k)' = Partly(k)
           /\ \A c, r : Recorded(c, r)' = Recorded(c, r)
  BY DEF Told, Script, Partly, Recorded

LEMMA Turnover ==
    ASSUME Inv, NEW t \in Callers, holder \in {t, None}, holder' \in {t, None},
           NEW r \in Entry, Set(t, r), Turn(t, r)'
    PROVE  /\ holder' \in Callers \cup {None} /\ call' \in [Callers -> Entry]
           /\ call'[t] = r /\ Turns'
<1>1. call \in [Callers -> Entry]
  BY TypeParts DEF Inv
<1>2. call' \in [Callers -> Entry] /\ call'[t] = r /\ \A u \in Callers \ {t} : call'[u] = call[u]
  BY <1>1 DEF Set
<1>3. ASSUME NEW u \in Callers, u # t
      PROVE  Turn(u, call[u])'
  <2>1. u # holder /\ u # holder'
    BY <1>3, AdapterAssumption
  <2>2. Turn(u, call[u]) /\ call[u].pc \notin Inside
    BY <2>1 DEF Inv, Turns, Turn
  <2>. QED
    BY <1>2, <1>3, <2>1, <2>2 DEF Turn, Inside
<1>. QED
  BY <1>2, <1>3 DEF Turns

LEMMA Finishes ==
    ASSUME Inv, NEW t \in Callers, holder = t, Finish(t)
    PROVE  /\ holder' = None /\ call' \in [Callers -> Entry] /\ Turns'
<1>1. Resting \in Entry /\ Resting.pc = "idle" /\ ~ Resting.retry
  BY DEF Resting, Entry
<1>2. Turn(t, Resting)'
  BY <1>1, AdapterAssumption DEF Turn, Finish, Inside
<1>. QED
  BY <1>1, <1>2, Turnover DEF Finish

LEMMA Goes ==
    ASSUME Inv, NEW t \in Callers, holder = t, holder' = t,
           NEW c \in Entry, call[t] = c, NEW l \in Inside, Goto(t, l),
           Turn(t, [c EXCEPT !.pc = l])'
    PROVE  /\ holder' \in Callers /\ call' \in [Callers -> Entry] /\ Turns'
           /\ call'[t] = [c EXCEPT !.pc = l]
<1>1. call \in [Callers -> Entry]
  BY TypeParts DEF Inv
<1>2. [c EXCEPT !.pc = l] \in Entry
  BY DEF Entry
<1>3. Set(t, [c EXCEPT !.pc = l])
  BY <1>1 DEF Set, Goto
<1>. QED
  BY <1>2, <1>3, Turnover

(* Who is where, for the steps of a caller t inside the lock.              *)
LEMMA Holding ==
    ASSUME Inv, NEW t \in Callers, call[t].pc \in Inside
    PROVE  /\ holder = t /\ t # None /\ call[t] \in Entry /\ Turn(t, call[t])
           /\ OneAtATime => Fits(call[t])
  BY TypeParts, AdapterAssumption DEF Inv, InStep, Turns, Turn

(* What is said of an exchange only depends on the record, the process and *)
(* the faults.                                                             *)
LEMMA SameExchange ==
    ASSUME UNCHANGED <<replay, proc, faults>>
    PROVE  /\ Working' = Working /\ Quiet' = Quiet /\ Told' = Told
           /\ \A c : Fits(c)' <=> Fits(c)
<1>1. Working' = Working /\ Told' = Told
  BY DEF Working, Told
<1>2. Quiet' = Quiet
  BY <1>1 DEF Quiet, OnTold
<1>3. ASSUME NEW c
      PROVE  Fits(c)' <=> Fits(c)
  <2>1. /\ Partly(c.step)' = Partly(c.step) /\ Partly(c.step - 1)' = Partly(c.step - 1)
        /\ Script' = Script
    BY DEF Partly, Script
  <2>2. Rebuilding(c)' <=> Rebuilding(c)
    BY <2>1 DEF Rebuilding
  <2>3. Asked(c.cmd)' <=> Asked(c.cmd)
    BY <1>1 DEF Asked
  <2>4. Recorded(c.cmd, proc.out[1])' = Recorded(c.cmd, proc.out[1])
    BY DEF Recorded
  <2>5. Answered(c.cmd)' <=> Answered(c.cmd)
    BY <1>1, <2>4 DEF Answered
  <2>6. Exchanging(c)' <=> Exchanging(c)
    BY <2>3, <2>5 DEF Exchanging
  <2>. QED
    BY <1>2, <2>2, <2>6 DEF Fits
<1>. QED
  BY <1>1, <1>2, <1>3

-----------------------------------------------------------------------------
(* Each step keeps the invariant.                                          *)

LEMMA CallKeeps ==
    ASSUME Inv, NEW t \in Callers, Call(t)
    PROVE  Inv'
<1>1. PICK c \in Commands : call' = [call EXCEPT ![t] = [Resting EXCEPT !.pc = "wait", !.cmd = c]]
  BY DEF Call, Set
<1>. DEFINE r == [Resting EXCEPT !.pc = "wait", !.cmd = c]
<1>2. r \in Entry /\ r.pc = "wait" /\ r.cmd = c /\ ~ r.retry
  BY DEF Resting, Entry
<1>3. call \in [Callers -> Entry]
  BY TypeParts DEF Inv
<1>. HIDE DEF r
<1>4. call' \in [Callers -> Entry] /\ call'[t] = r /\ \A u \in Callers \ {t} : call'[u] = call[u]
  BY <1>1, <1>2, <1>3 DEF r
<1>5. t # holder
  BY DEF Inv, Turns, Turn, Call, At, Inside
<1>6. TypeOK'
  BY <1>4, TypeParts DEF Inv, TypeOK, Call, Boards, Told, Entry, Inside, OneAtATime
<1>7. Turns'
  <2>1. Turn(t, r)'
    BY <1>2, <1>5 DEF Turn, Inside, Call
  <2>2. ASSUME NEW u \in Callers, u # t
        PROVE  Turn(u, call[u])'
    BY <1>4, <2>2 DEF Inv, Turns, Turn, Call
  <2>. QED
    BY <1>4, <2>1, <2>2 DEF Turns, Turn
<1>8. (OneAtATime => InStep)'
  <2>1. UNCHANGED <<replay, proc, faults>> /\ holder' = holder
    BY DEF Call
  <2>2. \A u \in Callers : u = holder => call'[u] = call[u]
    BY <1>4, <1>5
  <2>3. \A u \in Callers : Fits(call[u])' <=> Fits(call'[u])
    BY <2>1, SameExchange
  <2>. QED
    BY <2>1, <2>2, <2>3, SameExchange DEF Inv, InStep, OneAtATime
<1>. QED
  BY <1>6, <1>7, <1>8 DEF Inv

LEMMA AcquireKeeps ==
    ASSUME Inv, NEW t \in Callers, Acquire(t)
    PROVE  Inv'
<1>1. PICK c \in Entry : c = call[t]
  BY TypeParts DEF Inv
<1>. DEFINE r == [c EXCEPT !.pc = "ensure"]
<1>2. c.pc = "wait" /\ c.cmd \in Commands /\ ~ c.retry
  BY <1>1 DEF Inv, Turns, Turn, Acquire, At, Inside
<1>3. r \in Entry /\ r.pc = "ensure" /\ r.cmd = c.cmd /\ r.retry = c.retry
  BY DEF Entry, Inside
<1>4. Set(t, r)
  BY <1>1, TypeParts DEF Inv, Acquire, Set, Goto
<1>. HIDE DEF r
<1>5. Turn(t, r)'
  BY <1>2, <1>3 DEF Turn, Inside, Acquire
<1>6. /\ holder' \in Callers \cup {None} /\ call' \in [Callers -> Entry]
      /\ call'[t] = r /\ Turns'
  BY <1>3, <1>4, <1>5, Turnover DEF Acquire
<1>7. TypeOK'
  BY <1>6, TypeParts DEF Inv, TypeOK, Acquire, Boards, Told, Entry, Inside, OneAtATime
<1>8. (OneAtATime => InStep)'
  <2>1. UNCHANGED <<replay, proc, faults>> /\ holder' = t /\ holder = None /\ t # None
    BY AdapterAssumption DEF Acquire
  <2>2. OneAtATime => Fits(r)
    BY <1>2, <1>3, <2>1 DEF Inv, InStep, Fits, Rebuilding, Exchanging
  <2>3. Fits(r)' <=> Fits(r)
    BY <2>1, SameExchange
  <2>. QED
    BY <1>6, <2>1, <2>2, <2>3, SameExchange DEF Inv, InStep, OneAtATime, Fits
<1>. QED
  BY <1>6, <1>7, <1>8 DEF Inv

(* A step of the holder that stays inside the lock keeps the invariant     *)
(* when where it goes fits.                                                *)
LEMMA StaysInside ==
    ASSUME Inv, NEW t \in Callers, holder = t, holder' = t, NEW r \in Entry, call'[t] = r,
           call' \in [Callers -> Entry], Turns', ProcOK', RestOK',
           OneAtATime' => (~ Working => faults >= 1)' /\ Fits(r)'
    PROVE  Inv'
<1>1. TypeOK'
  BY TypePartsNext
<1>2. (OneAtATime => InStep)'
  BY AdapterAssumption DEF InStep, Fits
<1>. QED
  BY <1>1, <1>2 DEF Inv

(* One that leaves it does when the process is on the callers' board.      *)
LEMMA LeavesLock ==
    ASSUME Inv, NEW t \in Callers, holder = t, Finish(t), ProcOK', RestOK',
           OneAtATime' => (~ Working => faults >= 1)' /\ Quiet'
    PROVE  Inv'
<1>1. holder' = None /\ call' \in [Callers -> Entry] /\ Turns'
  BY Finishes
<1>2. TypeOK'
  BY <1>1, TypePartsNext
<1>3. (OneAtATime => InStep)'
  BY <1>1, AdapterAssumption DEF InStep
<1>. QED
  BY <1>1, <1>2, <1>3 DEF Inv

LEMMA EnsureAliveKeeps ==
    ASSUME Inv, NEW t \in Callers, EnsureAlive(t)
    PROVE  Inv'
<1>1. call[t].pc = "ensure" /\ call[t].pc \in Inside
  BY DEF EnsureAlive, At, Inside
<1>2. PICK c \in Entry : c = call[t]
  BY TypeParts DEF Inv
<1>3. /\ holder = t /\ holder' = t /\ c.cmd \in Commands /\ c.pc = "ensure"
      /\ OneAtATime => Fits(c) /\ (~ Working => faults >= 1)
  BY <1>1, <1>2, Holding DEF EnsureAlive, Turn, Inv, InStep
<1>4. UNCHANGED <<replay, faults>> /\ RestOK' /\ (OneAtATime' <=> OneAtATime)
  BY TypeParts DEF Inv, EnsureAlive, RestOK, OneAtATime
<1>5. CASE proc # None /\ Goto(t, AfterReplay(t)) /\ UNCHANGED proc
  <2>1. PICK l \in {"return", "stream", "write"} : l = AfterReplay(t)
    BY <1>2, <1>3, AfterReplayIs
  <2>2. /\ l = "write" => c.cmd.op \notin {"start", "analyze"}
        /\ l = "stream" => c.cmd.op = "analyze"
    BY <1>2, <1>3, <2>1, AfterReplayIs
  <2>. DEFINE r == [c EXCEPT !.pc = l]
  <2>3. r \in Entry /\ r.pc = l /\ r.cmd = c.cmd /\ r.retry = c.retry /\ l \in Inside
    BY DEF Entry, Inside
  <2>4. Turn(t, r)'
    BY <1>3, <1>5, <2>1, <2>2, <2>3 DEF Turn, Inside
  <2>5. call' \in [Callers -> Entry] /\ Turns' /\ call'[t] = r
    BY <1>2, <1>3, <1>5, <2>1, <2>3, <2>4, Goes
  <2>6. ProcOK'
    BY <1>5, TypeParts DEF Inv, ProcOK
  <2>. HIDE DEF r
  <2>7. OneAtATime => Fits(r)
    BY <1>3, <2>3 DEF Fits, Rebuilding, Exchanging
  <2>8. (Fits(r)' <=> Fits(r)) /\ Working' = Working
    BY <1>4, <1>5, SameExchange
  <2>. QED
    BY <1>3, <1>4, <2>3, <2>5, <2>6, <2>7, <2>8, StaysInside
<1>6. CASE ~ Working /\ proc' = Fresh /\ Set(t, [call[t] EXCEPT !.pc = "replay", !.step = 1])
  <2>. DEFINE r == [c EXCEPT !.pc = "replay", !.step = 1]
  <2>1. r \in Entry /\ r.pc = "replay" /\ r.step = 1 /\ r.cmd = c.cmd /\ r.retry = c.retry
    BY DEF Entry, Inside
  <2>2. Set(t, r)
    BY <1>2, <1>6
  <2>. HIDE DEF r
  <2>3. Len(replay.plays) \in Nat
    BY <1>4 DEF RestOK, Plays
  <2>4. /\ proc'.up /\ proc'.in = <<>> /\ proc'.out = <<>>
        /\ proc'.board = Board(DefaultSize, {})
    BY <1>6 DEF Fresh
  <2>5. ProcOK' /\ Working' /\ proc' # None
    <3>1. Board(DefaultSize, {}) \in Boards
      BY AdapterAssumption DEF Board, Boards
    <3>2. proc' \in Processes
      BY <1>6, <3>1 DEF Fresh, Processes
    <3>3. proc' # None
      BY <3>2, AdapterAssumption
    <3>. QED
      BY <2>4, <3>2, <3>3 DEF ProcOK, Working
  <2>6. Turn(t, r)'
    BY <1>3, <1>4, <2>1, <2>3, <2>5 DEF Turn, Inside
  <2>7. call' \in [Callers -> Entry] /\ Turns' /\ call'[t] = r
    BY <1>3, <2>1, <2>2, <2>6, Turnover
  <2>8. Partly(0)' = Board(DefaultSize, {})
    BY DEF Partly
  <2>9. OneAtATime' => Fits(r)'
    BY <1>3, <1>4, <1>6, <2>1, <2>4, <2>8 DEF Fits, Rebuilding, Exchanging
  <2>. QED
    BY <1>3, <1>4, <2>1, <2>5, <2>7, <2>9, StaysInside
<1>. QED
  BY <1>5, <1>6 DEF EnsureAlive

(* What writing to the process and reading from it do to its pipes.        *)
LEMMA WriteIs ==
    ASSUME proc \in Processes, NEW x \in Written, proc' = Write(x)
    PROVE  /\ proc' \in Processes /\ proc' # None /\ ProcOK' /\ Working' = Working
           /\ proc'.up = proc.up /\ proc'.board = proc.board /\ proc'.out = proc.out
           /\ ~ proc.up => proc' = proc
           /\ proc.up /\ proc.in = <<>> => proc'.in = <<x>>
<1>1. proc' \in Processes
  <2>1. proc.in \in Seq(Written) /\ Append(proc.in, x) \in Seq(Written)
    BY DEF Processes
  <2>. QED
    BY <2>1 DEF Write, Processes
<1>2. proc' # None /\ proc # None
  BY <1>1, AdapterAssumption
<1>3. /\ proc'.up = proc.up /\ proc'.board = proc.board /\ proc'.out = proc.out
      /\ ~ proc.up => proc' = proc
      /\ proc'.in = IF proc.up THEN Append(proc.in, x) ELSE proc.in
  BY DEF Write, Processes
<1>4. Append(<<>>, x) = <<x>>
  OBVIOUS
<1>. QED
  BY <1>1, <1>2, <1>3, <1>4 DEF ProcOK, Working

LEMMA ReadIs ==
    ASSUME proc \in Processes, proc.out # <<>>, proc' = [proc EXCEPT !.out = Tail(@)]
    PROVE  /\ proc' \in Processes /\ proc' # None /\ ProcOK' /\ Working' = Working
           /\ proc'.up = proc.up /\ proc'.board = proc.board /\ proc'.in = proc.in
           /\ Len(proc.out) = 1 => proc'.out = <<>>
<1>1. proc.out \in Seq(Replies) /\ Tail(proc.out) \in Seq(Replies)
  BY DEF Processes
<1>2. proc' \in Processes
  BY <1>1 DEF Processes
<1>3. proc' # None /\ proc # None
  BY <1>2, AdapterAssumption
<1>4. /\ proc'.up = proc.up /\ proc'.board = proc.board /\ proc'.in = proc.in
      /\ proc'.out = Tail(proc.out)
  BY DEF Processes
<1>5. Len(proc.out) = 1 => Tail(proc.out) = <<>>
  <2>1. SUFFICES ASSUME Len(proc.out) = 1
                 PROVE  Tail(proc.out) = <<>>
    OBVIOUS
  <2>2. Len(Tail(proc.out)) = 0
    BY <1>1, <2>1, HeadTailProperties
  <2>. QED
    BY <1>1, <2>2, EmptySeq
<1>. QED
  BY <1>2, <1>3, <1>4, <1>5 DEF ProcOK, Working

LEMMA ReplayWriteKeeps ==
    ASSUME Inv, NEW t \in Callers, ReplayWrite(t)
    PROVE  Inv'
<1>1. call[t].pc = "replay" /\ call[t].pc \in Inside
  BY DEF ReplayWrite, At, Inside
<1>2. PICK c \in Entry : c = call[t]
  BY TypeParts DEF Inv
<1>3. /\ holder = t /\ c.cmd \in Commands /\ c.pc = "replay" /\ proc # None
      /\ OneAtATime => Fits(c) /\ (~ Working => faults >= 1)
  BY <1>1, <1>2, Holding DEF Turn, Inv, InStep
<1>4. proc \in Processes /\ replay \in [size : Sizes, plays : Plays] /\ Len(replay.plays) \in Nat
  BY <1>3, TypeParts DEF Inv, ProcOK, RestOK, Plays
<1>5. UNCHANGED <<replay, faults>> /\ RestOK' /\ (OneAtATime' <=> OneAtATime)
  BY TypeParts DEF Inv, ReplayWrite, RestOK, OneAtATime
<1>6. c.step \in 1..(Len(replay.plays) + 1) /\ Script[c.step] \in Written
  BY <1>1, <1>2, <1>4, Holding, ScriptIs DEF Turn
<1>7. /\ proc' \in Processes /\ proc' # None /\ ProcOK' /\ Working' = Working
      /\ proc'.up = proc.up /\ proc'.board = proc.board /\ proc'.out = proc.out
      /\ proc.up /\ proc.in = <<>> => proc'.in = <<Script[c.step]>>
  BY <1>2, <1>4, <1>6, WriteIs DEF ReplayWrite
<1>. DEFINE r == [c EXCEPT !.pc = "replay_read"]
<1>8. r \in Entry /\ r.pc = "replay_read" /\ r.step = c.step /\ r.cmd = c.cmd /\ r.retry = c.retry
  BY DEF Entry, Inside
<1>9. Turn(t, r)' /\ holder' = t
  BY <1>3, <1>5, <1>6, <1>7, <1>8 DEF Turn, Inside, ReplayWrite
<1>10. call' \in [Callers -> Entry] /\ Turns' /\ call'[t] = r
  BY <1>2, <1>3, <1>9, Goes DEF ReplayWrite, Inside
<1>. HIDE DEF r
<1>11. OneAtATime => Fits(r)'
  <2>1. OneAtATime => proc.up /\ proc.in = <<>> /\ proc.out = <<>> /\ proc.board = Partly(c.step - 1)
                      /\ faults >= 1
    BY <1>3 DEF Fits, Rebuilding
  <2>2. Script' = Script /\ Partly(c.step - 1)' = Partly(c.step - 1)
    BY <1>5, SameScript
  <2>. QED
    BY <1>5, <1>7, <1>8, <2>1, <2>2 DEF Fits, Rebuilding, Exchanging
<1>. QED
  BY <1>3, <1>5, <1>7, <1>8, <1>9, <1>10, <1>11, StaysInside

LEMMA ReplayReadKeeps ==
    ASSUME Inv, NEW t \in Callers, ReplayRead(t)
    PROVE  Inv'
<1>1. call[t].pc = "replay_read" /\ call[t].pc \in Inside
  BY DEF ReplayRead, At, Inside
<1>2. PICK c \in Entry : c = call[t]
  BY TypeParts DEF Inv
<1>3. /\ holder = t /\ c.cmd \in Commands /\ c.pc = "replay_read" /\ proc # None
      /\ OneAtATime => Fits(c) /\ (~ Working => faults >= 1)
  BY <1>1, <1>2, Holding DEF Turn, Inv, InStep
<1>4. proc \in Processes /\ replay \in [size : Sizes, plays : Plays] /\ Len(replay.plays) \in Nat
  BY <1>3, TypeParts DEF Inv, ProcOK, RestOK, Plays
<1>5. UNCHANGED <<replay, faults>> /\ RestOK' /\ (OneAtATime' <=> OneAtATime)
  BY TypeParts DEF Inv, ReplayRead, RestOK, OneAtATime
<1>6. c.step \in 1..(Len(replay.plays) + 1) /\ Len(Script) = Len(replay.plays) + 1
  BY <1>1, <1>2, <1>4, Holding, ScriptIs DEF Turn
<1>7. /\ proc' \in Processes /\ proc' # None /\ ProcOK' /\ Working' = Working
      /\ proc'.up = proc.up /\ proc'.board = proc.board /\ proc'.in = proc.in
      /\ Len(proc.out) = 1 => proc'.out = <<>>
  BY <1>4, ReadIs DEF ReplayRead
<1>8. OneAtATime => /\ faults >= 1 /\ proc.up /\ proc.in = <<>> /\ Len(proc.out) = 1
                    /\ proc.board = Partly(c.step)
  BY <1>3 DEF Fits, Rebuilding, ReplayRead
<1>9. holder' = t
  BY <1>3 DEF ReplayRead
<1>10. CASE c.step < Len(Script)
  <2>. DEFINE n == c.step + 1
              r == [c EXCEPT !.pc = "replay", !.step = n]
  <2>1. n \in Nat /\ n \in 1..(Len(replay.plays) + 1) /\ n - 1 = c.step
    BY <1>4, <1>6, <1>10
  <2>. HIDE DEF n
  <2>2. r \in Entry /\ r.pc = "replay" /\ r.step = n /\ r.cmd = c.cmd /\ r.retry = c.retry
    BY <2>1 DEF Entry, Inside
  <2>3. Set(t, r)
    BY <1>2, <1>10 DEF ReplayRead, n
  <2>. HIDE DEF r
  <2>4. Turn(t, r)'
    BY <1>3, <1>5, <1>7, <1>9, <2>1, <2>2 DEF Turn, Inside
  <2>5. call' \in [Callers -> Entry] /\ Turns' /\ call'[t] = r
    BY <1>3, <1>9, <2>2, <2>3, <2>4, Turnover
  <2>6. Partly(c.step)' = Partly(c.step)
    BY <1>5, SameScript
  <2>7. OneAtATime => Fits(r)'
    BY <1>5, <1>7, <1>8, <2>1, <2>2, <2>6 DEF Fits, Rebuilding, Exchanging
  <2>. QED
    BY <1>3, <1>5, <1>7, <1>9, <2>2, <2>5, <2>7, StaysInside
<1>11. CASE ~ (c.step < Len(Script))
  <2>1. PICK l \in {"return", "stream", "write"} : l = AfterReplay(t)
    BY <1>2, <1>3, AfterReplayIs
  <2>2. /\ l = "write" => c.cmd.op \notin {"start", "analyze"}
        /\ l = "stream" => c.cmd.op = "analyze"
    BY <1>2, <1>3, <2>1, AfterReplayIs
  <2>. DEFINE r == [c EXCEPT !.pc = l]
  <2>3. r \in Entry /\ r.pc = l /\ r.cmd = c.cmd /\ r.retry = c.retry /\ l \in Inside
    BY DEF Entry, Inside
  <2>4. Turn(t, r)'
    BY <1>3, <1>7, <1>9, <2>1, <2>2, <2>3 DEF Turn, Inside
  <2>5. call' \in [Callers -> Entry] /\ Turns' /\ call'[t] = r
    BY <1>2, <1>3, <1>9, <1>11, <2>1, <2>3, <2>4, Goes DEF ReplayRead
  <2>. HIDE DEF r
  <2>6. c.step = Len(replay.plays) + 1
    BY <1>4, <1>6, <1>11
  <2>7. OneAtATime => proc.board = Told
    BY <1>4, <1>8, <2>6, PartlyIs, TypeParts DEF Inv, RestOK
  <2>8. OneAtATime => Quiet'
    BY <1>5, <1>7, <1>8, <2>7, SameScript DEF Quiet, OnTold
  <2>9. OneAtATime => Fits(r)'
    BY <1>5, <1>8, <2>3, <2>8 DEF Fits, Rebuilding, Exchanging
  <2>. QED
    BY <1>3, <1>5, <1>7, <1>9, <2>3, <2>5, <2>9, StaysInside
<1>. QED
  BY <1>10, <1>11

LEMMA SendKeeps ==
    ASSUME Inv, NEW t \in Callers, Send(t)
    PROVE  Inv'
<1>1. call[t].pc = "write" /\ call[t].pc \in Inside
  BY DEF Send, At, Inside
<1>2. PICK c \in Entry : c = call[t]
  BY TypeParts DEF Inv
<1>3. /\ holder = t /\ c.cmd \in Commands /\ c.pc = "write" /\ proc # None
      /\ OneAtATime => Fits(c) /\ (~ Working => faults >= 1)
  BY <1>1, <1>2, Holding DEF Turn, Inv, InStep
<1>4. proc \in Processes /\ replay \in [size : Sizes, plays : Plays] /\ Len(replay.plays) \in Nat
  BY <1>3, TypeParts DEF Inv, ProcOK, RestOK, Plays
<1>5. UNCHANGED <<replay, faults>> /\ RestOK' /\ (OneAtATime' <=> OneAtATime)
  BY TypeParts DEF Inv, Send, RestOK, OneAtATime
<1>6. /\ proc' \in Processes /\ proc' # None /\ ProcOK' /\ Working' = Working
      /\ proc'.up = proc.up /\ proc'.board = proc.board /\ proc'.out = proc.out
      /\ ~ proc.up => proc' = proc
      /\ proc.up /\ proc.in = <<>> => proc'.in = <<c.cmd>>
  BY <1>2, <1>3, <1>4, CommandKinds, WriteIs DEF Send
<1>. DEFINE r == [c EXCEPT !.pc = "read"]
<1>7. r \in Entry /\ r.pc = "read" /\ r.cmd = c.cmd /\ r.retry = c.retry
  BY DEF Entry, Inside
<1>8. Turn(t, r)' /\ holder' = t
  <2>1. c.cmd.op \notin {"start", "analyze"}
    BY <1>1, <1>2, Holding DEF Turn
  <2>. QED
    BY <1>3, <1>6, <1>7, <2>1 DEF Turn, Inside, Send
<1>9. call' \in [Callers -> Entry] /\ Turns' /\ call'[t] = r
  BY <1>2, <1>3, <1>8, Goes DEF Send, Inside
<1>. HIDE DEF r
<1>10. OneAtATime => Fits(r)'
  <2>1. OneAtATime => Quiet /\ (c.retry => faults >= 1)
    BY <1>3 DEF Fits
  <2>2. Told' = Told
    BY <1>5, SameScript
  <2>3. OneAtATime => (proc.up => Asked(r.cmd)')
    BY <1>3, <1>6, <1>7, <2>1, <2>2 DEF Quiet, OnTold, Asked, Working
  <2>4. OneAtATime => proc'.out = <<>>
    BY <1>3, <1>6, <2>1 DEF Quiet
  <2>5. OneAtATime => Exchanging(r)'
    BY <1>6, <1>7, <2>3, <2>4 DEF Exchanging
  <2>6. OneAtATime => Rebuilding(r)' /\ (r.retry => faults' >= 1)
    BY <1>5, <1>7, <2>1 DEF Rebuilding
  <2>. QED
    BY <1>7, <2>5, <2>6 DEF Fits
<1>. QED
  BY <1>3, <1>5, <1>6, <1>7, <1>8, <1>9, <1>10, StaysInside

(* A fault counts; a good call makes up for one.                           *)
LEMMA FaultIs ==
    ASSUME faults \in 0..MaxFaults, Fault
    PROVE  faults' \in 0..MaxFaults /\ faults' >= 1 /\ (OneAtATime' => OneAtATime /\ faults = 0)
  BY AdapterAssumption DEF Fault, OneAtATime

LEMMA GoodIs ==
    ASSUME faults \in 0..MaxFaults, Good, ProcOK'
    PROVE  /\ faults' \in 0..MaxFaults /\ (OneAtATime' => OneAtATime)
           /\ faults >= 1 /\ ~ Working' => faults' >= 1
<1>1. faults' = IF OneAtATime /\ Working' THEN 0 ELSE faults
  BY DEF Good, Working
<1>. QED
  BY <1>1, AdapterAssumption DEF OneAtATime

LEMMA StartedKeeps ==
    ASSUME Inv, NEW t \in Callers, Started(t)
    PROVE  Inv'
<1>1. call[t].pc = "return" /\ call[t].pc \in Inside
  BY DEF Started, At, Inside
<1>2. PICK c \in Entry : c = call[t]
  BY TypeParts DEF Inv
<1>3. /\ holder = t /\ c.cmd \in Commands /\ c.pc = "return" /\ proc # None
      /\ OneAtATime => Fits(c) /\ (~ Working => faults >= 1)
  BY <1>1, <1>2, Holding DEF Turn, Inv, InStep
<1>4. /\ proc \in Processes /\ replay \in [size : Sizes, plays : Plays]
      /\ Len(replay.plays) \in Nat /\ faults \in 0..MaxFaults
      /\ OneAtATime => None \notin Placed(replay.plays)
  BY <1>3, TypeParts DEF Inv, ProcOK, RestOK, Plays
<1>5. UNCHANGED <<replay, proc>> /\ Finish(t) /\ ProcOK' /\ Working' = Working
  BY <1>4 DEF Started, ProcOK, Working
<1>6. /\ faults' \in 0..MaxFaults /\ (OneAtATime' => OneAtATime)
      /\ faults >= 1 /\ ~ Working' => faults' >= 1
  BY <1>4, <1>5, GoodIs DEF Started
<1>7. RestOK'
  BY <1>4, <1>5, <1>6 DEF RestOK
<1>8. OneAtATime => Quiet'
  BY <1>3, <1>5, SameScript DEF Fits, Quiet, OnTold
<1>. QED
  BY <1>3, <1>5, <1>6, <1>7, <1>8, LeavesLock

LEMMA RecordedIs ==
    ASSUME replay \in [size : Sizes, plays : Plays], NEW c \in Commands, NEW r \in Replies
    PROVE  Recorded(c, r) \in [size : Sizes, plays : Plays]
<1>1. r.move \in Stones \cup {Pass, None} /\ replay.plays \in Plays /\ replay.size \in Sizes
  BY DEF Replies
<1>2. \A x \in Stones \cup {Pass, None} : Append(replay.plays, x) \in Plays
  BY <1>1, PlacedAppend
<1>3. <<>> \in Plays
  BY DEF Plays
<1>4. \A q \in Plays : [replay EXCEPT !.plays = q] \in [size : Sizes, plays : Plays]
  OBVIOUS
<1>. QED
  BY <1>1, <1>2, <1>3, <1>4, CommandKinds DEF Recorded

LEMMA ReceiveKeeps ==
    ASSUME Inv, NEW t \in Callers, Receive(t)
    PROVE  Inv'
<1>1. call[t].pc = "read" /\ call[t].pc \in Inside
  BY DEF Receive, At, Inside
<1>2. PICK c \in Entry : c = call[t]
  BY TypeParts DEF Inv
<1>3. /\ holder = t /\ c.cmd \in Commands /\ c.pc = "read" /\ proc # None
      /\ OneAtATime => Fits(c) /\ (~ Working => faults >= 1)
  BY <1>1, <1>2, Holding DEF Turn, Inv, InStep
<1>4. /\ proc \in Processes /\ replay \in [size : Sizes, plays : Plays]
      /\ Len(replay.plays) \in Nat /\ faults \in 0..MaxFaults
      /\ OneAtATime => None \notin Placed(replay.plays)
  BY <1>3, TypeParts DEF Inv, ProcOK, RestOK, Plays
<1>5. /\ proc' \in Processes /\ proc' # None /\ ProcOK' /\ Working' = Working
      /\ proc'.up = proc.up /\ proc'.board = proc.board /\ proc'.in = proc.in
      /\ Len(proc.out) = 1 => proc'.out = <<>>
  BY <1>4, ReadIs DEF Receive
<1>6. /\ faults' \in 0..MaxFaults /\ (OneAtATime' => OneAtATime)
      /\ faults >= 1 /\ ~ Working' => faults' >= 1
  BY <1>4, <1>5, GoodIs DEF Receive
<1>. DEFINE r == Head(proc.out)
<1>7. r \in Replies /\ r = proc.out[1]
  BY <1>4 DEF Processes, Receive
<1>8. replay' = Recorded(c.cmd, r)
  BY <1>2 DEF Receive
<1>9. replay' \in [size : Sizes, plays : Plays]
  BY <1>3, <1>4, <1>7, <1>8, RecordedIs
<1>10. OneAtATime => Answered(c.cmd)
  BY <1>3 DEF Fits, Exchanging, Asked, Receive
<1>11. OneAtATime => /\ proc.in = <<>> /\ Len(proc.out) = 1 /\ proc.board = Told'
                     /\ None \notin Placed(replay'.plays)
  BY <1>7, <1>8, <1>10 DEF Answered, Told
<1>. HIDE DEF r
<1>12. RestOK'
  BY <1>6, <1>9, <1>11 DEF RestOK
<1>13. OneAtATime => Quiet'
  BY <1>5, <1>11 DEF Quiet, OnTold
<1>14. Finish(t)
  BY DEF Receive
<1>. QED
  BY <1>3, <1>5, <1>6, <1>12, <1>13, <1>14, LeavesLock

LEMMA ReplayFailsKeeps ==
    ASSUME Inv, NEW t \in Callers, ReplayFails(t)
    PROVE  Inv'
<1>1. call[t].pc = "replay_read" /\ call[t].pc \in Inside
  BY DEF ReplayFails, At, Inside
<1>2. PICK c \in Entry : c = call[t]
  BY TypeParts DEF Inv
<1>3. /\ holder = t /\ c.cmd \in Commands /\ c.pc = "replay_read" /\ proc # None
      /\ OneAtATime => Fits(c) /\ (~ Working => faults >= 1)
  BY <1>1, <1>2, Holding DEF Turn, Inv, InStep
<1>4. /\ proc \in Processes /\ replay \in [size : Sizes, plays : Plays]
      /\ Len(replay.plays) \in Nat /\ faults \in 0..MaxFaults
      /\ OneAtATime => None \notin Placed(replay.plays)
  BY <1>3, TypeParts DEF Inv, ProcOK, RestOK, Plays
<1>5. UNCHANGED <<replay, proc>> /\ Finish(t) /\ ProcOK' /\ (Eof \/ TimesOut)
  BY <1>4 DEF ReplayFails, ProcOK
<1>6. OneAtATime => proc.up /\ faults >= 1
  BY <1>3 DEF Fits, Rebuilding
<1>7. faults' \in 0..MaxFaults /\ ~ OneAtATime'
  <2>1. CASE Eof
    BY <1>4, <1>6, <2>1 DEF Eof, OneAtATime
  <2>2. CASE TimesOut
    BY <1>4, <1>6, <2>2, FaultIs DEF TimesOut
  <2>. QED
    BY <1>5, <2>1, <2>2
<1>8. RestOK'
  BY <1>4, <1>5, <1>7 DEF RestOK
<1>. QED
  BY <1>3, <1>5, <1>7, <1>8, LeavesLock

LEMMA SendFailsKeeps ==
    ASSUME Inv, NEW t \in Callers, SendFails(t)
    PROVE  Inv'
<1>1. call[t].pc = "read" /\ call[t].pc \in Inside
  BY DEF SendFails, At, Inside
<1>2. PICK c \in Entry : c = call[t]
  BY TypeParts DEF Inv
<1>3. /\ holder = t /\ c.cmd \in Commands /\ c.pc = "read" /\ proc # None
      /\ OneAtATime => Fits(c) /\ (~ Working => faults >= 1)
  BY <1>1, <1>2, Holding DEF Turn, Inv, InStep
<1>4. /\ proc \in Processes /\ replay \in [size : Sizes, plays : Plays]
      /\ Len(replay.plays) \in Nat /\ faults \in 0..MaxFaults
      /\ OneAtATime => None \notin Placed(replay.plays)
  BY <1>3, TypeParts DEF Inv, ProcOK, RestOK, Plays
<1>5. replay' = replay /\ (Eof \/ TimesOut)
  BY DEF SendFails
<1>6. /\ faults' \in 0..MaxFaults /\ (OneAtATime' => OneAtATime)
      /\ OneAtATime' /\ c.retry => Eof /\ faults' = faults
      /\ OneAtATime' => faults' >= 1
  <2>1. CASE Eof
    BY <1>3, <1>4, <2>1 DEF Eof, OneAtATime, Working
  <2>2. CASE TimesOut
    BY <1>3, <1>4, <2>2, FaultIs DEF TimesOut, Fits
  <2>. QED
    BY <1>5, <2>1, <2>2
<1>7. RestOK'
  BY <1>4, <1>5, <1>6 DEF RestOK
<1>8. CASE c.retry
  <2>1. Finish(t) /\ proc' = proc /\ ProcOK'
    BY <1>2, <1>4, <1>8 DEF SendFails, ProcOK
  <2>2. OneAtATime' => Quiet'
    BY <1>6, <1>8, <2>1 DEF Quiet, Eof
  <2>. QED
    BY <1>3, <1>6, <1>7, <2>1, <2>2, LeavesLock DEF Working
<1>9. CASE ~ c.retry
  <2>. DEFINE r == [c EXCEPT !.pc = "ensure", !.retry = TRUE]
  <2>1. r \in Entry /\ r.pc = "ensure" /\ r.cmd = c.cmd
    BY DEF Entry, Inside
  <2>2. Set(t, r) /\ holder' = t /\ proc' = None /\ ProcOK'
    BY <1>2, <1>3, <1>9 DEF SendFails, ProcOK
  <2>. HIDE DEF r
  <2>3. Turn(t, r)'
    BY <1>3, <2>1, <2>2 DEF Turn, Inside
  <2>4. call' \in [Callers -> Entry] /\ Turns' /\ call'[t] = r
    BY <1>3, <2>1, <2>2, <2>3, Turnover
  <2>5. OneAtATime' => Fits(r)'
    BY <1>6, <2>1, <2>2 DEF Fits, Quiet, Rebuilding, Exchanging
  <2>. QED
    BY <1>3, <1>6, <1>7, <2>1, <2>2, <2>4, <2>5, StaysInside
<1>. QED
  BY <1>8, <1>9

LEMMA SendResetsKeeps ==
    ASSUME Inv, NEW t \in Callers, SendResets(t)
    PROVE  Inv'
<1>1. call[t].pc = "write" /\ call[t].pc \in Inside
  BY DEF SendResets, At, Inside
<1>2. PICK c \in Entry : c = call[t]
  BY TypeParts DEF Inv
<1>3. /\ holder = t /\ c.pc = "write" /\ proc # None
      /\ OneAtATime => Fits(c) /\ (~ Working => faults >= 1)
  BY <1>1, <1>2, Holding DEF Turn, Inv, InStep
<1>4. /\ UNCHANGED <<replay, faults, proc>> /\ Finish(t) /\ RestOK'
      /\ (OneAtATime' <=> OneAtATime)
  BY TypeParts DEF Inv, SendResets, RestOK, OneAtATime
<1>5. ProcOK' /\ Working' = Working
  BY <1>4, TypeParts DEF Inv, ProcOK, Working
<1>6. OneAtATime => Quiet'
  BY <1>3, <1>4, SameScript DEF Fits, Quiet, OnTold
<1>. QED
  BY <1>3, <1>4, <1>5, <1>6, LeavesLock

LEMMA StreamKeeps ==
    ASSUME Inv, NEW t \in Callers, Stream(t)
    PROVE  Inv'
<1>1. call[t].pc = "stream" /\ call[t].pc \in Inside
  BY DEF Stream, At, Inside
<1>2. PICK c \in Entry : c = call[t]
  BY TypeParts DEF Inv
<1>3. /\ holder = t /\ c.cmd \in Commands /\ c.pc = "stream" /\ proc # None
      /\ OneAtATime => Fits(c) /\ (~ Working => faults >= 1)
  BY <1>1, <1>2, Holding DEF Turn, Inv, InStep
<1>4. /\ proc \in Processes /\ replay \in [size : Sizes, plays : Plays]
      /\ Len(replay.plays) \in Nat /\ faults \in 0..MaxFaults
      /\ OneAtATime => None \notin Placed(replay.plays)
  BY <1>3, TypeParts DEF Inv, ProcOK, RestOK, Plays
<1>5. UNCHANGED <<replay, faults>> /\ RestOK' /\ (OneAtATime' <=> OneAtATime)
  BY TypeParts DEF Inv, Stream, RestOK, OneAtATime
<1>6. CASE proc' = Write(call[t].cmd) /\ Goto(t, "drain") /\ UNCHANGED holder
  <2>1. /\ proc' \in Processes /\ proc' # None /\ ProcOK' /\ Working' = Working
        /\ proc'.up = proc.up /\ proc'.board = proc.board /\ proc'.out = proc.out
        /\ proc.up /\ proc.in = <<>> => proc'.in = <<c.cmd>>
    BY <1>2, <1>3, <1>4, <1>6, CommandKinds, WriteIs
  <2>. DEFINE r == [c EXCEPT !.pc = "drain"]
  <2>2. r \in Entry /\ r.pc = "drain" /\ r.cmd = c.cmd /\ r.retry = c.retry
    BY DEF Entry, Inside
  <2>3. c.cmd.op = "analyze"
    BY <1>1, <1>2, Holding DEF Turn
  <2>4. Turn(t, r)' /\ holder' = t
    BY <1>3, <1>6, <2>1, <2>2, <2>3 DEF Turn, Inside
  <2>5. call' \in [Callers -> Entry] /\ Turns' /\ call'[t] = r
    BY <1>2, <1>3, <1>6, <2>4, Goes DEF Inside
  <2>. HIDE DEF r
  <2>6. OneAtATime => Quiet /\ (c.retry => faults >= 1)
    BY <1>3 DEF Fits
  <2>7. OneAtATime => (proc.up => Asked(r.cmd)')
    BY <1>3, <1>5, <2>1, <2>2, <2>6, SameScript DEF Quiet, OnTold, Asked
  <2>8. OneAtATime => proc'.out = <<>>
    BY <1>3, <2>1, <2>6 DEF Quiet
  <2>9. OneAtATime => Exchanging(r)'
    BY <2>1, <2>2, <2>7, <2>8 DEF Exchanging
  <2>10. OneAtATime => Rebuilding(r)' /\ (r.retry => faults' >= 1)
    BY <1>5, <2>2, <2>6 DEF Rebuilding
  <2>11. OneAtATime => Fits(r)'
    BY <2>2, <2>9, <2>10 DEF Fits
  <2>. QED
    BY <1>3, <1>5, <2>1, <2>2, <2>4, <2>5, <2>11, StaysInside
<1>7. CASE Finish(t) /\ UNCHANGED proc
  <2>1. ProcOK' /\ Working' = Working
    BY <1>4, <1>7 DEF ProcOK, Working
  <2>2. OneAtATime => Quiet'
    BY <1>3, <1>5, <1>7, SameScript DEF Fits, Quiet, OnTold
  <2>. QED
    BY <1>3, <1>5, <1>7, <2>1, <2>2, LeavesLock
<1>. QED
  BY <1>6, <1>7 DEF Stream

LEMMA DrainKeeps ==
    ASSUME Inv, NEW t \in Callers, Drain(t)
    PROVE  Inv'
<1>1. call[t].pc = "drain" /\ call[t].pc \in Inside
  BY DEF Drain, At, Inside
<1>2. PICK c \in Entry : c = call[t]
  BY TypeParts DEF Inv
<1>3. /\ holder = t /\ c.cmd \in Commands /\ c.pc = "drain" /\ proc # None
      /\ OneAtATime => Fits(c) /\ (~ Working => faults >= 1)
  BY <1>1, <1>2, Holding DEF Turn, Inv, InStep
<1>4. /\ proc \in Processes /\ replay \in [size : Sizes, plays : Plays]
      /\ Len(replay.plays) \in Nat /\ faults \in 0..MaxFaults
      /\ OneAtATime => None \notin Placed(replay.plays)
  BY <1>3, TypeParts DEF Inv, ProcOK, RestOK, Plays
<1>5. replay' = replay /\ Finish(t)
  BY DEF Drain
<1>6. PICK n \in 1..Len(proc.out) : proc' = [proc EXCEPT !.out = SubSeq(@, n + 1, Len(@))]
  BY DEF Drain
<1>7. proc.out \in Seq(Replies) /\ proc.out # <<>> /\ SubSeq(proc.out, n + 1, Len(proc.out)) \in Seq(Replies)
  BY <1>4, <1>6 DEF Processes
<1>8. /\ proc' \in Processes /\ proc'.up = proc.up /\ proc'.board = proc.board /\ proc'.in = proc.in
      /\ proc'.out = SubSeq(proc.out, n + 1, Len(proc.out))
  BY <1>4, <1>6, <1>7 DEF Processes
<1>9. proc' # None /\ ProcOK' /\ Working' = Working
  BY <1>3, <1>8, AdapterAssumption DEF ProcOK, Working
<1>10. /\ faults' \in 0..MaxFaults /\ (OneAtATime' => OneAtATime)
       /\ faults >= 1 /\ ~ Working' => faults' >= 1
  BY <1>4, <1>9, GoodIs DEF Drain
<1>11. RestOK'
  BY <1>4, <1>5, <1>10 DEF RestOK
<1>12. OneAtATime => Answered(c.cmd)
  BY <1>3, <1>7 DEF Fits, Exchanging, Asked
<1>13. c.cmd.op = "analyze"
  BY <1>1, <1>2, Holding DEF Turn
<1>14. OneAtATime => proc.in = <<>> /\ Len(proc.out) = 1 /\ proc.board = Told
  BY <1>12, <1>13 DEF Answered, Recorded, Told
<1>15. Len(proc.out) = 1 => proc'.out = <<>>
  <2>1. SUFFICES ASSUME Len(proc.out) = 1
                 PROVE  proc'.out = <<>>
    OBVIOUS
  <2>2. n = 1
    BY <1>6, <2>1
  <2>3. Len(SubSeq(proc.out, 2, 1)) = 0
    BY <1>7
  <2>. QED
    BY <1>7, <1>8, <2>1, <2>2, <2>3, EmptySeq
<1>16. OneAtATime => Quiet'
  BY <1>5, <1>8, <1>14, <1>15, SameScript DEF Quiet, OnTold
<1>. QED
  BY <1>3, <1>5, <1>9, <1>10, <1>11, <1>16, LeavesLock

LEMMA DrainFailsKeeps ==
    ASSUME Inv, NEW t \in Callers, DrainFails(t)
    PROVE  Inv'
<1>1. call[t].pc = "drain" /\ call[t].pc \in Inside
  BY DEF DrainFails, At, Inside
<1>2. PICK c \in Entry : c = call[t]
  BY TypeParts DEF Inv
<1>3. /\ holder = t /\ c.cmd \in Commands /\ c.pc = "drain" /\ proc # None
      /\ OneAtATime => Fits(c) /\ (~ Working => faults >= 1)
  BY <1>1, <1>2, Holding DEF Turn, Inv, InStep
<1>4. /\ proc \in Processes /\ replay \in [size : Sizes, plays : Plays]
      /\ Len(replay.plays) \in Nat /\ faults \in 0..MaxFaults
      /\ OneAtATime => None \notin Placed(replay.plays)
  BY <1>3, TypeParts DEF Inv, ProcOK, RestOK, Plays
<1>5. replay' = replay /\ Finish(t) /\ proc' = None /\ ProcOK' /\ (Eof \/ TimesOut)
  BY DEF DrainFails, ProcOK
<1>6. /\ faults' \in 0..MaxFaults /\ (OneAtATime' => OneAtATime)
      /\ OneAtATime' => faults' >= 1
  <2>1. CASE Eof
    BY <1>3, <1>4, <2>1 DEF Eof, OneAtATime, Working
  <2>2. CASE TimesOut
    BY <1>3, <1>4, <2>2, FaultIs DEF TimesOut
  <2>. QED
    BY <1>5, <2>1, <2>2
<1>7. RestOK'
  BY <1>4, <1>5, <1>6 DEF RestOK
<1>8. Quiet'
  BY <1>5 DEF Quiet
<1>. QED
  BY <1>3, <1>5, <1>6, <1>7, <1>8, LeavesLock

-----------------------------------------------------------------------------
(* The process's own steps.                                                *)

(* What a command does to a board, and its reply.                          *)
Effect(c, a, b, ok, move) ==
    \/ c.op = "clear_board" /\ b = Board(a.size, {})
    \/ c.op = "boardsize" /\ b = Board(c.arg, {})
    \/ c.op = "analyze" /\ b = a
    \/ /\ c.op = "play" /\ (ok <=> c.arg \notin a.stones /\ c.arg \in Stones \cup {Pass})
       /\ b = Board(a.size, a.stones \cup ({c.arg} \cap Stones))
    \/ /\ c.op = "genmove" /\ ok /\ move \in Stones \cup {Pass}
       /\ b = Board(a.size, (a.stones \cup {move}) \ {Pass})

LEMMA ExecuteIs ==
    ASSUME proc \in Processes, Execute
    PROVE  /\ proc.in # <<>> /\ Head(proc.in) \in Written /\ proc.board \in Boards
           /\ \E b \in Boards, ok \in BOOLEAN, move \in Stones \cup {Pass, None} :
                 Answers(Head(proc.in), b, ok, move) /\ Effect(Head(proc.in), proc.board, b, ok, move)
<1>. DEFINE c == Head(proc.in)
            a == proc.board
<1>1. proc.in \in Seq(Written) /\ proc.in # <<>> /\ c \in Written /\ a \in Boards
  BY DEF Execute, Processes
<1>2. /\ c.op = "boardsize" => c.arg \in Sizes
      /\ c.op = "play" => c.arg \in Stones \cup {Pass, None}
  BY <1>1, WrittenKinds
<1>3. a.size \in Sizes /\ a.stones \in SUBSET Stones /\ a = Board(a.size, a.stones)
  BY <1>1 DEF Boards, Board
<1>4. \A x \in Sizes, y \in SUBSET Stones : Board(x, y) \in Boards
  BY DEF Board, Boards
<1>. HIDE DEF c, a
<1>5. CASE c.op = "clear_board" /\ Answers(c, Board(a.size, {}), TRUE, None)
  <2>1. Effect(c, a, Board(a.size, {}), TRUE, None) /\ Board(a.size, {}) \in Boards
    BY <1>3, <1>4, <1>5 DEF Effect
  <2>. QED
    BY <1>1, <1>5, <2>1 DEF c, a
<1>6. CASE c.op = "boardsize" /\ Answers(c, Board(c.arg, {}), TRUE, None)
  <2>1. Effect(c, a, Board(c.arg, {}), TRUE, None) /\ Board(c.arg, {}) \in Boards
    BY <1>2, <1>4, <1>6 DEF Effect
  <2>. QED
    BY <1>1, <1>6, <2>1 DEF c, a
<1>7. CASE c.op = "analyze" /\ Answers(c, a, TRUE, None)
  <2>1. Effect(c, a, a, TRUE, None)
    BY <1>7 DEF Effect
  <2>. QED
    BY <1>1, <1>7, <2>1 DEF c, a
<1>8. CASE /\ c.op = "play" /\ c.arg \in Stones \ a.stones
           /\ Answers(c, Board(a.size, a.stones \cup {c.arg}), TRUE, None)
  <2>. DEFINE b == Board(a.size, a.stones \cup {c.arg})
  <2>1. a.stones \cup {c.arg} = a.stones \cup ({c.arg} \cap Stones)
    BY <1>8
  <2>2. Effect(c, a, b, TRUE, None) /\ b \in Boards
    BY <1>3, <1>4, <1>8, <2>1 DEF Effect
  <2>. QED
    BY <1>1, <1>8, <2>2 DEF c, a
<1>9. CASE /\ c.op = "play" /\ c.arg \notin Stones \ a.stones
           /\ Answers(c, a, c.arg = Pass, None)
  <2>1. a.stones \cup ({c.arg} \cap Stones) = a.stones
    BY <1>9
  <2>2. (c.arg = Pass) <=> c.arg \notin a.stones /\ c.arg \in Stones \cup {Pass}
    BY <1>3, <1>9, AdapterAssumption
  <2>3. Effect(c, a, a, c.arg = Pass, None)
    BY <1>3, <1>9, <2>1, <2>2 DEF Effect
  <2>4. (c.arg = Pass) \in BOOLEAN
    OBVIOUS
  <2>. QED
    BY <1>1, <1>9, <2>3, <2>4 DEF c, a
<1>10. ASSUME c.op = "genmove", NEW x \in (Stones \ a.stones) \cup {Pass},
              Answers(c, Board(a.size, (a.stones \cup {x}) \ {Pass}), TRUE, x)
       PROVE  \E b \in Boards, ok \in BOOLEAN, move \in Stones \cup {Pass, None} :
                 Answers(c, b, ok, move) /\ Effect(c, a, b, ok, move)
  <2>. DEFINE b == Board(a.size, (a.stones \cup {x}) \ {Pass})
  <2>1. Effect(c, a, b, TRUE, x) /\ b \in Boards
    BY <1>3, <1>4, <1>10 DEF Effect
  <2>. QED
    BY <1>10, <2>1
<1>. QED
  BY <1>1, <1>5, <1>6, <1>7, <1>8, <1>9, <1>10 DEF Execute, c, a

LEMMA AnswersIs ==
    ASSUME proc \in Processes, proc.in # <<>>, NEW b \in Boards, NEW ok \in BOOLEAN,
           NEW move \in Stones \cup {Pass, None}, Answers(Head(proc.in), b, ok, move)
    PROVE  /\ proc' \in Processes /\ proc' # None /\ ProcOK' /\ Working' = Working
           /\ proc'.up = proc.up /\ proc'.board = b
           /\ Len(proc.in) = 1 => proc'.in = <<>>
           /\ proc.out = <<>> => /\ Len(proc'.out) = 1
                                 /\ proc'.out[1] = Reply(Head(proc.in), ok, move)
<1>. DEFINE r == Reply(Head(proc.in), ok, move)
<1>1. /\ proc.in \in Seq(Written) /\ Tail(proc.in) \in Seq(Written) /\ Head(proc.in) \in Written
      /\ proc.out \in Seq(Replies) /\ proc.board \in Boards
  BY DEF Processes
<1>2. r \in Replies
  BY <1>1 DEF Reply, Replies
<1>3. Append(proc.out, r) \in Seq(Replies)
  BY <1>1, <1>2
<1>. HIDE DEF r
<1>4. /\ proc' \in Processes /\ proc'.up = proc.up /\ proc'.board = b
      /\ proc'.in = Tail(proc.in) /\ proc'.out = Append(proc.out, r)
  BY <1>1, <1>3 DEF Processes, Answers, r
<1>5. proc' # None /\ proc # None
  BY <1>4, AdapterAssumption
<1>6. Len(proc.in) = 1 => Tail(proc.in) = <<>>
  <2>1. SUFFICES ASSUME Len(proc.in) = 1
                 PROVE  Tail(proc.in) = <<>>
    OBVIOUS
  <2>2. Len(Tail(proc.in)) = 0
    BY <1>1, <2>1, HeadTailProperties
  <2>. QED
    BY <1>1, <2>2, EmptySeq
<1>7. Len(Append(<<>>, r)) = 1 /\ Append(<<>>, r)[1] = r
  OBVIOUS
<1>. QED
  BY <1>4, <1>5, <1>6, <1>7 DEF ProcOK, Working, r

(* What a reply makes the caller record is what its command did.           *)
LEMMA EffectRecorded ==
    ASSUME replay \in [size : Sizes, plays : Plays], None \notin Placed(replay.plays),
           NEW c \in Commands, NEW r \in Replies, NEW b, Effect(c, Told, b, r.ok, r.move)
    PROVE  LET e == Recorded(c, r)
           IN  b = Board(e.size, Placed(e.plays)) /\ None \notin Placed(e.plays)
<1>. DEFINE p == replay.plays
            S == Placed(p)
<1>1. p \in Plays /\ Told.size = replay.size /\ Told.stones = S
  BY DEF Told, Board
<1>2. \A x \in Stones \cup {Pass} : Placed(Append(p, x)) = (S \cup {x}) \ {Pass}
  BY <1>1, PlacedAppend
<1>3. Placed(<<>>) = {}
  BY DEF Placed
<1>4. S \subseteq Stones
  BY <1>1 DEF Placed, Plays
<1>5. None # Pass /\ None \notin Stones /\ Pass \notin Stones
  BY AdapterAssumption
<1>6. r.ok \in BOOLEAN
  BY DEF Replies
<1>. HIDE DEF S, p
<1>7. CASE c.op = "clear_board"
  BY <1>1, <1>3, <1>7 DEF Effect, Recorded, p
<1>8. CASE c.op = "boardsize"
  BY <1>1, <1>3, <1>8 DEF Effect, Recorded
<1>9. CASE c.op = "analyze"
  BY <1>1, <1>9 DEF Effect, Recorded, Told, S, p
<1>10. CASE c.op = "play"
  <2>1. c.arg \in Stones \cup {Pass}
    BY <1>10, CommandKinds
  <2>2. (r.ok <=> c.arg \notin S) /\ b = Board(replay.size, S \cup ({c.arg} \cap Stones))
    BY <1>1, <1>10, <2>1 DEF Effect
  <2>3. CASE r.ok
    <3>1. S \cup ({c.arg} \cap Stones) = (S \cup {c.arg}) \ {Pass}
      BY <1>4, <1>5, <2>1
    <3>2. Placed(Append(p, c.arg)) = S \cup ({c.arg} \cap Stones)
      BY <1>2, <2>1, <3>1
    <3>3. Recorded(c, r) = [replay EXCEPT !.plays = Append(p, c.arg)]
      BY <1>10, <2>3 DEF Recorded, p
    <3>4. Recorded(c, r).size = replay.size /\ Recorded(c, r).plays = Append(p, c.arg)
      BY <3>3
    <3>5. None \notin S \cup ({c.arg} \cap Stones)
      BY <1>4, <1>5
    <3>. QED
      BY <2>2, <3>2, <3>4, <3>5
  <2>4. CASE ~ r.ok
    <3>1. S \cup ({c.arg} \cap Stones) = S
      BY <1>4, <2>2, <2>4
    <3>2. Recorded(c, r) = replay
      BY <1>10, <2>4 DEF Recorded
    <3>. QED
      BY <1>4, <1>5, <2>2, <3>1, <3>2 DEF S, p
  <2>. QED
    BY <2>3, <2>4
<1>11. CASE c.op = "genmove"
  <2>1. r.ok /\ r.move \in Stones \cup {Pass} /\ b = Board(replay.size, (S \cup {r.move}) \ {Pass})
    BY <1>1, <1>11 DEF Effect
  <2>2. CASE r.move = Pass
    <3>1. Recorded(c, r) = replay
      BY <1>11, <2>2 DEF Recorded
    <3>2. (S \cup {r.move}) \ {Pass} = S
      BY <1>4, <1>5, <2>2
    <3>. QED
      BY <1>4, <1>5, <2>1, <3>1, <3>2 DEF S, p
  <2>3. CASE r.move # Pass
    <3>1. Recorded(c, r) = [replay EXCEPT !.plays = Append(p, r.move)]
      BY <1>11, <2>1, <2>3 DEF Recorded, p
    <3>2. Recorded(c, r).size = replay.size /\ Recorded(c, r).plays = Append(p, r.move)
      BY <3>1
    <3>3. Placed(Append(p, r.move)) = (S \cup {r.move}) \ {Pass}
      BY <1>2, <2>1
    <3>4. None \notin (S \cup {r.move}) \ {Pass}
      BY <1>4, <1>5, <2>1
    <3>. QED
      BY <2>1, <3>2, <3>3, <3>4
  <2>. QED
    BY <2>2, <2>3
<1>. QED
  BY <1>7, <1>8, <1>9, <1>10, <1>11 DEF Effect

LEMMA ExecuteKeeps ==
    ASSUME Inv, Execute
    PROVE  Inv'
<1>1. UNCHANGED <<holder, replay, call, faults>> /\ Working /\ (OneAtATime' <=> OneAtATime)
  BY DEF Execute, OneAtATime
<1>2. proc \in Processes /\ proc # None /\ proc.up /\ RestOK /\ proc.in # <<>>
  BY <1>1, TypeParts DEF Inv, ProcOK, Working, Execute
<1>3. replay \in [size : Sizes, plays : Plays]
  BY <1>2 DEF RestOK
<1>. DEFINE cmd == Head(proc.in)
<1>4. cmd \in Written /\ proc.board \in Boards
  BY <1>2, ExecuteIs
<1>5. PICK b \in Boards, ok \in BOOLEAN, move \in Stones \cup {Pass, None} :
          Answers(cmd, b, ok, move) /\ Effect(cmd, proc.board, b, ok, move)
  BY <1>2, ExecuteIs
<1>. DEFINE r == Reply(cmd, ok, move)
<1>6. /\ ProcOK' /\ proc' # None /\ Working' = Working /\ proc'.up /\ proc'.board = b
      /\ Len(proc.in) = 1 => proc'.in = <<>>
      /\ proc.out = <<>> => Len(proc'.out) = 1 /\ proc'.out[1] = r
  BY <1>2, <1>5, AnswersIs
<1>7. r \in Replies /\ r.to = cmd /\ r.on = proc.board /\ r.ok = ok /\ r.move = move
  BY <1>4 DEF Reply, Replies
<1>. HIDE DEF cmd, r
<1>8. TypeOK'
  <2>1. RestOK'
    BY <1>1, <1>2 DEF RestOK
  <2>2. holder' \in Callers \cup {None} /\ call' \in [Callers -> Entry]
    BY <1>1, TypeParts DEF Inv
  <2>. QED
    BY <1>6, <2>1, <2>2, TypePartsNext
<1>9. Turns'
  BY <1>1, <1>2, <1>6 DEF Inv, Turns, Turn
<1>10. ASSUME OneAtATime
       PROVE  InStep'
  <2>1. InStep /\ None \notin Placed(replay.plays)
    BY <1>2, <1>10 DEF Inv, RestOK
  <2>2. ~ Quiet
    BY <1>2 DEF Quiet, OnTold
  <2>3. PICK t \in Callers : t = holder
    BY <1>10, <2>1, <2>2, TypeParts DEF Inv, InStep
  <2>4. PICK c \in Entry : c = call[t]
    BY TypeParts DEF Inv
  <2>5. Fits(c) /\ Turn(t, c) /\ c.pc \in Inside
    BY <1>10, <2>1, <2>3, <2>4 DEF Inv, InStep, Turns, Turn
  <2>6. c.pc \in {"replay_read", "read", "drain"}
    BY <1>2, <2>2, <2>5 DEF Fits, Rebuilding, Inside
  <2>7. /\ Script' = Script /\ Told' = Told
        /\ \A k : Partly(k)' = Partly(k)
        /\ \A x, y : Recorded(x, y)' = Recorded(x, y)
    BY <1>1, SameScript
  <2>8. ASSUME c.pc = "replay_read"
        PROVE  Fits(c)'
    <3>1. proc.in = <<Script[c.step]>> /\ proc.out = <<>> /\ proc.board = Partly(c.step - 1)
          /\ faults >= 1
      BY <1>2, <2>5, <2>8 DEF Fits, Rebuilding
    <3>2. cmd = Script[c.step] /\ Len(proc.in) = 1
      BY <3>1 DEF cmd
    <3>3. c.step \in 1..(Len(replay.plays) + 1) /\ Len(replay.plays) \in Nat
      BY <1>3, <2>5, <2>8 DEF Turn, Plays
    <3>4. b = Partly(c.step)
      <4>1. CASE c.step = 1
        <5>1. cmd.op = "boardsize" /\ cmd.arg = replay.size
          BY <1>3, <3>2, <4>1, ScriptIs DEF Command
        <5>. QED
          BY <1>3, <1>5, <2>1, <4>1, <5>1, PartlyIs DEF Effect
      <4>2. CASE c.step # 1
        <5>. DEFINE n == c.step - 1
        <5>1. n \in 1..Len(replay.plays) /\ n + 1 = c.step /\ c.step \in 2..(Len(replay.plays) + 1)
          BY <3>3, <4>2
        <5>2. cmd.op = "play" /\ cmd.arg = replay.plays[n]
          <6>1. Script[c.step] = Command("play", replay.plays[c.step - 1])
            BY <1>3, <5>1, ScriptIs
          <6>. QED
            BY <3>2, <6>1 DEF Command
        <5>. HIDE DEF n
        <5>3. /\ replay.plays[n] \in Stones \cup {Pass} /\ Partly(n).size = replay.size
              /\ Partly(n + 1) = Board(replay.size, (Partly(n).stones \cup {replay.plays[n]}) \ {Pass})
          BY <1>3, <2>1, <5>1, PartlyIs
        <5>4. proc.board = Partly(n)
          BY <3>1 DEF n
        <5>5. b = Board(replay.size, Partly(n).stones \cup ({replay.plays[n]} \cap Stones))
          BY <1>5, <5>2, <5>3, <5>4 DEF Effect
        <5>6. Partly(n).stones \subseteq Stones
          BY <1>4, <5>4 DEF Boards
        <5>7. Partly(n).stones \cup ({replay.plays[n]} \cap Stones)
                  = (Partly(n).stones \cup {replay.plays[n]}) \ {Pass}
          BY <5>3, <5>6, AdapterAssumption
        <5>. QED
          BY <5>1, <5>3, <5>5, <5>7
      <4>. QED
        BY <4>1, <4>2
    <3>5. Rebuilding(c)'
      BY <1>6, <2>7, <2>8, <3>1, <3>2, <3>4 DEF Rebuilding
    <3>. QED
      BY <1>1, <2>8, <3>1, <3>5 DEF Fits, Exchanging
  <2>9. ASSUME c.pc \in {"read", "drain"}
        PROVE  Fits(c)'
    <3>1. Asked(c.cmd)
      BY <1>2, <2>5, <2>9 DEF Fits, Exchanging, Answered
    <3>2. cmd = c.cmd /\ Len(proc.in) = 1 /\ proc.out = <<>> /\ proc.board = Told
      BY <3>1 DEF Asked, cmd
    <3>3. c.cmd \in Commands
      BY <2>5, <2>9 DEF Turn
    <3>4. LET e == Recorded(c.cmd, r)
          IN  b = Board(e.size, Placed(e.plays)) /\ None \notin Placed(e.plays)
      BY <1>3, <1>5, <1>7, <2>1, <3>2, <3>3, EffectRecorded, ZenonT(60)
    <3>5. Answered(c.cmd)'
      BY <1>6, <1>7, <2>7, <3>2, <3>4 DEF Answered
    <3>. QED
      BY <1>1, <2>5, <2>9, <3>5 DEF Fits, Rebuilding, Exchanging
  <2>10. Fits(c)'
    BY <2>6, <2>8, <2>9
  <2>. QED
    BY <1>1, <1>6, <2>3, <2>4, <2>10, AdapterAssumption DEF InStep
<1>. QED
  BY <1>1, <1>8, <1>9, <1>10 DEF Inv

LEMMA DieKeeps ==
    ASSUME Inv, Die
    PROVE  Inv'
<1>1. UNCHANGED <<holder, replay, call>> /\ Working /\ Fault /\ proc' = [proc EXCEPT !.up = FALSE]
  BY DEF Die
<1>2. proc \in Processes /\ proc # None /\ proc.up /\ RestOK
  BY <1>1, TypeParts DEF Inv, ProcOK, Working
<1>3. /\ proc' \in Processes /\ ~ proc'.up /\ proc'.board = proc.board
      /\ proc'.in = proc.in /\ proc'.out = proc.out
  BY <1>1, <1>2 DEF Processes
<1>4. proc' # None /\ ProcOK'
  BY <1>3, AdapterAssumption DEF ProcOK
<1>5. faults' \in 0..MaxFaults /\ faults' >= 1 /\ (OneAtATime' => OneAtATime /\ faults = 0)
  BY <1>1, <1>2, FaultIs DEF RestOK
<1>6. TypeOK'
  <2>1. RestOK'
    BY <1>1, <1>2, <1>5 DEF RestOK
  <2>2. holder' \in Callers \cup {None} /\ call' \in [Callers -> Entry]
    BY <1>1, TypeParts DEF Inv
  <2>. QED
    BY <1>4, <2>1, <2>2, TypePartsNext
<1>7. Turns'
  BY <1>1, <1>2, <1>4 DEF Inv, Turns, Turn
<1>8. ASSUME OneAtATime'
      PROVE  InStep'
  <2>1. InStep /\ faults = 0
    BY <1>5, <1>8 DEF Inv
  <2>2. holder' = None => Quiet'
    BY <1>1, <1>2, <1>3, <2>1 DEF InStep, Quiet, OnTold
  <2>3. ASSUME NEW t \in Callers, t = holder
        PROVE  Fits(call[t])'
    <3>1. PICK c \in Entry : c = call[t]
      BY TypeParts DEF Inv
    <3>2. Fits(c) /\ c.pc \notin {"replay", "replay_read"} /\ ~ c.retry
      BY <2>1, <2>3, <3>1 DEF InStep, Fits
    <3>3. c.pc \in {"ensure", "write", "return", "stream"} => Quiet'
      BY <1>2, <1>3, <3>2 DEF Fits, Quiet
    <3>4. Told' = Told /\ \A x, y : Recorded(x, y)' = Recorded(x, y)
      BY <1>1, SameScript
    <3>5. Exchanging(c)'
      BY <1>2, <1>3, <3>2, <3>4 DEF Fits, Exchanging, Asked, Answered
    <3>6. Fits(c)'
      BY <3>2, <3>3, <3>5 DEF Fits, Rebuilding
    <3>. QED
      BY <1>1, <3>1, <3>6
  <2>. QED
    BY <1>1, <1>5, <2>2, <2>3 DEF InStep
<1>. QED
  BY <1>6, <1>7, <1>8 DEF Inv

LEMMA InitInv == Init => Inv
<1>. SUFFICES ASSUME Init PROVE Inv
  OBVIOUS
<1>1. Resting \in Entry /\ Resting.pc = "idle" /\ ~ Resting.retry
  BY DEF Resting, Entry
<1>2. Fresh \in Processes /\ Fresh # None
  <2>1. Board(DefaultSize, {}) \in Boards
    BY AdapterAssumption DEF Board, Boards
  <2>2. Fresh \in Processes
    BY <2>1 DEF Fresh, Processes
  <2>. QED
    BY <2>2, AdapterAssumption
<1>3. Placed(<<>>) = {} /\ <<>> \in Plays
  BY DEF Placed, Plays
<1>4. RestOK
  BY <1>3, AdapterAssumption DEF Init, RestOK
<1>5. TypeOK
  BY <1>1, <1>2, <1>4, TypeParts DEF Init, ProcOK
<1>6. Turns
  BY <1>1, AdapterAssumption DEF Init, Turns, Turn, Inside
<1>7. Told = Board(DefaultSize, {})
  BY <1>3 DEF Told, Init
<1>8. Quiet /\ Working
  BY <1>2, <1>7 DEF Init, Quiet, OnTold, Fresh, Working
<1>9. InStep
  BY <1>8, AdapterAssumption DEF InStep, Init
<1>. QED
  BY <1>5, <1>6, <1>9 DEF Inv

LEMMA NextInv == Inv /\ [Next]_vars => Inv'
<1>. SUFFICES ASSUME Inv, [Next]_vars PROVE Inv'
  OBVIOUS
<1>1. CASE Execute
  BY <1>1, ExecuteKeeps
<1>2. CASE Die
  BY <1>2, DieKeeps
<1>3. ASSUME NEW t \in Callers,
             \/ Call(t) \/ Acquire(t) \/ EnsureAlive(t)
             \/ ReplayWrite(t) \/ ReplayRead(t) \/ ReplayFails(t) \/ Started(t)
             \/ Send(t) \/ SendResets(t) \/ Receive(t) \/ SendFails(t)
             \/ Stream(t) \/ Drain(t) \/ DrainFails(t)
      PROVE  Inv'
  BY <1>3, CallKeeps, AcquireKeeps, EnsureAliveKeeps, ReplayWriteKeeps, ReplayReadKeeps,
     ReplayFailsKeeps, StartedKeeps, SendKeeps, SendResetsKeeps, ReceiveKeeps,
     SendFailsKeeps, StreamKeeps, DrainKeeps, DrainFailsKeeps
<1>4. CASE UNCHANGED vars
  <2>1. UNCHANGED <<holder, replay, proc, call, faults>>
    BY <1>4 DEF vars
  <2>2. TypeOK'
    BY <2>1, TypeParts, TypePartsNext DEF Inv, ProcOK, RestOK, OneAtATime
  <2>3. Turns'
    BY <2>1 DEF Inv, Turns, Turn
  <2>4. ASSUME NEW t \in Callers
        PROVE  Fits(call[t])' <=> Fits(call[t])
    <3>1. PICK c : c = call[t]
      OBVIOUS
    <3>2. Fits(c)' <=> Fits(c)
      BY <2>1, SameExchange
    <3>. QED
      BY <2>1, <3>1, <3>2
  <2>5. (OneAtATime => InStep)'
    BY <2>1, <2>4, SameExchange DEF Inv, InStep, OneAtATime
  <2>. QED
    BY <2>2, <2>3, <2>5 DEF Inv
<1>. QED
  BY <1>1, <1>2, <1>3, <1>4 DEF Next

LEMMA AlwaysInv == Spec => []Inv
  BY InitInv, NextInv, PTL DEF Spec

-----------------------------------------------------------------------------
(* The adapter's promises.                                                 *)

(* The record, the pipes and the callers' places keep their types, and no  *)
(* move that KataGo never made is recorded before a second fault in a row. *)
THEOREM AdapterType == Spec => []TypeOK
<1>1. Inv => TypeOK
  BY DEF Inv
<1>. QED
  BY <1>1, AlwaysInv, PTL

(* With any number of callers and moves, and however many faults come one  *)
(* at a time: whenever the lock is free and the process lives, it is on    *)
(* the board its callers have been told and its pipes are empty.           *)
THEOREM AdapterBoard == Spec => []BoardIsTold
<1>1. Inv => BoardIsTold
  BY DEF Inv, InStep, BoardIsTold, Working, Quiet
<1>. QED
  BY <1>1, AlwaysInv, PTL

(* The reply a caller is about to read answers the command it sent, on the *)
(* board the callers have been told: no restart or retry shifts an answer. *)
THEOREM AdapterAnswer == Spec => []AnswerIsOwn
<1>1. ASSUME Inv
      PROVE  AnswerIsOwn
  <2>1. SUFFICES ASSUME OneAtATime, NEW t \in Callers, call[t].pc \in {"read", "drain"},
                        proc.out # <<>>
                 PROVE  Answered(call[t].cmd)
    BY DEF AnswerIsOwn, Answered
  <2>2. Fits(call[t])
    BY <1>1, <2>1, Holding DEF Inside
  <2>. QED
    BY <2>1, <2>2 DEF Fits, Exchanging, Asked
<1>. QED
  BY <1>1, AlwaysInv, PTL
=============================================================================
