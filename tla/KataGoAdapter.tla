--------------------------- MODULE KataGoAdapter ---------------------------
(***************************************************************************)
(* core/katago/adapter.py: one KataGo process behind a pair of pipes, a    *)
(* lock that makes callers take turns, and the record from which a process *)
(* that dies or hangs is replaced and rebuilt.                             *)
(*                                                                         *)
(* A reply carries nothing that names its command: whoever reads takes the *)
(* oldest one.  The model tags replies with the command they answer to say *)
(* when that goes wrong; no step looks at the tag.  A stone is a point;    *)
(* komi and profile do not touch the board and are left out.               *)
(***************************************************************************)
EXTENDS Integers, Sequences

CONSTANTS
    Callers,
    Sizes, DefaultSize,    \* board sizes, and KataGo's and _ReplayState's first
    Stones, Pass, None,
    MaxPlays,              \* bound: length of the record
    MaxFaults              \* bound: deaths and timeouts in a row

Board(s, stones) == [size |-> s, stones |-> stones]
Boards == [size : Sizes, stones : SUBSET Stones]

Command(op, arg) == [op |-> op, arg |-> arg]
Commands == {Command("start", None), Command("clear_board", None),
             Command("genmove", None), Command("analyze", None)}
            \cup {Command("boardsize", s) : s \in Sizes}
            \cup {Command("play", x) : x \in Stones \cup {Pass}}

(* After two faults in a row a move that never was may be recorded, and a  *)
(* replay writes it.                                                       *)
Written == Commands \cup {Command("play", None)}
Replies == [to : Written, on : Boards, ok : BOOLEAN, move : Stones \cup {Pass, None}]
Processes == [up : BOOLEAN, board : Boards, in : Seq(Written), out : Seq(Replies)]

ASSUME AdapterAssumption ==
    /\ DefaultSize \in Sizes
    /\ Pass \notin Stones /\ None \notin Stones \cup Callers \cup {Pass}
    /\ MaxPlays \in Nat /\ MaxFaults \in Nat
    /\ None \notin Processes

VARIABLES
    holder,    \* who is inside _lock
    replay,    \* _replay: boardsize and plays
    proc,      \* _proc: None, or the process with what is in its pipes
    call,      \* what each caller is doing
    faults

vars == <<holder, replay, proc, call, faults>>

Working == proc # None /\ proc.up

Placed(plays) == {plays[i] : i \in 1..Len(plays)} \ {Pass}
Told == Board(replay.size, Placed(replay.plays))   \* what callers have been told

Fresh == [up |-> TRUE, board |-> Board(DefaultSize, {}), in |-> <<>>, out |-> <<>>]
Resting == [pc |-> "idle", cmd |-> None, step |-> 0, retry |-> FALSE]

(* The lifespan has started the adapter.                                   *)
Init ==
    /\ holder = None
    /\ replay = [size |-> DefaultSize, plays |-> <<>>]
    /\ proc = Fresh
    /\ call = [t \in Callers |-> Resting]
    /\ faults = 0

-----------------------------------------------------------------------------
(* The process: one command after another, one reply to each.              *)

Reply(c, ok, move) == [to |-> c, on |-> proc.board, ok |-> ok, move |-> move]

Answers(c, b, ok, move) ==
    proc' = [proc EXCEPT !.in = Tail(@), !.board = b, !.out = Append(@, Reply(c, ok, move))]

Execute ==
    LET c == Head(proc.in)
        b == proc.board
    IN
    /\ Working /\ proc.in # <<>>
    /\ \/ c.op = "clear_board" /\ Answers(c, Board(b.size, {}), TRUE, None)
       \/ c.op = "boardsize" /\ Answers(c, Board(c.arg, {}), TRUE, None)
       \/ c.op = "analyze" /\ Answers(c, b, TRUE, None)
       \/ c.op = "play" /\
             IF c.arg \in Stones \ b.stones
             THEN Answers(c, Board(b.size, b.stones \cup {c.arg}), TRUE, None)
             ELSE Answers(c, b, c.arg = Pass, None)
       \/ c.op = "genmove" /\
             \E x \in (Stones \ b.stones) \cup {Pass} :      \* Pass: or resign
                 Answers(c, Board(b.size, (b.stones \cup {x}) \ {Pass}), TRUE, x)
    /\ UNCHANGED <<holder, replay, call, faults>>

Fault == faults < MaxFaults /\ faults' = faults + 1

Die ==
    /\ Working
    /\ Fault
    /\ proc' = [proc EXCEPT !.up = FALSE]
    /\ UNCHANGED <<holder, replay, call>>

(* A dead process's pipe yields what it still holds and then end of file;  *)
(* a live one makes its reader wait, and the wait may run out.             *)
Eof == ~proc.up /\ proc.out = <<>> /\ UNCHANGED faults
TimesOut == proc.up /\ Fault

Write(c) == [proc EXCEPT !.in = IF proc.up THEN Append(@, c) ELSE @]

-----------------------------------------------------------------------------
(* Callers.                                                                *)

At(t, l) == call[t].pc = l
Set(t, r) == call' = [call EXCEPT ![t] = r]
Goto(t, l) == call' = [call EXCEPT ![t].pc = l]

(* The lock is released; a good call, one that leaves a working process    *)
(* behind, makes up for the fault before it, but not for two.              *)
OneAtATime == faults <= 1
Finish(t) == /\ holder' = None
             /\ Set(t, Resting)
Good == faults' = IF OneAtATime /\ proc' # None /\ proc'.up THEN 0 ELSE faults

Call(t) ==
    /\ At(t, "idle")
    /\ \E c \in Commands :
          /\ c.op \in {"play", "genmove"} => Len(replay.plays) < MaxPlays
          /\ Set(t, [Resting EXCEPT !.pc = "wait", !.cmd = c])
    /\ UNCHANGED <<holder, replay, proc, faults>>

Acquire(t) ==
    /\ At(t, "wait") /\ holder = None
    /\ holder' = t
    /\ Goto(t, "ensure")
    /\ UNCHANGED <<replay, proc, faults>>

Script == <<Command("boardsize", replay.size)>>
            \o [i \in 1..Len(replay.plays) |-> Command("play", replay.plays[i])]

AfterReplay(t) == CASE call[t].cmd.op = "start" -> "return"
                    [] call[t].cmd.op = "analyze" -> "stream"
                    [] OTHER -> "write"

BlankBoard(t) ==                            \* mutant: _spawn without _replay_state
    /\ At(t, "ensure")
    /\ IF Working THEN UNCHANGED proc ELSE proc' = Fresh
    /\ Goto(t, AfterReplay(t))
    /\ UNCHANGED <<holder, replay, faults>>

(* _ensure_alive.  The return code of a process that has just died may not *)
(* have been collected yet.                                                *)
EnsureAlive(t) ==
    /\ At(t, "ensure")
    /\ \/ proc # None /\ Goto(t, AfterReplay(t)) /\ UNCHANGED proc
       \/ /\ ~Working
          /\ proc' = Fresh
          /\ Set(t, [call[t] EXCEPT !.pc = "replay", !.step = 1])
    /\ UNCHANGED <<holder, replay, faults>>

ReplayWrite(t) ==
    /\ At(t, "replay")
    /\ proc' = Write(Script[call[t].step])
    /\ Goto(t, "replay_read")
    /\ UNCHANGED <<holder, replay, faults>>

ReplayRead(t) ==
    LET n == call[t].step IN
    /\ At(t, "replay_read") /\ proc.out # <<>>
    /\ proc' = [proc EXCEPT !.out = Tail(@)]
    /\ IF n < Len(Script) THEN Set(t, [call[t] EXCEPT !.pc = "replay", !.step = n + 1])
       ELSE Goto(t, AfterReplay(t))
    /\ UNCHANGED <<holder, replay, faults>>

(* Whether the replay was for a first attempt or a second, the exception   *)
(* leaves the half-rebuilt process in place.                               *)
ReplayFails(t) ==
    /\ At(t, "replay_read") /\ (Eof \/ TimesOut)
    /\ Finish(t)
    /\ UNCHANGED <<replay, proc>>

Started(t) ==
    /\ At(t, "return")
    /\ UNCHANGED <<replay, proc>>
    /\ Finish(t) /\ Good

-----------------------------------------------------------------------------
(* send, and what each command makes of its reply.                         *)

Send(t) ==
    /\ At(t, "write")
    /\ proc' = Write(call[t].cmd)
    /\ Goto(t, "read")
    /\ UNCHANGED <<holder, replay, faults>>

ReplyRecorded(c, r) ==                      \* mutant: the reply's text, not the stone
    CASE c.op = "clear_board" -> [replay EXCEPT !.plays = <<>>]
      [] c.op = "boardsize" -> [size |-> c.arg, plays |-> <<>>]
      [] c.op \in {"play", "genmove"} /\ r.ok -> [replay EXCEPT !.plays = Append(@, r.move)]
      [] OTHER -> replay

(* A reply to something else has no move: genmove records it all the same. *)
Recorded(c, r) ==
    CASE c.op = "clear_board" -> [replay EXCEPT !.plays = <<>>]
      [] c.op = "boardsize" -> [size |-> c.arg, plays |-> <<>>]
      [] c.op = "play" /\ r.ok -> [replay EXCEPT !.plays = Append(@, c.arg)]
      [] c.op = "genmove" /\ r.ok /\ r.move # Pass ->
             [replay EXCEPT !.plays = Append(@, r.move)]
      [] OTHER -> replay

Receive(t) ==
    /\ At(t, "read") /\ proc.out # <<>>
    /\ replay' = Recorded(call[t].cmd, Head(proc.out))
    /\ proc' = [proc EXCEPT !.out = Tail(@)]
    /\ Finish(t) /\ Good

(* Writing to a dead process breaks the pipe or, when the loop has seen it *)
(* close, resets the connection: the latter is raised, not retried.        *)
SendResets(t) ==
    /\ At(t, "write") /\ ~proc.up
    /\ Finish(t)
    /\ UNCHANGED <<replay, proc, faults>>

(* The first failure drops the process (it is left running) and tries once *)
(* more; the second is raised with the new process in place.               *)
SendFails(t) ==
    /\ At(t, "read") /\ (Eof \/ TimesOut)
    /\ IF call[t].retry
       THEN Finish(t) /\ UNCHANGED proc
       ELSE /\ proc' = None
            /\ Set(t, [call[t] EXCEPT !.pc = "ensure", !.retry = TRUE])
            /\ UNCHANGED holder
    /\ UNCHANGED replay

-----------------------------------------------------------------------------
(* analyze: no retry.  What it collects before its deadline and drains     *)
(* after it are the oldest replies, at least one; without one it kills the *)
(* process.  Only the write may raise.                                     *)

Stream(t) ==
    /\ At(t, "stream")
    /\ \/ proc' = Write(call[t].cmd) /\ Goto(t, "drain") /\ UNCHANGED holder
       \/ ~proc.up /\ Finish(t) /\ UNCHANGED proc
    /\ UNCHANGED <<replay, faults>>

Drain(t) ==
    /\ At(t, "drain")
    /\ \E n \in 1..Len(proc.out) :
          proc' = [proc EXCEPT !.out = SubSeq(@, n + 1, Len(@))]
    /\ Finish(t) /\ Good
    /\ UNCHANGED replay

KeptAlive(t) ==                             \* mutant: no forced restart
    /\ At(t, "drain") /\ (Eof \/ TimesOut)
    /\ Finish(t)
    /\ UNCHANGED <<replay, proc>>

DrainFails(t) ==
    /\ At(t, "drain") /\ (Eof \/ TimesOut)
    /\ proc' = None
    /\ Finish(t)
    /\ UNCHANGED replay

Next ==
    \/ Execute \/ Die
    \/ \E t \in Callers :
          \/ Call(t) \/ Acquire(t) \/ EnsureAlive(t)
          \/ ReplayWrite(t) \/ ReplayRead(t) \/ ReplayFails(t) \/ Started(t)
          \/ Send(t) \/ SendResets(t) \/ Receive(t) \/ SendFails(t)
          \/ Stream(t) \/ Drain(t) \/ DrainFails(t)

Spec == Init /\ [][Next]_vars

-----------------------------------------------------------------------------
(* The values of every variable of the model.                              *)
TypeOK ==
    /\ holder \in Callers \cup {None}
    /\ replay \in [size : Sizes, plays : Seq(Stones \cup {Pass, None})]
    /\ OneAtATime => None \notin Placed(replay.plays)
    /\ proc \in {None} \cup Processes
    /\ call \in [Callers ->
                   [pc : {"idle", "wait", "ensure", "replay", "replay_read", "write", "read",
                          "return", "stream", "drain"},
                    cmd : Commands \cup {None}, step : Nat, retry : BOOLEAN]]
    /\ faults \in 0..MaxFaults

OnTold == proc.board = Told /\ proc.in = <<>> /\ proc.out = <<>>

(* Whenever nobody is inside the lock, a process that lives is on the      *)
(* board its callers have been told, with nothing left in its pipes: what  *)
(* EngineSlots assumes of an adapter.  One fault, on whatever command and  *)
(* at whatever moment of it, is always recovered from.                     *)
BoardIsTold == OneAtATime /\ holder = None /\ Working => OnTold

(* A start() that returns has the process on the callers' board, either    *)
(* still running or replaced and rebuilt.                                  *)
StartMatches == \A t \in Callers : At(t, "return") /\ Working => OnTold

(* The reply a caller is about to read answers its own command, asked on   *)
(* the board its callers have been told: retries and restarts never shift  *)
(* an answer to the next question.                                         *)
AnswerIsOwn ==
    OneAtATime => \A t \in Callers : call[t].pc \in {"read", "drain"} /\ proc.out # <<>>
        => /\ Len(proc.out) = 1
           /\ proc.out[1].to = call[t].cmd /\ proc.out[1].on = Told
=============================================================================
