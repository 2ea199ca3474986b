----------------------------- MODULE GameRecord -----------------------------
(***************************************************************************)
(* What the lock-taking operations of services/game_service.py promise     *)
(* about one game, with no connections, caches, locks or transactions: a   *)
(* record of moves that grows by rounds, shrinks by undos the user still   *)
(* has, and is sealed, with its status and winner, when the game ends.     *)
(* GameStore implements it (the property RefinesRecord of MCGameStore).    *)
(***************************************************************************)
EXTENDS Integers, Sequences

CONSTANTS Move,       \* the moves of a record: [color, coord]
          UserColor,
          Limit,      \* UNDO_LIMIT
          None

VARIABLES record,     \* the moves that stand
          status, winner,
          undos       \* undos used up

vars == <<record, status, winner, undos>>

ByUser(m) == m.color = UserColor
Outcomes == {"finished", "resigned"} \X {"user", "ai"}

Init == /\ record \in {<<>>} \cup {<<m>> : m \in Move}
        /\ status = "active" /\ winner = None
        /\ undos = 0

(* place_move commits the user's move, alone or with the AI's reply.  A    *)
(* round without a reply ends the game: two passes, or the AI resigned.    *)
Round == /\ status = "active"
         /\ \E m \in Move : ByUser(m) /\
              \/ /\ record' = Append(record, m)
                 /\ \E o \in Outcomes : <<status', winner'>> = o
              \/ \E a \in Move : ~ByUser(a) /\
                   /\ record' = record \o <<m, a>>
                   /\ \/ UNCHANGED <<status, winner>>
                      \/ \E w \in {"user", "ai"} : <<status', winner'>> = <<"finished", w>>
         /\ UNCHANGED undos

(* undo_move takes back at least one move and costs one undo.              *)
TakeBack == /\ status = "active" /\ undos < Limit
            /\ \E n \in 0..(Len(record) - 1) : record' = SubSeq(record, 1, n)
            /\ undos' = undos + 1
            /\ UNCHANGED <<status, winner>>

(* Scoring on request or after the AI's pass, and the AI's auto-resign,    *)
(* end the game on the record as it stands.                                *)
Settle == /\ status = "active"
          /\ \E o \in Outcomes : <<status', winner'>> = o
          /\ UNCHANGED <<record, undos>>

Next == Round \/ TakeBack \/ Settle
Spec == Init /\ [][Next]_vars
=============================================================================
