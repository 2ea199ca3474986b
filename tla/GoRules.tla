------------------------------ MODULE GoRules ------------------------------
(***************************************************************************)
(* core/rules: what a move does to a board, which moves are refused and    *)
(* what a position is worth, as functions, and a game that plays them.     *)
(*                                                                         *)
(* Coordinates are pairs; their GTP spelling, and OUT_OF_BOUNDS with it,   *)
(* is left out.  So is play() of a resignation, which nobody calls.        *)
(* Scores are counted in half points, komi being a half-integer.           *)
(***************************************************************************)
EXTENDS Integers, FiniteSets

CONSTANTS
    Size,        \* Board.size
    Komi,        \* in half points
    None,
    MaxMoves     \* bound: length of a game

EMPTY == "."
BLACK == "B"
WHITE == "W"
Colors == {BLACK, WHITE}
Opponent(c) == IF c = BLACK THEN WHITE ELSE BLACK

Points == (0..(Size - 1)) \X (0..(Size - 1))
Boards == [Points -> Colors \cup {EMPTY}]
EmptyBoard == [p \in Points |-> EMPTY]

ASSUME RulesAssumption ==
    /\ Size \in Nat \ {0} /\ Komi \in Nat /\ MaxMoves \in Nat
    /\ None \notin Boards

-----------------------------------------------------------------------------
(* Board and captures.                                                     *)

Neighbors(p) == {q \in {<<p[1] + 1, p[2]>>, <<p[1] - 1, p[2]>>,
                        <<p[1], p[2] + 1>>, <<p[1], p[2] - 1>>} : q \in Points}

(* What a flood fill from p visits: the cells joined to p that look like   *)
(* it.  group() asks for stones, flood() for empty regions.                *)
Flood(b, p) ==
    LET fill[S \in SUBSET Points] ==
            LET more == S \cup {q \in UNION {Neighbors(r) : r \in S} : b[q] = b[p]}
            IN IF more = S THEN S ELSE fill[more]
    IN fill[{p}]

Border(S) == (UNION {Neighbors(p) : p \in S}) \ S
Liberties(b, S) == {q \in Border(S) : b[q] = EMPTY}

Place(b, p, c) == [b EXCEPT ![p] = c]
Remove(b, S) == [q \in Points |-> IF q \in S THEN EMPTY ELSE b[q]]

FirstGroupOnly(b, p, c) ==                   \* mutant: one group per move
    LET b1 == Place(b, p, c)
        dead == {q \in Neighbors(p) : b1[q] = Opponent(c) /\ Liberties(b1, Flood(b1, q)) = {}}
    IN IF dead = {} THEN {} ELSE Flood(b1, CHOOSE q \in dead : TRUE)

(* place_with_captures: the opponent's groups next to p without a liberty. *)
Captured(b, p, c) ==
    LET b1 == Place(b, p, c)
    IN UNION {Flood(b1, q) : q \in {r \in Neighbors(p) :
                  b1[r] = Opponent(c) /\ Liberties(b1, Flood(b1, r)) = {}}}

PlaceWithCaptures(b, p, c) == Remove(Place(b, p, c), Captured(b, p, c))

IsSuicide(b, p, c) ==
    /\ Captured(b, p, c) = {}
    /\ LET b1 == Place(b, p, c) IN Liberties(b1, Flood(b1, p)) = {}

-----------------------------------------------------------------------------
(* Scoring: empty regions that touch one colour only, prisoners, and the   *)
(* stones declared dead, which are both.                                   *)

AnyBorder(b, p, c) ==                        \* mutant: touching the colour is enough
    b[p] = EMPTY /\ c \in {b[q] : q \in Border(Flood(b, p))}
IsTerritory(b, p, c) ==
    b[p] = EMPTY /\ {b[q] : q \in Border(Flood(b, p))} = {c}

Territory(b, c) == {p \in Points : IsTerritory(b, p, c)}

Score(b, prisoners, dead, c) ==
    2 * (Cardinality(Territory(Remove(b, dead), c)) + prisoners[c]
            + Cardinality({p \in dead : b[p] = Opponent(c)}))
      + (IF c = WHITE THEN Komi ELSE 0)

Winner(b, prisoners, dead) ==
    IF Score(b, prisoners, dead, BLACK) > Score(b, prisoners, dead, WHITE) THEN BLACK ELSE WHITE

-----------------------------------------------------------------------------
(* A game.  laid, last and lifted are the book's view of it: how many      *)
(* stones each side has put down, the last one, and what it took.          *)

VARIABLES
    board, to_move, captures,
    previous_board,      \* ko_state
    passes,              \* consecutive_passes
    laid, last, lifted

vars == <<board, to_move, captures, previous_board, passes, laid, last, lifted>>

Init ==
    /\ board = EmptyBoard
    /\ to_move = BLACK
    /\ captures = [c \in Colors |-> 0]
    /\ previous_board = None
    /\ passes = 0
    /\ laid = [c \in Colors |-> 0]
    /\ last = None /\ lifted = {}

NoKo(p) == FALSE                             \* mutant: ko not looked for
IsKoViolation(p) == PlaceWithCaptures(board, p, to_move) = previous_board

IsLegal(p) == /\ board[p] = EMPTY
              /\ ~IsSuicide(board, p, to_move)
              /\ ~IsKoViolation(p)

IsGameOver == passes >= 2

Prisoners(c, S) == [captures EXCEPT ![c] = @ + Cardinality(S)]

Play ==
    /\ ~IsGameOver /\ laid[BLACK] + laid[WHITE] < MaxMoves
    /\ \E p \in Points :
          /\ IsLegal(p)
          /\ board' = PlaceWithCaptures(board, p, to_move)
          /\ captures' = Prisoners(to_move, Captured(board, p, to_move))
          /\ last' = p
          /\ lifted' = Captured(board, p, to_move)
    /\ previous_board' = board
    /\ to_move' = Opponent(to_move)
    /\ passes' = 0
    /\ laid' = [laid EXCEPT ![to_move] = @ + 1]

PassMove ==
    /\ ~IsGameOver
    /\ previous_board' = board
    /\ to_move' = Opponent(to_move)
    /\ passes' = passes + 1
    /\ last' = None /\ lifted' = {}
    /\ UNCHANGED <<board, captures, laid>>

Next == Play \/ PassMove
Spec == Init /\ [][Next]_vars

-----------------------------------------------------------------------------
(* The values of every variable of the model.                              *)
TypeOK ==
    /\ board \in Boards /\ previous_board \in Boards \cup {None}
    /\ to_move \in Colors /\ passes \in 0..2
    /\ captures \in [Colors -> Nat] /\ laid \in [Colors -> Nat]
    /\ last \in Points \cup {None} /\ lifted \subseteq Points

Stones(c) == {p \in Points : board[p] = c}

(* No stone is left without air: no set of one side's stones is walled in  *)
(* by the other's.  (Said without following groups or counting liberties.) *)
EveryStoneBreathes ==
    \A c \in Colors : \A S \in (SUBSET Stones(c)) \ {{}} :
        \E q \in Border(S) : board[q] # Opponent(c)

(* Every stone put down is on the board or a prisoner of the other side.   *)
StonesAccounted ==
    \A c \in Colors : laid[c] = Cardinality(Stones(c)) + captures[Opponent(c)]

(* What play leaves behind after any captures: a well-formed state in      *)
(* which every stone breathes and none was lost or counted twice.          *)
PositionIsSound == TypeOK /\ EveryStoneBreathes /\ StonesAccounted

(* Comparing whole boards forbids exactly what the book's ko forbids: to   *)
(* take back, at once, the single stone that just took a single stone.     *)
KoIsRetake ==
    \A p \in Points : board[p] = EMPTY /\ ~IsSuicide(board, p, to_move) =>
        (IsKoViolation(p) <=> lifted = {p} /\ Captured(board, p, to_move) = {last})

(* A point is a side's territory when it lies in an empty area walled in   *)
(* by that side alone, wherever the game ends.                             *)
TerritoryIsWalled ==
    IsGameOver => \A c \in Colors :
        Territory(board, c) =
            UNION {S \in SUBSET Stones(EMPTY) :
                       Border(S) # {} /\ \A q \in Border(S) : board[q] = c}

(* Counting territory and prisoners, dead stones among them, is counting   *)
(* the area each side holds when a game ends after as many stones of both. *)
Area(c, dead) ==
    LET b == Remove(board, dead)
    IN Cardinality(Territory(b, c)) + Cardinality({p \in Points : b[p] = c})

TerritoryIsArea ==
    IsGameOver /\ laid[BLACK] = laid[WHITE] =>
        \A dead \in SUBSET (Stones(BLACK) \cup Stones(WHITE)) : Cardinality(dead) <= 2 =>
            Score(board, captures, dead, BLACK) - Score(board, captures, dead, WHITE) + Komi
                = 2 * (Area(BLACK, dead) - Area(WHITE, dead))

(* score_game's territory is what one side walls in, and its result is the *)
(* one that counting the area gives.                                       *)
ScoreIsFair == TerritoryIsWalled /\ TerritoryIsArea
=============================================================================
