------------------------------ MODULE Reviews ------------------------------
(* The review of a game: the position after a move is rebuilt from the     *)
(* record, analysed and cached under the game's id and the move's number.  *)
(* The cache has no foreign key and nobody deletes from it; ids of games   *)
(* are used again.  The move asked for may lie ahead of the game: then the *)
(* position reached so far is what is analysed, under the number asked.    *)
(* What the engine makes of a position is in EngineSlots.                  *)
EXTENDS Naturals, FiniteSets, FiniteSetsExt, Sequences

CONSTANTS
    Plays,        \* moves
    Reviewers,    \* reviews being served at the same time
    Nothing,
    MaxReviewed,  \* bound: the largest game id
    MaxRecord,    \* bound: moves of a game, and moves asked for
    MaxBegun      \* bound: games ever begun

ReviewIds == 1..MaxReviewed
Records == UNION {[1..n -> Plays] : n \in 0..MaxRecord}
MoveNumbers == 0..MaxRecord

ASSUME ReviewsAssumption == {MaxReviewed, MaxRecord, MaxBegun} \subseteq Nat /\ Nothing \notin Records

VARIABLES
    record,     \* the moves of each game that are not undone, or Nothing
    analyses,   \* analyses: id, move number, and the position analysed
    review,     \* the handlers of analyze_game
    begun,
    altered,    \* history: ids whose game was undone or deleted
    ahead       \* history: <<id, move>> rebuilt before the game got to the move
reviewVars == <<record, analyses, review, begun, altered, ahead>>

NoReview == [at |-> "idle", id |-> 0, move |-> 0, position |-> <<>>]
InPlay == {g \in ReviewIds : record[g] # Nothing}

ReviewsInit ==
    /\ record = [g \in ReviewIds |-> Nothing]
    /\ analyses = {}
    /\ review = [r \in Reviewers |-> NoReview]
    /\ begun = 0 /\ altered = {} /\ ahead = {}

\* create_game, place_move, undo_move and delete_game, as far as they matter
BeginGame ==
    LET g == 1 + Max({0} \cup InPlay)
    IN  /\ begun < MaxBegun /\ g \in ReviewIds
        /\ begun' = begun + 1
        /\ record' = [record EXCEPT ![g] = <<>>]
        /\ UNCHANGED <<analyses, review, altered, ahead>>

PlayOn(g, p) ==
    /\ g \in InPlay /\ Len(record[g]) < MaxRecord
    /\ record' = [record EXCEPT ![g] = Append(@, p)]
    /\ UNCHANGED <<analyses, review, begun, altered, ahead>>

UndoLast(g) ==
    /\ g \in InPlay /\ record[g] # <<>>
    /\ record' = [record EXCEPT ![g] = SubSeq(@, 1, Len(@) - 1)]
    /\ altered' = altered \cup {g}
    /\ UNCHANGED <<analyses, review, begun, ahead>>

DropGame(g) ==
    /\ g \in InPlay
    /\ record' = [record EXCEPT ![g] = Nothing]
    /\ altered' = altered \cup {g}
    /\ UNCHANGED <<analyses, review, begun, ahead>>

\* analyze_game, for any number; what is cached is served as it is
Entry(g, n) == {e \in analyses : e.id = g /\ e.move = n}
Analyze(r, g, n) ==
    /\ review[r].at = "idle" /\ g \in InPlay /\ Entry(g, n) = {}
    /\ review' = [review EXCEPT ![r] = [NoReview EXCEPT !.at = "replay", !.id = g, !.move = n]]
    /\ UNCHANGED <<record, analyses, begun, altered, ahead>>

\* _replay_state_to: it stops where the record ends; of a game deleted in
\* between no move is left
Moves(g) == IF record[g] = Nothing THEN <<>> ELSE record[g]
Latest(g, n) == Moves(g)                        \* mutant: the live board
StateAt(g, n) == SubSeq(Moves(g), 1, Min({n, Len(Moves(g))}))
Replay(r) ==
    LET g == review[r].id
        n == review[r].move
    IN  /\ review[r].at = "replay"
        /\ review' = [review EXCEPT ![r].at = "engine", ![r].position = StateAt(g, n)]
        /\ ahead' = IF n > Len(Moves(g)) THEN ahead \cup {<<g, n>>} ELSE ahead
        /\ UNCHANGED <<record, analyses, begun, altered>>

\* The unique constraint lets one of two equal reviews through; the other,
\* and one whose engine fails, answers with an error
Inserted(e) == IF Entry(e.id, e.move) = {} THEN analyses \cup {e} ELSE analyses
AnalyzeDone(r) ==
    LET e == [id |-> review[r].id, move |-> review[r].move, position |-> review[r].position]
    IN  /\ review[r].at = "engine"
        /\ analyses' = Inserted(e)
        /\ review' = [review EXCEPT ![r] = NoReview]
        /\ UNCHANGED <<record, begun, altered, ahead>>

AnalyzeFails(r) ==
    /\ review[r].at # "idle"
    /\ review' = [review EXCEPT ![r] = NoReview]
    /\ UNCHANGED <<record, analyses, begun, altered, ahead>>

ReviewsNext ==
    \/ BeginGame
    \/ \E g \in ReviewIds :
        \/ \E p \in Plays : PlayOn(g, p)
        \/ UndoLast(g) \/ DropGame(g)
        \/ \E r \in Reviewers, n \in MoveNumbers : Analyze(r, g, n)
    \/ \E r \in Reviewers : Replay(r) \/ AnalyzeDone(r) \/ AnalyzeFails(r)

ReviewsSpec == ReviewsInit /\ [][ReviewsNext]_reviewVars

-----------------------------------------------------------------------------
ReviewsTypeOK ==
    /\ record \in [ReviewIds -> Records \cup {Nothing}]
    /\ analyses \subseteq [id: ReviewIds, move: MoveNumbers, position: Records]
    /\ ahead \subseteq ReviewIds \X MoveNumbers
    /\ \A r \in Reviewers :
          review[r].at \in {"idle", "replay", "engine"} /\ review[r].position \in Records

(* analysis.py, lines 68 to 73: the analysis reflects the board at the     *)
(* move asked for, in a game that only grows, whatever is played while the *)
(* position is rebuilt and its analysis cached, and however many reviews   *)
(* of the same move overlap: one entry per move.  Only a move asked for    *)
(* before it was played may show an earlier position, of the same game.    *)
ReviewOfGrowingGame ==
    \A e \in analyses :
        /\ Entry(e.id, e.move) = {e}
        /\ e.id \notin altered =>
              \E n \in 0..Len(record[e.id]) :
                  /\ e.position = SubSeq(record[e.id], 1, n)
                  /\ n <= e.move /\ (n < e.move => <<e.id, e.move>> \in ahead)
=============================================================================
