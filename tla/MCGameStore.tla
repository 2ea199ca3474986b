---------------------------- MODULE MCGameStore ----------------------------
(* Instances of GameStore for TLC, and the record it implements.           *)
EXTENDS GameStore, TLC

Abstract == INSTANCE GameRecord
                WITH Limit <- UndoLimit, record <- Replay(moves),
                     status <- db.status, winner <- db.winner, undos <- db.undo_count

(* Seen through the committed row and a replay of the moves table, the     *)
(* lock-taking operations implement GameRecord: nothing is appended to,    *)
(* taken back from or decided about a game that is over, and every commit  *)
(* is a whole round, a whole undo or a whole ending.                       *)
RefinesRecord == Abstract!Spec

ClientSymmetry == Permutations(Clients)
=============================================================================
