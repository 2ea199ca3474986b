--------------------------- MODULE MCEngineSlots ---------------------------
(* Instances of EngineSlots for TLC.  Slots are numbers, and the pool      *)
(* prefers the lower one: only games, handlers and stones are symmetric.   *)
EXTENDS EngineSlots, TLC

TaskSymmetry == Permutations(Tasks)
FullSymmetry == Permutations(Tasks) \cup Permutations(Games) \cup Permutations(Stones)
=============================================================================
