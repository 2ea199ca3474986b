----------------------------- MODULE MCGoRules -----------------------------
(* Instances of GoRules for TLC.                                           *)
EXTENDS GoRules, TLC
=============================================================================
