----------------------------- MODULE MCAccounts -----------------------------
(* Instance for TLC of the five components that deal with visitors, their  *)
(* sessions and games.  Each keeps what it needs of the rows of the        *)
(* others, so a behaviour runs one of them and leaves the others where     *)
(* they begin.                                                             *)
EXTENDS Sessions, Ownership, RateLimiter, Visits, Reports

\* One nickname plays even games against a named AI player, the other takes
\* a handicap against none; a linked account may own games of both
Setup(rank, handicap, board, player) ==
    [rank |-> rank, handicap |-> handicap, board |-> board, player |-> player]
SetupsChosen == [n \in Nicknames |-> IF n \in Admins THEN {Setup("1d", 0, 19, "master")}
                                     ELSE {Setup("5k", 2, 9, NoRow)}]

\* A counted game is won, a player resigns; the engine's own resignation
\* is the third ending
EndingsSeen == {<<"finished", "user">>, <<"resigned", "ai">>}

VARIABLE part

AccountsInit ==
    /\ part \in {"sessions", "ownership", "limiter", "visits", "reports"}
    /\ SessionsInit /\ OwnershipInit /\ LimiterInit /\ VisitsInit /\ ReportsInit

AccountsNext ==
    /\ UNCHANGED part
    /\ \/ /\ part = "sessions" /\ SessionsNext
          /\ UNCHANGED <<ownVars, limitVars, visitVars, reportVars>>
       \/ /\ part = "ownership" /\ OwnershipNext
          /\ UNCHANGED <<sessionVars, limitVars, visitVars, reportVars>>
       \/ /\ part = "limiter" /\ LimiterNext
          /\ UNCHANGED <<sessionVars, ownVars, visitVars, reportVars>>
       \/ /\ part = "visits" /\ VisitsNext
          /\ UNCHANGED <<sessionVars, ownVars, limitVars, reportVars>>
       \/ /\ part = "reports" /\ ReportsNext
          /\ UNCHANGED <<sessionVars, ownVars, limitVars, visitVars>>

AccountsSpec ==
    AccountsInit /\ [][AccountsNext]_<<part, sessionVars, ownVars, limitVars, visitVars,
                                       reportVars>>

(* The five components keep their types.                                   *)
AccountsTypeOK ==
    /\ SessionsTypeOK /\ OwnershipTypeOK /\ LimiterTypeOK /\ VisitsTypeOK /\ ReportsTypeOK
=============================================================================
