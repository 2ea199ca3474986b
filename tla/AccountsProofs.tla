-------------------------- MODULE AccountsProofs ----------------------------
(* The components that deal with visitors: the limiter for every limit and *)
(* window; ownership for any sessions, accounts, games and requests in     *)
(* flight; the visit counts for any workers and restarts; the sessions for *)
(* any handlers, lifetimes, flushes and failures.  What the reports show   *)
(* is proved in ReportsProofs.                                             *)
EXTENDS MCAccounts, ReportsProofs, FiniteSetTheorems, SequenceTheorems, NaturalsInduction,
        WellFoundedInduction, TLAPS

-----------------------------------------------------------------------------
(* The rate limiter.                                                       *)

(* What links the bucket to the history it has forgotten: the bucket is    *)
(* the end of the history, and all that was dropped had left the window.   *)
Dropped(k) == Len(granted[k]) - Len(bucket[k])

BucketIsTail ==
    \A k \in LimitKeys :
        /\ Dropped(k) >= 0
        /\ Len(bucket[k]) <= MaxHits
        /\ \A m \in 1..Len(bucket[k]) : bucket[k][m] = granted[k][m + Dropped(k)]

DroppedAreStale ==
    \A k \in LimitKeys : \A m \in 1..Dropped(k) : granted[k][m] < clock - Window

LimiterInv == LimiterTypeOK /\ BucketIsTail /\ DroppedAreStale /\ SlidingWindow /\ RefusedWhenFull

LEMMA InitLimiter == LimiterInit => LimiterInv
  BY LimiterAssumption DEF LimiterInit, LimiterInv, LimiterTypeOK, BucketIsTail, Dropped,
     DroppedAreStale, SlidingWindow, RefusedWhenFull

LEMMA TimeInv ==
  ASSUME LimiterInv, TimeRuns
  PROVE  LimiterInv'
<1> USE LimiterAssumption DEF LimiterInv, TimeRuns
<1>1. LimiterTypeOK'
  BY DEF LimiterTypeOK
<1>2. BucketIsTail'
  BY DEF BucketIsTail, Dropped
<1>3. DroppedAreStale'
  <2> SUFFICES ASSUME NEW k \in LimitKeys, NEW m \in 1..Dropped(k)
               PROVE  granted[k][m] < clock' - Window
    BY DEF DroppedAreStale, Dropped
  <2>1. granted[k] \in Seq(0..MaxClock) /\ m \in 1..Len(granted[k])
    BY DEF LimiterTypeOK, Dropped
  <2>2. granted[k][m] \in Int /\ clock \in Int
    BY <2>1 DEF LimiterTypeOK
  <2>3. granted[k][m] < clock - Window
    BY DEF DroppedAreStale
  <2> QED
    BY <2>2, <2>3
<1>4. SlidingWindow' /\ RefusedWhenFull'
  BY DEF SlidingWindow, RefusedWhenFull
<1> QED
  BY <1>1, <1>2, <1>3, <1>4

LEMMA CheckInv ==
  ASSUME LimiterInv, NEW k \in LimitKeys, Check(k)
  PROVE  LimiterInv'
<1> USE LimiterAssumption
<1>1. PICK n \in 0..Len(bucket[k]) :
        /\ \A m \in 1..n : Stale(bucket[k][m])
        /\ n < Len(bucket[k]) => ~Stale(bucket[k][n + 1])
        /\ LET kept == SubSeq(bucket[k], n + 1, Len(bucket[k]))
               ok == Len(kept) < MaxHits
           IN  /\ bucket' = [bucket EXCEPT ![k] = IF ok THEN Append(kept, HitAt) ELSE kept]
               /\ granted' = IF ok THEN [granted EXCEPT ![k] = Append(@, clock)] ELSE granted
               /\ verdict' = [ok |-> ok, full |-> Full(granted[k])]
        /\ UNCHANGED clock
  BY DEF Check
<1> DEFINE B == bucket[k]
           G == granted[k]
           d == Dropped(k)
           kept == SubSeq(B, n + 1, Len(B))
\* What the invariant says of this key
<1>2. /\ B \in Seq(0..MaxClock) /\ G \in Seq(0..MaxClock)
      /\ clock \in 0..MaxClock /\ clock' = clock
      /\ bucket \in [LimitKeys -> Seq(0..MaxClock)]
      /\ granted \in [LimitKeys -> Seq(0..MaxClock)]
  BY <1>1 DEF LimiterInv, LimiterTypeOK
<1>3. /\ Len(G) \in Nat /\ Len(B) \in Nat /\ d \in Nat /\ d = Len(G) - Len(B)
      /\ Len(B) <= MaxHits
      /\ n \in Nat /\ n <= Len(B)
  BY <1>2 DEF LimiterInv, BucketIsTail, Dropped
<1>4. \A m \in 1..Len(B) : B[m] = G[m + d]
  BY DEF LimiterInv, BucketIsTail
<1>5. \A m \in 1..d : G[m] < clock - Window
  BY DEF LimiterInv, DroppedAreStale
<1>6. (\A m \in 1..n : Stale(B[m])) /\ (n < Len(B) => ~Stale(B[n + 1]))
  BY <1>1
<1>7. kept \in Seq(0..MaxClock) /\ Len(kept) \in Nat /\ Len(kept) = Len(B) - n
  BY <1>2, <1>3
<1>8. \A m \in 1..Len(kept) : kept[m] = B[m + n]
  BY <1>2, <1>3
<1>9. B = bucket[k] /\ G = granted[k] /\ d = Dropped(k)
  OBVIOUS
<1>10. CASE Len(kept) < MaxHits
  <2> DEFINE B2 == Append(kept, clock)
             G2 == Append(G, clock)
  <2>1. bucket' = [bucket EXCEPT ![k] = B2] /\ granted' = [granted EXCEPT ![k] = G2]
        /\ verdict' = [ok |-> TRUE, full |-> Full(granted[k])]
    BY <1>1, <1>10 DEF HitAt
  <2> HIDE DEF B, G, d, kept
  <2>2. B2 \in Seq(0..MaxClock) /\ Len(B2) = Len(kept) + 1
    <3>1. kept \in Seq(0..MaxClock) /\ clock \in 0..MaxClock
      BY <1>2, <1>7
    <3> QED
      BY ONLY <3>1
  <2>3. (\A m \in 1..Len(kept) : B2[m] = kept[m]) /\ B2[Len(kept) + 1] = clock
    BY <1>2, <1>7
  <2>4. G2 \in Seq(0..MaxClock) /\ Len(G2) = Len(G) + 1
    BY <1>2, <1>3
  <2>5. (\A m \in 1..Len(G) : G2[m] = G[m]) /\ G2[Len(G) + 1] = clock
    BY <1>2, <1>3
  <2> HIDE DEF B2, G2
  <2>6. bucket'[k] = B2 /\ granted'[k] = G2
    BY <1>2, <2>1
  <2>7. Dropped(k)' = d + n
    <3>1. Len(G2) - Len(B2) = d + n
      BY <1>3, <1>7, <2>2, <2>4
    <3> QED
      BY <3>1, <2>6 DEF Dropped
  <2>8. \A j \in LimitKeys \ {k} : /\ bucket'[j] = bucket[j] /\ granted'[j] = granted[j]
                                   /\ Dropped(j)' = Dropped(j)
    BY <1>2, <2>1 DEF Dropped
  \* What is dropped now was dropped before, or has left the window
  <2>9. ASSUME NEW m \in 1..(d + n)
        PROVE  m \in 1..Len(G) /\ G[m] < clock - Window
    <3>1. CASE m <= d
      <4>1. m \in 1..d /\ m \in 1..Len(G)
        BY <3>1, <1>3
      <4> QED
        BY <4>1, <1>5
    <3>2. CASE m > d
      <4>1. m - d \in 1..n /\ m - d \in 1..Len(B) /\ (m - d) + d = m /\ m \in 1..Len(G)
        BY <3>2, <1>3
      <4>2. Stale(B[m - d])
        BY <1>6, <4>1
      <4>3. B[m - d] = G[m]
        BY <1>4, <4>1
      <4> QED
        BY <4>1, <4>2, <4>3 DEF Stale
    <3> QED
      BY <3>1, <3>2, <1>3
  <2>10. LimiterTypeOK'
    <3>1. verdict' \in [ok: BOOLEAN, full: BOOLEAN]
      BY <2>1 DEF Full
    <3> QED
      BY <3>1, <1>2, <2>1, <2>2, <2>4 DEF LimiterTypeOK
  <2>11. BucketIsTail'
    <3>1. d + n >= 0 /\ Len(B2) <= MaxHits
      BY <1>3, <1>7, <1>10, <2>2
    <3>2. ASSUME NEW m \in 1..Len(B2)
          PROVE  B2[m] = G2[m + (d + n)]
      <4>1. CASE m <= Len(kept)
        <5>1. /\ m \in 1..Len(kept) /\ m + n \in 1..Len(B)
              /\ m + (d + n) \in 1..Len(G) /\ (m + n) + d = m + (d + n)
          BY <4>1, <1>3, <1>7
        <5>2. kept[m] = B[m + n]
          BY <5>1, <1>8
        <5>3. B[m + n] = G[m + (d + n)]
          BY <5>1, <1>4
        <5> QED
          BY <5>1, <5>2, <5>3, <2>3, <2>5
      <4>2. CASE m > Len(kept)
        <5>1. m = Len(kept) + 1 /\ m + (d + n) = Len(G) + 1
          <6>1. /\ Len(kept) \in Nat /\ Len(B2) = Len(kept) + 1 /\ m \in 1..Len(B2)
                /\ m > Len(kept) /\ Len(kept) = Len(B) - n
                /\ Len(G) \in Nat /\ Len(B) \in Nat /\ n \in Nat /\ d = Len(G) - Len(B)
            BY <4>2, <1>3, <1>7, <2>2
          <6> QED
            BY ONLY <6>1
        <5> QED
          BY <5>1, <2>3, <2>5
      <4> QED
        BY <4>1, <4>2, <1>7
    <3>3. ASSUME NEW j \in LimitKeys
          PROVE  /\ Dropped(j)' >= 0
                 /\ Len(bucket'[j]) <= MaxHits
                 /\ \A m \in 1..Len(bucket'[j]) :
                       bucket'[j][m] = granted'[j][m + Dropped(j)']
      <4>1. CASE j = k
        BY <4>1, <3>1, <3>2, <2>6, <2>7
      <4>2. CASE j # k
        BY <4>2, <2>8 DEF BucketIsTail, LimiterInv
      <4> QED
        BY <4>1, <4>2
    <3> QED
      BY <3>3 DEF BucketIsTail
  <2>12. DroppedAreStale'
    <3>1. ASSUME NEW j \in LimitKeys, NEW m \in 1..Dropped(j)'
          PROVE  granted'[j][m] < clock' - Window
      <4>1. CASE j = k
        <5>1. m \in 1..(d + n)
          BY <4>1, <3>1, <2>7
        <5>2. G[m] < clock - Window /\ G2[m] = G[m]
          BY <5>1, <2>9, <2>5
        <5> QED
          BY <4>1, <5>2, <2>6, <1>2
      <4>2. CASE j # k
        BY <4>2, <3>1, <2>8, <1>2 DEF DroppedAreStale, LimiterInv
      <4> QED
        BY <4>1, <4>2
    <3> QED
      BY <3>1 DEF DroppedAreStale
  <2>13. SlidingWindow'
    <3>1. ASSUME NEW m \in 1..Len(G2), m + MaxHits <= Len(G2)
          PROVE  G2[m + MaxHits] > G2[m] + Window
      <4>1. CASE m + MaxHits <= Len(G)
        <5>1. m \in 1..Len(G) /\ m + MaxHits \in 1..Len(G)
          BY <4>1, <1>3, <2>4
        <5>2. G[m + MaxHits] > G[m] + Window
          BY <5>1, <4>1, <1>9 DEF LimiterInv, SlidingWindow
        <5> QED
          BY <5>1, <5>2, <2>5
      <4>2. CASE m + MaxHits > Len(G)
        <5>1. m + MaxHits = Len(G) + 1 /\ m \in 1..(d + n)
          <6>1. /\ Len(kept) \in Nat /\ Len(kept) < MaxHits /\ Len(kept) = Len(B) - n
                /\ Len(G) \in Nat /\ Len(B) \in Nat /\ n \in Nat /\ d = Len(G) - Len(B)
                /\ Len(G2) = Len(G) + 1 /\ m \in 1..Len(G2) /\ m + MaxHits <= Len(G2)
                /\ m + MaxHits > Len(G) /\ MaxHits \in Nat
            BY <4>2, <3>1, <1>3, <1>7, <1>10, <2>4
          <6> QED
            BY ONLY <6>1
        <5>2. m \in 1..Len(G) /\ G[m] < clock - Window /\ G2[m] = G[m] /\ G2[m + MaxHits] = clock
          BY <5>1, <2>9, <2>5
        <5>3. G[m] \in Int /\ clock \in Int
          BY <5>2, <1>2
        <5> QED
          BY <5>2, <5>3
      <4> QED
        BY <4>1, <4>2, <1>3, <2>4
    <3>2. ASSUME NEW j \in LimitKeys, NEW m \in 1..Len(granted'[j]),
                 m + MaxHits <= Len(granted'[j])
          PROVE  granted'[j][m + MaxHits] > granted'[j][m] + Window
      <4>1. CASE j = k
        BY <4>1, <3>1, <3>2, <2>6
      <4>2. CASE j # k
        BY <4>2, <3>2, <2>8 DEF SlidingWindow, LimiterInv
      <4> QED
        BY <4>1, <4>2
    <3> QED
      BY <3>2 DEF SlidingWindow
  <2>14. RefusedWhenFull'
    BY <2>1 DEF RefusedWhenFull
  <2> QED
    BY <2>10, <2>11, <2>12, <2>13, <2>14 DEF LimiterInv
<1>11. CASE ~(Len(kept) < MaxHits)
  <2>1. bucket' = [bucket EXCEPT ![k] = kept] /\ granted' = granted
        /\ verdict' = [ok |-> FALSE, full |-> Full(granted[k])]
    <3>1. bucket' = [bucket EXCEPT ![k] = kept]
      BY <1>1, <1>11, Zenon
    <3>2. granted' = granted
      BY <1>1, <1>11, Zenon
    <3>3. verdict' = [ok |-> Len(kept) < MaxHits, full |-> Full(granted[k])]
      BY <1>1, Zenon
    <3>4. (Len(kept) < MaxHits) = FALSE
      BY <1>11
    <3> HIDE DEF kept
    <3> QED
      BY <3>1, <3>2, <3>3, <3>4
  <2> HIDE DEF B, G, d, kept
  \* Nothing was dropped: the bucket is full of hits that are not stale
  <2>2. n = 0 /\ Len(B) = MaxHits /\ Len(kept) = Len(B)
    BY <1>3, <1>7, <1>11
  <2>3. \A m \in 1..Len(kept) : kept[m] = B[m]
    BY <2>2, <1>8, <1>7
  <2>4. bucket'[k] = kept
    BY <1>2, <2>1
  <2>5. \A j \in LimitKeys : /\ Len(bucket'[j]) = Len(bucket[j])
                             /\ \A m \in 1..Len(bucket[j]) : bucket'[j][m] = bucket[j][m]
    BY <1>2, <1>9, <2>1, <2>2, <2>3, <2>4
  <2>6. \A j \in LimitKeys : Dropped(j)' = Dropped(j)
    BY <2>1, <2>5 DEF Dropped
  <2>7. LimiterTypeOK'
    <3>1. verdict' \in [ok: BOOLEAN, full: BOOLEAN]
      BY <2>1 DEF Full
    <3> QED
      BY <3>1, <1>2, <1>7, <2>1 DEF LimiterTypeOK
  <2>8. BucketIsTail'
    BY <2>1, <2>5, <2>6 DEF LimiterInv, BucketIsTail
  <2>9. DroppedAreStale'
    BY <1>2, <2>1, <2>6 DEF LimiterInv, DroppedAreStale
  <2>10. SlidingWindow'
    BY <2>1 DEF LimiterInv, SlidingWindow
  <2>11. Full(granted[k])
    <3>1. 1 \in 1..Len(B) /\ n < Len(B) /\ n + 1 = 1
      BY <2>2, <1>3
    <3>2. ~Stale(B[1]) /\ B[1] = G[1 + d] /\ B[1] \in Int /\ clock \in Int
      BY <3>1, <1>2, <1>4, <1>6
    <3>3. Len(G) >= MaxHits /\ Len(G) - MaxHits + 1 = 1 + d
      BY <1>3, <2>2
    <3> QED
      BY <3>2, <3>3, <1>9 DEF Full, Stale
  <2>12. RefusedWhenFull'
    BY <2>1, <2>11 DEF RefusedWhenFull
  <2> QED
    BY <2>7, <2>8, <2>9, <2>10, <2>12 DEF LimiterInv
<1> QED
  BY <1>10, <1>11

LEMMA LimiterSteps == LimiterInv /\ [LimiterNext]_limitVars => LimiterInv'
<1> SUFFICES ASSUME LimiterInv, [LimiterNext]_limitVars
             PROVE  LimiterInv'
  OBVIOUS
<1>1. CASE TimeRuns
  BY <1>1, TimeInv
<1>2. ASSUME NEW k \in LimitKeys, Check(k)
      PROVE  LimiterInv'
  BY <1>2, CheckInv
<1>3. CASE UNCHANGED limitVars
  BY <1>3 DEF limitVars, LimiterInv, LimiterTypeOK, BucketIsTail, Dropped, DroppedAreStale,
     SlidingWindow, RefusedWhenFull
<1> QED
  BY <1>1, <1>2, <1>3 DEF LimiterNext

LEMMA LimiterInvariance == LimiterSpec => []LimiterInv
  BY InitLimiter, LimiterSteps, PTL DEF LimiterSpec

(* Every bucket and every answer has its type.                             *)
THEOREM LimiterTypeCorrect == LimiterSpec => []LimiterTypeOK
  BY LimiterInvariance, PTL DEF LimiterInv

(* Any MaxHits + 1 accepted checks of a key span more than the window,     *)
(* for every limit, window and client.                                     *)
THEOREM WindowSlides == LimiterSpec => []SlidingWindow
  BY LimiterInvariance, PTL DEF LimiterInv

(* Nobody is refused who had room in the window that ends at the check.    *)
THEOREM RefusalJustified == LimiterSpec => []RefusedWhenFull
  BY LimiterInvariance, PTL DEF LimiterInv


-----------------------------------------------------------------------------
(* Ownership is earned and stays bound.                                    *)

(* A link is one the session has had, and goes with its row.               *)
LinkIsRemembered ==
    \A s \in Owners : linked[s] # Nobody => linked[s] \in linkedTo[s] /\ s \in live

(* What the columns of a game can be, and that a game is detached only     *)
(* when its maker has ended.                                               *)
GameIsMakers ==
    \A g \in Made :
        /\ maker[g] \in Owners
        /\ game[g].account # Nobody => game[g].account \in linkedTo[maker[g]]
        /\ game[g].session # Nobody => game[g].session = maker[g] /\ maker[g] \in live
        /\ maker[g] \in live => game[g].session = maker[g]

(* What a request's copy of a session row still says of that session.      *)
RowIsHonest ==
    \A r \in Requests :
        /\ request[r].op # "idle" => request[r].who \in Owners
        /\ request[r].op \in {"relogin", "signup"} => request[r].row \in Accounts
        /\ request[r].op = "create" =>
              /\ request[r].row \in linkedTo[request[r].who] \cup {Nobody}
              /\ request[r].fresh /\ linked[request[r].who] # Nobody => request[r].row # Nobody

OwnInv ==
    /\ OwnershipTypeOK
    /\ LinkIsRemembered
    /\ GameIsMakers
    /\ RowIsHonest
    /\ LinkBindsGames

LEMMA InitOwnership == OwnershipInit => OwnInv
  BY OwnershipAssumption DEF OwnershipInit, OwnInv, OwnershipTypeOK, LinkIsRemembered,
     GameIsMakers, RowIsHonest, LinkBindsGames, Made, Idle

LEMMA ArriveInv ==
  ASSUME OwnInv, NEW s \in Owners, Arrive(s)
  PROVE  OwnInv'
<1> USE OwnershipAssumption DEF OwnInv, Arrive, ownHistory
<1>1. OwnershipTypeOK'
  BY DEF OwnershipTypeOK
<1>2. LinkIsRemembered'
  BY DEF LinkIsRemembered
<1>3. GameIsMakers'
  BY DEF GameIsMakers, Made
<1>4. RowIsHonest'
  BY DEF RowIsHonest
<1>5. LinkBindsGames'
  BY DEF LinkBindsGames, Made
<1> QED
  BY <1>1, <1>2, <1>3, <1>4, <1>5

(* Loading a row at the start of a request.                                *)
LEMMA LoadsInv ==
  ASSUME OwnInv, NEW r \in Requests, NEW s \in Owners, NEW row \in Accounts \cup {Nobody},
         NEW op \in {"create", "relogin", "signup", "unlink"},
         op \in {"relogin", "signup"} => row \in Accounts,
         op = "create" => row = linked[s],
         Loads(r, op, s, row),
         UNCHANGED <<live, linked, known, game, ownHistory>>
  PROVE  OwnInv'
<1> USE OwnershipAssumption DEF OwnInv, Loads, ownHistory
<1>1. OwnershipTypeOK'
  BY DEF OwnershipTypeOK
<1>2. LinkIsRemembered' /\ GameIsMakers' /\ LinkBindsGames'
  BY DEF LinkIsRemembered, GameIsMakers, LinkBindsGames, Made
<1>3. RowIsHonest'
  <2>1. request \in [Requests -> [op: {"idle", "create", "relogin", "signup", "unlink"},
           who: Owners \cup {Nobody}, row: Accounts \cup {Nobody}, fresh: BOOLEAN]]
    BY DEF OwnershipTypeOK
  <2>2. op = "create" => row \in linkedTo[s] \cup {Nobody} /\ (linked[s] # Nobody => row # Nobody)
    BY DEF LinkIsRemembered
  <2> QED
    BY <2>1, <2>2 DEF RowIsHonest
<1> QED
  BY <1>1, <1>2, <1>3

LEMMA FinishInv ==
  ASSUME OwnInv, NEW r \in Requests, Refused(r)
  PROVE  OwnInv'
<1> USE OwnershipAssumption DEF OwnInv, Refused, Finish, ownHistory
<1>1. OwnershipTypeOK'
  BY DEF OwnershipTypeOK, Idle
<1>2. LinkIsRemembered' /\ GameIsMakers' /\ LinkBindsGames'
  BY DEF LinkIsRemembered, GameIsMakers, LinkBindsGames, Made
<1>3. RowIsHonest'
  BY DEF RowIsHonest, OwnershipTypeOK, Idle
<1> QED
  BY <1>1, <1>2, <1>3

LEMMA CreateInv ==
  ASSUME OwnInv, NEW r \in Requests, NEW g \in Games, CreateGame(r, g)
  PROVE  OwnInv'
<1> DEFINE who == request[r].who
           row == request[r].row
           made == [session |-> who, account |-> row]
<1> USE OwnershipAssumption
<1>1. /\ game \in [Games -> GameRows \cup {Nobody}]
      /\ maker \in [Games -> Owners \cup {Nobody}]
      /\ linkedTo \in [Owners -> SUBSET Accounts]
      /\ linked \in [Owners -> Accounts \cup {Nobody}]
      /\ live \subseteq Owners /\ late \subseteq Games
      /\ row \in Accounts \cup {Nobody}
  BY DEF OwnInv, OwnershipTypeOK
<1>2. /\ who \in Owners /\ who \in live
      /\ row \in linkedTo[who] \cup {Nobody}
      /\ request[r].fresh /\ linked[who] # Nobody => row # Nobody
  BY DEF CreateGame, OwnInv, RowIsHonest
<1>3. game' = [game EXCEPT ![g] = made] /\ maker' = [maker EXCEPT ![g] = who]
  BY DEF CreateGame
<1>4. late' = IF request[r].fresh THEN late ELSE late \cup {g}
  BY DEF CreateGame
<1>5. request' = [request EXCEPT ![r] = Idle]
      /\ live' = live /\ linked' = linked /\ known' = known /\ linkedTo' = linkedTo
  BY DEF CreateGame, Finish
<1>6. made \in GameRows /\ made.session = who /\ made.account = row
  BY <1>1, <1>2 DEF GameRows
<1>7. game'[g] = made /\ maker'[g] = who
      /\ \A h \in Games \ {g} : game'[h] = game[h] /\ maker'[h] = maker[h]
  BY <1>1, <1>3
<1>8. OwnershipTypeOK'
  <2>1. game' \in [Games -> GameRows \cup {Nobody}] /\ maker' \in [Games -> Owners \cup {Nobody}]
    BY <1>1, <1>2, <1>3, <1>6
  <2>2. late' \subseteq Games
    BY <1>1, <1>4
  <2>3. request' \in [Requests -> [op: {"idle", "create", "relogin", "signup", "unlink"},
           who: Owners \cup {Nobody}, row: Accounts \cup {Nobody}, fresh: BOOLEAN]]
    BY <1>5 DEF OwnInv, OwnershipTypeOK, Idle
  <2> QED
    BY <2>1, <2>2, <2>3, <1>5 DEF OwnInv, OwnershipTypeOK
<1>9. LinkIsRemembered'
  BY <1>5 DEF OwnInv, LinkIsRemembered
<1>10. RowIsHonest'
  BY <1>5 DEF OwnInv, RowIsHonest, OwnershipTypeOK, Idle
<1>11. GameIsMakers'
  <2>1. ASSUME NEW h \in Games, game'[h] # Nobody
        PROVE  /\ maker'[h] \in Owners
               /\ game'[h].account # Nobody => game'[h].account \in linkedTo[maker'[h]]
               /\ game'[h].session # Nobody => game'[h].session = maker'[h] /\ maker'[h] \in live
               /\ maker'[h] \in live => game'[h].session = maker'[h]
    <3>1. CASE h = g
      BY <3>1, <1>2, <1>6, <1>7
    <3>2. CASE h # g
      BY <3>2, <2>1, <1>7 DEF OwnInv, GameIsMakers, Made
    <3> QED
      BY <3>1, <3>2
  <2> QED
    BY <2>1, <1>5 DEF GameIsMakers, Made
<1>12. LinkBindsGames'
  <2>1. ASSUME NEW h \in Games, game'[h] # Nobody, h \notin late',
               maker'[h] \in live, linked[maker'[h]] # Nobody
        PROVE  game'[h].account # Nobody
    <3>1. CASE h = g
      <4>1. request[r].fresh
        BY <3>1, <2>1, <1>4
      <4> QED
        BY <3>1, <4>1, <2>1, <1>2, <1>6, <1>7
    <3>2. CASE h # g
      <4>1. h \notin late
        BY <2>1, <1>4
      <4> QED
        BY <3>2, <4>1, <2>1, <1>7 DEF OwnInv, LinkBindsGames, Made
    <3> QED
      BY <3>1, <3>2
  <2> QED
    BY <2>1, <1>5 DEF LinkBindsGames, Made
<1> QED
  BY <1>8, <1>9, <1>10, <1>11, <1>12 DEF OwnInv

LEMMA RemoveInv ==
  ASSUME OwnInv, NEW g \in Games, NEW s \in Owners, RemoveGame(g, s)
  PROVE  OwnInv'
<1> USE OwnershipAssumption DEF OwnInv, RemoveGame, ownHistory
<1>1. OwnershipTypeOK'
  BY DEF OwnershipTypeOK
<1>2. LinkIsRemembered' /\ RowIsHonest'
  BY DEF LinkIsRemembered, RowIsHonest
<1>3. \A h \in Games : game'[h] # Nobody => h \in Made /\ game'[h] = game[h]
  BY DEF OwnershipTypeOK, Made
<1>4. GameIsMakers' /\ LinkBindsGames'
  BY <1>3 DEF GameIsMakers, LinkBindsGames, Made
<1> QED
  BY <1>1, <1>2, <1>4

LEMMA UnlinkInv ==
  ASSUME OwnInv, NEW r \in Requests, Unlink(r)
  PROVE  OwnInv'
<1> USE OwnershipAssumption
<1>1. /\ linked \in [Owners -> Accounts \cup {Nobody}]
      /\ request' = [request EXCEPT ![r] = Idle]
      /\ live' = live /\ known' = known /\ game' = game
      /\ maker' = maker /\ linkedTo' = linkedTo /\ late' = late
  BY DEF OwnInv, OwnershipTypeOK, Unlink, Finish, ownHistory
<1>2. linked' \in [Owners -> Accounts \cup {Nobody}]
  BY <1>1 DEF Unlink
<1>3. \A s \in Owners : linked'[s] # Nobody => linked'[s] = linked[s]
  BY <1>1 DEF Unlink
<1>4. OwnershipTypeOK'
  <2>1. request' \in [Requests -> [op: {"idle", "create", "relogin", "signup", "unlink"},
           who: Owners \cup {Nobody}, row: Accounts \cup {Nobody}, fresh: BOOLEAN]]
    BY <1>1 DEF OwnInv, OwnershipTypeOK, Idle
  <2> QED
    BY <2>1, <1>1, <1>2 DEF OwnInv, OwnershipTypeOK
<1>5. LinkIsRemembered'
  BY <1>1, <1>3 DEF OwnInv, LinkIsRemembered
<1>6. GameIsMakers'
  BY <1>1 DEF OwnInv, GameIsMakers, Made
<1>7. RowIsHonest'
  <2>1. ASSUME NEW q \in Requests, request'[q].op # "idle"
        PROVE  q # r /\ request'[q] = request[q] /\ request[q].who \in Owners
    BY <2>1, <1>1 DEF OwnInv, OwnershipTypeOK, RowIsHonest, Idle
  <2>2. ASSUME NEW q \in Requests, request'[q].op = "create",
               request'[q].fresh, linked'[request'[q].who] # Nobody
        PROVE  request'[q].row # Nobody
    BY <2>1, <2>2, <1>3 DEF OwnInv, RowIsHonest
  <2>3. ASSUME NEW q \in Requests, request'[q].op = "create"
        PROVE  request'[q].row \in linkedTo[request'[q].who] \cup {Nobody}
    BY <2>1, <2>3 DEF OwnInv, RowIsHonest
  <2>4. ASSUME NEW q \in Requests, request'[q].op \in {"relogin", "signup"}
        PROVE  request'[q].row \in Accounts
    BY <2>1, <2>4 DEF OwnInv, RowIsHonest
  <2> QED
    BY <2>1, <2>2, <2>3, <2>4, <1>1 DEF RowIsHonest
<1>8. LinkBindsGames'
  BY <1>1, <1>3 DEF OwnInv, LinkBindsGames, GameIsMakers, Made
<1> QED
  BY <1>4, <1>5, <1>6, <1>7, <1>8 DEF OwnInv

LEMMA EndInv ==
  ASSUME OwnInv, NEW s \in Owners, SessionEnds(s)
  PROVE  OwnInv'
<1> USE OwnershipAssumption
<1>1. /\ game \in [Games -> GameRows \cup {Nobody}]
      /\ maker \in [Games -> Owners \cup {Nobody}]
      /\ linked \in [Owners -> Accounts \cup {Nobody}]
      /\ live' = live \ {s} /\ linked' = [linked EXCEPT ![s] = Nobody]
      /\ known' = known /\ request' = request
      /\ maker' = maker /\ linkedTo' = linkedTo /\ late' = late
  BY DEF OwnInv, OwnershipTypeOK, SessionEnds, Leave, ownHistory
<1>2. game' = [g \in Games |-> IF g \in Made /\ game[g].session = s
                               THEN [game[g] EXCEPT !.session = Nobody] ELSE game[g]]
  BY DEF SessionEnds, Leave
<1>3. ASSUME NEW g \in Games
      PROVE  /\ game'[g] # Nobody <=> g \in Made
             /\ game'[g] \in GameRows \cup {Nobody}
             /\ g \in Made => /\ game'[g].account = game[g].account
                              /\ game[g].session = s => game'[g].session = Nobody
                              /\ game[g].session # s => game'[g].session = game[g].session
  <2>1. CASE g \in Made /\ game[g].session = s
    <3>1. game'[g] = [game[g] EXCEPT !.session = Nobody] /\ game[g] \in GameRows
      BY <2>1, <1>1, <1>2 DEF Made
    <3>2. game'[g] \in GameRows /\ game'[g].account = game[g].account /\ game'[g].session = Nobody
      BY <3>1 DEF GameRows
    <3>3. game'[g] # Nobody
      BY <3>2
    <3> QED
      BY <2>1, <3>2, <3>3
  <2>2. CASE ~(g \in Made /\ game[g].session = s)
    BY <2>2, <1>1, <1>2 DEF Made
  <2> QED
    BY <2>1, <2>2
<1>4. linked'[s] = Nobody /\ \A t \in Owners \ {s} : linked'[t] = linked[t]
  BY <1>1
<1>5. OwnershipTypeOK'
  <2>1. game' \in [Games -> GameRows \cup {Nobody}]
    <3>1. DOMAIN game' = Games /\ game' = [g \in Games |-> game'[g]]
      BY <1>2
    <3> QED
      BY <3>1, <1>3
  <2> QED
    BY <2>1, <1>1 DEF OwnInv, OwnershipTypeOK
<1>6. LinkIsRemembered'
  BY <1>1, <1>4 DEF OwnInv, LinkIsRemembered
<1>7. GameIsMakers'
  <2>1. ASSUME NEW g \in Made
        PROVE  /\ maker[g] \in Owners
               /\ game'[g].account # Nobody => game'[g].account \in linkedTo[maker[g]]
               /\ game'[g].session # Nobody => game'[g].session = maker[g] /\ maker[g] \in live'
               /\ maker[g] \in live' => game'[g].session = maker[g]
    <3>1. g \in Games
      BY DEF Made
    <3>2. /\ maker[g] \in Owners
          /\ game[g].account # Nobody => game[g].account \in linkedTo[maker[g]]
          /\ game[g].session # Nobody => game[g].session = maker[g] /\ maker[g] \in live
          /\ maker[g] \in live => game[g].session = maker[g]
      BY DEF OwnInv, GameIsMakers
    <3>3. /\ game'[g].account = game[g].account
          /\ game[g].session = s => game'[g].session = Nobody
          /\ game[g].session # s => game'[g].session = game[g].session
      BY <3>1, <1>3
    <3> QED
      BY <3>2, <3>3, <1>1
  <2> QED
    BY <2>1, <1>1, <1>3 DEF GameIsMakers, Made
<1>8. RowIsHonest'
  <2>1. ASSUME NEW q \in Requests, request[q].op = "create", linked'[request[q].who] # Nobody
        PROVE  linked[request[q].who] # Nobody
    BY <2>1, <1>4 DEF OwnInv, RowIsHonest
  <2> QED
    BY <2>1, <1>1 DEF OwnInv, RowIsHonest
<1>9. LinkBindsGames'
  <2>1. ASSUME NEW g \in Made \ late, maker[g] \in live', linked'[maker[g]] # Nobody
        PROVE  game'[g].account # Nobody
    <3>1. g \in Games /\ maker[g] \in Owners /\ maker[g] # s
      BY <2>1, <1>1 DEF Made, OwnInv, GameIsMakers
    <3>2. maker[g] \in live /\ linked[maker[g]] # Nobody
      BY <2>1, <3>1, <1>1, <1>4
    <3> QED
      BY <3>1, <3>2, <1>3 DEF OwnInv, LinkBindsGames
  <2> QED
    BY <2>1, <1>1, <1>3 DEF LinkBindsGames, Made
<1> QED
  BY <1>5, <1>6, <1>7, <1>8, <1>9 DEF OwnInv

LEMMA CallbackInv ==
  ASSUME OwnInv, NEW r \in Requests, NEW s \in Owners, Callback(r, s)
  PROVE  OwnInv'
<1> USE OwnershipAssumption
<1> DEFINE a == request[r].row
<1>1. /\ game \in [Games -> GameRows \cup {Nobody}]
      /\ maker \in [Games -> Owners \cup {Nobody}]
      /\ linked \in [Owners -> Accounts \cup {Nobody}]
      /\ linkedTo \in [Owners -> SUBSET Accounts]
      /\ live \subseteq Owners
      /\ request \in [Requests -> [op: {"idle", "create", "relogin", "signup", "unlink"},
           who: Owners \cup {Nobody}, row: Accounts \cup {Nobody}, fresh: BOOLEAN]]
  BY DEF OwnInv, OwnershipTypeOK
<1>2. a \in Accounts /\ a # Nobody
  BY DEF Callback, OwnInv, RowIsHonest
<1>3. /\ live' = live \cup {s} /\ linked' = [linked EXCEPT ![s] = a]
      /\ linkedTo' = [linkedTo EXCEPT ![s] = @ \cup {a}]
      /\ known' = known \cup {a} /\ maker' = maker /\ late' = late
  BY DEF Callback
<1>4. game' = [g \in Games |->
                  IF g \in Made /\ game[g].session = s /\ game[g].account = Nobody
                  THEN [game[g] EXCEPT !.account = a] ELSE game[g]]
  BY DEF Callback, Bound
<1>5. request' = [q \in Requests |->
                     IF q = r THEN Idle
                     ELSE IF request[q].who = s THEN [request[q] EXCEPT !.fresh = FALSE]
                     ELSE request[q]]
  BY DEF Callback
<1>6. s \in live \/ \A g \in Games : maker[g] # s
  BY DEF Callback
<1> HIDE DEF a
<1>7. /\ linked'[s] = a /\ \A t \in Owners \ {s} : linked'[t] = linked[t]
      /\ linkedTo'[s] = linkedTo[s] \cup {a}
      /\ \A t \in Owners \ {s} : linkedTo'[t] = linkedTo[t]
      /\ \A t \in Owners : linkedTo[t] \subseteq linkedTo'[t]
  BY <1>1, <1>3
<1>8. ASSUME NEW g \in Games
      PROVE  /\ game'[g] # Nobody <=> g \in Made
             /\ game'[g] \in GameRows \cup {Nobody}
             /\ g \in Made =>
                   /\ game'[g].session = game[g].session
                   /\ \/ game'[g].account = game[g].account
                      \/ game[g].session = s /\ game'[g].account = a
                   /\ game[g].session = s => game'[g].account # Nobody
                   /\ game[g].account # Nobody => game'[g].account = game[g].account
  <2>1. CASE g \in Made /\ game[g].session = s /\ game[g].account = Nobody
    <3>1. game'[g] = [game[g] EXCEPT !.account = a] /\ game[g] \in GameRows
      BY <2>1, <1>1, <1>4 DEF Made
    <3>2. game'[g] \in GameRows /\ game'[g].session = game[g].session /\ game'[g].account = a
      BY <3>1, <1>2 DEF GameRows
    <3>3. game'[g] # Nobody
      BY <3>2
    <3> QED
      BY <2>1, <3>2, <3>3, <1>2
  <2>2. CASE ~(g \in Made /\ game[g].session = s /\ game[g].account = Nobody)
    BY <2>2, <1>1, <1>4 DEF Made
  <2> QED
    BY <2>1, <2>2
<1>9. ASSUME NEW q \in Requests
      PROVE  \/ request'[q] = Idle
             \/ request'[q] = request[q] /\ request[q].who # s
             \/ /\ request[q].who = s /\ request'[q].who = s /\ ~request'[q].fresh
                /\ request'[q].op = request[q].op /\ request'[q].row = request[q].row
  BY <1>1, <1>5
<1>10. OwnershipTypeOK'
  <2>1. game' \in [Games -> GameRows \cup {Nobody}]
    <3>1. DOMAIN game' = Games /\ game' = [g \in Games |-> game'[g]]
      BY <1>4
    <3> QED
      BY <3>1, <1>8
  <2>2. request' \in [Requests -> [op: {"idle", "create", "relogin", "signup", "unlink"},
           who: Owners \cup {Nobody}, row: Accounts \cup {Nobody}, fresh: BOOLEAN]]
    <3> DEFINE R == [op: {"idle", "create", "relogin", "signup", "unlink"},
                     who: Owners \cup {Nobody}, row: Accounts \cup {Nobody}, fresh: BOOLEAN]
    <3>1. Idle \in R
      BY DEF Idle
    <3>2. ASSUME NEW q \in Requests
          PROVE  request[q] \in R /\ [request[q] EXCEPT !.fresh = FALSE] \in R
      BY <1>1
    <3> HIDE DEF R
    <3>3. ASSUME NEW q \in Requests
          PROVE  request'[q] \in R
      BY <3>1, <3>2, <1>5
    <3>4. request' = [q \in Requests |-> request'[q]]
      BY <1>5
    <3>5. request' \in [Requests -> R]
      BY <3>3, <3>4
    <3> QED
      BY <3>5 DEF R
  <2>3. linked' \in [Owners -> Accounts \cup {Nobody}] /\ linkedTo' \in [Owners -> SUBSET Accounts]
    BY <1>1, <1>2, <1>3
  <2> QED
    BY <2>1, <2>2, <2>3, <1>1, <1>2, <1>3 DEF OwnInv, OwnershipTypeOK
<1>11. LinkIsRemembered'
  <2>1. ASSUME NEW t \in Owners, linked'[t] # Nobody
        PROVE  linked'[t] \in linkedTo'[t] /\ t \in live'
    <3>1. CASE t = s
      BY <3>1, <1>3, <1>7
    <3>2. CASE t # s
      BY <3>2, <2>1, <1>3, <1>7 DEF OwnInv, LinkIsRemembered
    <3> QED
      BY <3>1, <3>2
  <2> QED
    BY <2>1 DEF LinkIsRemembered
<1>12. GameIsMakers'
  <2>1. ASSUME NEW g \in Made
        PROVE  /\ maker[g] \in Owners
               /\ game'[g].account # Nobody => game'[g].account \in linkedTo'[maker[g]]
               /\ game'[g].session # Nobody => game'[g].session = maker[g] /\ maker[g] \in live'
               /\ maker[g] \in live' => game'[g].session = maker[g]
    <3>1. g \in Games /\ maker[g] \in Owners
      BY DEF Made, OwnInv, GameIsMakers
    <3>2. game[g].session = s => maker[g] = s
      BY DEF OwnInv, GameIsMakers
    <3>3. game'[g].account # Nobody => game'[g].account \in linkedTo'[maker[g]]
      BY <3>1, <3>2, <1>7, <1>8 DEF OwnInv, GameIsMakers
    <3>4. maker[g] \in live' => maker[g] \in live
      BY <3>1, <1>3, <1>6
    <3> QED
      BY <3>1, <3>3, <3>4, <1>3, <1>8 DEF OwnInv, GameIsMakers
  <2> QED
    BY <2>1, <1>3, <1>8 DEF GameIsMakers, Made
<1>13. RowIsHonest'
  <2>1. ASSUME NEW q \in Requests, request'[q].op # "idle"
        PROVE  /\ request'[q].op = request[q].op /\ request'[q].row = request[q].row
               /\ request'[q].who = request[q].who /\ request[q].who \in Owners
               /\ request'[q].fresh => request[q].fresh /\ request[q].who # s
    BY <2>1, <1>9 DEF OwnInv, RowIsHonest, Idle
  <2>2. ASSUME NEW q \in Requests, request'[q].op \in {"relogin", "signup"}
        PROVE  request'[q].row \in Accounts
    BY <2>1, <2>2 DEF OwnInv, RowIsHonest
  <2>3. ASSUME NEW q \in Requests, request'[q].op = "create"
        PROVE  request'[q].row \in linkedTo'[request'[q].who] \cup {Nobody}
    BY <2>1, <2>3, <1>7 DEF OwnInv, RowIsHonest
  <2>4. ASSUME NEW q \in Requests, request'[q].op = "create",
               request'[q].fresh, linked'[request'[q].who] # Nobody
        PROVE  request'[q].row # Nobody
    BY <2>1, <2>4, <1>7 DEF OwnInv, RowIsHonest
  <2> QED
    BY <2>1, <2>2, <2>3, <2>4 DEF RowIsHonest
<1>14. LinkBindsGames'
  <2>1. ASSUME NEW g \in Made \ late, maker[g] \in live', linked'[maker[g]] # Nobody
        PROVE  game'[g].account # Nobody
    <3>1. g \in Games /\ maker[g] \in Owners
      BY DEF Made, OwnInv, GameIsMakers
    <3>2. maker[g] \in live
      BY <2>1, <3>1, <1>3, <1>6
    <3>3. CASE maker[g] = s
      <4>1. game[g].session = s
        BY <3>2, <3>3 DEF OwnInv, GameIsMakers
      <4> QED
        BY <4>1, <3>1, <1>8
    <3>4. CASE maker[g] # s
      <4>1. linked[maker[g]] # Nobody
        BY <2>1, <3>1, <3>4, <1>7
      <4>2. game[g].account # Nobody
        BY <4>1, <3>2 DEF OwnInv, LinkBindsGames
      <4> QED
        BY <4>2, <3>1, <1>8
    <3> QED
      BY <3>3, <3>4
  <2> QED
    BY <2>1, <1>3, <1>8 DEF LinkBindsGames, Made
<1> QED
  BY <1>10, <1>11, <1>12, <1>13, <1>14 DEF OwnInv

LEMMA OwnershipSteps == OwnInv /\ [OwnershipNext]_ownVars => OwnInv'
<1> SUFFICES ASSUME OwnInv, [OwnershipNext]_ownVars
             PROVE  OwnInv'
  OBVIOUS
<1>1. ASSUME NEW s \in Owners, Arrive(s) \/ SessionEnds(s)
      PROVE  OwnInv'
  BY <1>1, ArriveInv, EndInv
<1>2. ASSUME NEW r \in Requests, NEW s \in Owners, StartGame(r, s) \/ StartUnlink(r, s)
      PROVE  OwnInv'
  <2>1. linked[s] \in Accounts \cup {Nobody}
    BY DEF OwnInv, OwnershipTypeOK
  <2> QED
    BY <1>2, <2>1, LoadsInv DEF StartGame, StartUnlink
<1>3. ASSUME NEW r \in Requests, NEW s \in Owners, NEW a \in Accounts, StartCallback(r, s, a)
      PROVE  OwnInv'
  <2>1. CASE a \in known
    <3>1. Loads(r, "relogin", s, a) /\ UNCHANGED <<live, linked, known, game, ownHistory>>
      BY <1>3, <2>1 DEF StartCallback
    <3> QED
      BY <3>1, LoadsInv
  <2>2. CASE a \notin known
    <3>1. Loads(r, "signup", s, a) /\ UNCHANGED <<live, linked, known, game, ownHistory>>
      BY <1>3, <2>2 DEF StartCallback
    <3> QED
      BY <3>1, LoadsInv
  <2> QED
    BY <2>1, <2>2
<1>4. ASSUME NEW r \in Requests, NEW s \in Owners, Callback(r, s)
      PROVE  OwnInv'
  BY <1>4, CallbackInv
<1>5. ASSUME NEW r \in Requests, Unlink(r) \/ Refused(r)
      PROVE  OwnInv'
  BY <1>5, UnlinkInv, FinishInv
<1>6. ASSUME NEW r \in Requests, NEW g \in Games, CreateGame(r, g)
      PROVE  OwnInv'
  BY <1>6, CreateInv
<1>7. ASSUME NEW g \in Games, NEW s \in Owners, RemoveGame(g, s)
      PROVE  OwnInv'
  BY <1>7, RemoveInv
<1>8. CASE UNCHANGED ownVars
  BY <1>8 DEF ownVars, OwnInv, OwnershipTypeOK, LinkIsRemembered, GameIsMakers, RowIsHonest,
     LinkBindsGames, Made
<1> QED
  BY <1>1, <1>2, <1>3, <1>4, <1>5, <1>6, <1>7, <1>8 DEF OwnershipNext

LEMMA OwnershipInvariance == OwnershipSpec => []OwnInv
  BY InitOwnership, OwnershipSteps, PTL DEF OwnershipSpec

LEMMA EarnedInInv == OwnInv => OwnershipIsEarned
<1> SUFFICES ASSUME OwnInv, NEW g \in Made, NEW s \in live, Owns(g, s)
             PROVE  s = maker[g] \/ linked[s] \in linkedTo[maker[g]]
  BY DEF OwnershipIsEarned
<1>1. s # Nobody
  BY OwnershipAssumption DEF OwnInv, OwnershipTypeOK
<1>2. /\ game[g].account # Nobody => game[g].account \in linkedTo[maker[g]]
      /\ game[g].session # Nobody => game[g].session = maker[g]
  BY DEF OwnInv, GameIsMakers
<1> QED
  BY <1>1, <1>2 DEF Owns

LEMMA StepBound ==
  ASSUME OwnInv, [OwnershipNext]_ownVars, NEW g \in Made, game[g].account # Nobody
  PROVE  game'[g] = Nobody \/ game'[g].account = game[g].account
<1>1. game \in [Games -> GameRows \cup {Nobody}] /\ g \in Games /\ game[g] # Nobody
  BY DEF OwnInv, OwnershipTypeOK, Made
<1>2. CASE game' = game
  BY <1>2
<1>3. ASSUME NEW r \in Requests, NEW h \in Games, CreateGame(r, h)
      PROVE  game'[g] = game[g]
  BY <1>1, <1>3 DEF CreateGame
<1>4. ASSUME NEW h \in Games, NEW s \in Owners, RemoveGame(h, s)
      PROVE  game'[g] = Nobody \/ game'[g] = game[g]
  BY <1>1, <1>4 DEF RemoveGame
<1>5. ASSUME NEW r \in Requests, NEW s \in Owners, Callback(r, s)
      PROVE  game'[g] = game[g]
  BY <1>1, <1>5 DEF Callback, Bound
<1>6. ASSUME NEW s \in Owners, SessionEnds(s)
      PROVE  game'[g].account = game[g].account
  <2>1. CASE game[g].session = s
    <3>1. game'[g] = [game[g] EXCEPT !.session = Nobody] /\ game[g] \in GameRows
      BY <2>1, <1>1, <1>6 DEF SessionEnds, Leave
    <3> QED
      BY <3>1 DEF GameRows
  <2>2. CASE game[g].session # s
    BY <2>2, <1>1, <1>6 DEF SessionEnds, Leave
  <2> QED
    BY <2>1, <2>2
<1>7. OwnershipNext => \/ game' = game
                       \/ \E r \in Requests, h \in Games : CreateGame(r, h)
                       \/ \E h \in Games, s \in Owners : RemoveGame(h, s)
                       \/ \E r \in Requests, s \in Owners : Callback(r, s)
                       \/ \E s \in Owners : SessionEnds(s)
  BY DEF OwnershipNext, Arrive, StartGame, StartUnlink, StartCallback, Unlink, Refused
<1> QED
  BY <1>2, <1>3, <1>4, <1>5, <1>6, <1>7 DEF ownVars

(* Every column and every request's copy of one has its type.              *)
THEOREM OwnershipTypeCorrect == OwnershipSpec => []OwnershipTypeOK
  BY OwnershipInvariance, PTL DEF OwnInv

(* A session may open only its own games and those of accounts their       *)
(* makers were linked to, whatever links, unlinks, ends and stale rows     *)
(* come between.                                                           *)
THEOREM Earned == OwnershipSpec => []OwnershipIsEarned
  BY OwnershipInvariance, EarnedInInv, PTL

(* Linking binds every game of the session, but for the ones still being   *)
(* created on the row of before the link.                                  *)
THEOREM LinkBinds == OwnershipSpec => []LinkBindsGames
  BY OwnershipInvariance, PTL DEF OwnInv

(* A bound game stays with its account until it is deleted.                *)
THEOREM BoundForGood == OwnershipSpec => BoundStays
<1>1. OwnInv /\ [OwnershipNext]_ownVars =>
        [\A g \in Made : game[g].account # Nobody =>
            game'[g] = Nobody \/ game'[g].account = game[g].account]_game
  BY StepBound
<1> QED
  BY <1>1, OwnershipInvariance, PTL DEF OwnershipSpec, BoundStays


-----------------------------------------------------------------------------
(* The visit counts.                                                       *)

(* A request may still be using the day's salt.                            *)
Recent(d) == DayOf(instant) <= d + 1

BeaconType == [at: {"idle", "select", "insert", "reselect", "record"},
               worker: Workers \cup {NoSalt}, visitor: Visitors \cup {NoSalt},
               day: Days, salt: Salts \cup {NoSalt}]

VisitTypes ==
    /\ instant \in Instants /\ draws \in 0..MaxDraws
    /\ saltOf \in [Days -> Salts \cup {NoSalt}]
    /\ cached \in [Workers -> [Days -> Salts \cup {NoSalt}]]
    /\ hits \in SUBSET [visitor: Visitors, salt: Salts, created: Instants, read: Days]
    /\ IsFiniteSet(hits)
    /\ beacon \in [Beacons -> BeaconType]

(* A salt that was drawn, is nobody's yet, and no other request has.       *)
Drawn(b) ==
    /\ beacon[b].salt \in 1..draws
    /\ \A d \in Days : saltOf[d] # beacon[b].salt
    /\ \A h \in hits : h.salt # beacon[b].salt
    /\ \A c \in Beacons \ {b} : beacon[c].at = "insert" => beacon[c].salt # beacon[b].salt

BeaconInv(b) ==
    /\ beacon[b].at # "idle" =>
          Recent(beacon[b].day) /\ beacon[b].visitor \in Visitors /\ beacon[b].worker \in Workers
    /\ beacon[b].at = "insert" => Drawn(b)
    /\ beacon[b].at = "reselect" => saltOf[beacon[b].day] # NoSalt
    /\ beacon[b].at = "record" => beacon[b].salt # NoSalt /\ saltOf[beacon[b].day] = beacon[b].salt

(* A hit was hashed with its day's salt, which is on record as long as it  *)
(* may be asked for, and with no other day's.                              *)
HitInv(h) ==
    /\ h.salt \in 1..draws
    /\ \A d \in Days : saltOf[d] = h.salt => d = h.read
    /\ saltOf[h.read] \in {h.salt, NoSalt}
    /\ Recent(h.read) \/ h.read = DayOf(h.created) => saltOf[h.read] = h.salt

(* All hits of a day have one salt, which is no other day's.               *)
OneSalt == \A h, k \in hits : k.read = h.read <=> k.salt = h.salt

SaltInv ==
    /\ \A d \in Days : saltOf[d] # NoSalt => saltOf[d] \in 1..draws
    /\ \A d, e \in Days : saltOf[d] = saltOf[e] /\ saltOf[d] # NoSalt => d = e
    /\ \A w \in Workers, d \in Days : cached[w][d] # NoSalt /\ Recent(d) => saltOf[d] = cached[w][d]
    /\ OneSalt
    /\ ~ beaten

VisitInv ==
    /\ VisitTypes /\ SaltInv
    /\ \A h \in hits : HitInv(h)
    /\ \A b \in Beacons : BeaconInv(b)

-----------------------------------------------------------------------------
(* Days.                                                                   *)

LEMMA DaysPass ==
    ASSUME VisitsAssumption
    PROVE  /\ \A t \in Instants : t \in Nat /\ DayOf(t) \in Days
           /\ \A d \in Days : d \in Nat
           /\ \A t \in Nat : DayOf(t) \in Nat /\ DayOf(t) <= DayOf(t + 1)
           /\ \A t \in Nat : t >= Morning(Retention) =>
                 t - Morning(Retention) \in Nat
                 /\ DayOf(t - Morning(Retention)) = DayOf(t) - Retention
           /\ \A s, t \in Nat : s <= t => DayOf(s) <= DayOf(t)
<1>1. \A t \in Nat : DayOf(t) \in Nat /\ 2 * DayOf(t) <= t /\ t <= 2 * DayOf(t) + 1
  BY DEF DayOf
<1>2. \A s, t \in Nat : s <= t => DayOf(s) <= DayOf(t)
  BY <1>1
<1>3. MaxInstant \in Nat /\ Retention \in Nat
  BY DEF VisitsAssumption
<1>4. ASSUME NEW t \in Instants
      PROVE  t \in Nat /\ DayOf(t) \in Days
  <2>1. t \in Nat /\ t <= MaxInstant
    BY <1>3 DEF Instants
  <2>2. PICK c, d \in Nat : c = DayOf(t) /\ d = DayOf(MaxInstant) /\ c <= d
    BY <1>1, <1>2, <1>3, <2>1
  <2>. QED
    BY <2>1, <2>2 DEF Days
<1>5. \A d \in Days : d \in Nat
  BY <1>1, <1>3 DEF Days
<1>6. ASSUME NEW t \in Nat, t >= Morning(Retention)
      PROVE  t - Morning(Retention) \in Nat
             /\ DayOf(t - Morning(Retention)) = DayOf(t) - Retention
  <2>1. PICK s \in Nat : s = t - Morning(Retention) /\ t = s + 2 * Retention
    BY <1>3, <1>6 DEF Morning
  <2>2. PICK a, c \in Nat : /\ a = DayOf(s) /\ 2 * a <= s /\ s <= 2 * a + 1
                           /\ c = DayOf(t) /\ 2 * c <= t /\ t <= 2 * c + 1
    BY <1>1
  <2>3. a = c - Retention
    BY <1>3, <2>1, <2>2
  <2>. QED
    BY <2>1, <2>2, <2>3
<1>7. \A t \in Nat : DayOf(t) <= DayOf(t + 1)
  BY <1>2
<1>. QED
  BY <1>1, <1>2, <1>4, <1>5, <1>6, <1>7

-----------------------------------------------------------------------------
(* Every step keeps the invariant.                                         *)

LEMMA InitVisits ==
    ASSUME VisitsInit, VisitsAssumption
    PROVE  VisitInv
<1>1. 0 \in Instants /\ 0 \in Days
  <2>1. MaxInstant \in Nat
    BY DEF VisitsAssumption
  <2>2. 0 \in Instants
    BY <2>1 DEF Instants
  <2>3. DayOf(0) \in Days /\ DayOf(0) \in Nat /\ DayOf(0) = 0
    BY <2>2, DaysPass DEF DayOf
  <2>. QED
    BY <2>2, <2>3
<1>2. VisitTypes
  BY <1>1, FS_EmptySet DEF VisitsInit, VisitTypes, NoBeacon, BeaconType, VisitsAssumption
<1>3. SaltInv
  BY DEF VisitsInit, SaltInv, OneSalt
<1>4. \A b \in Beacons : BeaconInv(b)
  BY DEF VisitsInit, BeaconInv, NoBeacon
<1>. QED
  BY <1>2, <1>3, <1>4 DEF VisitInv, VisitsInit

(* A request moves on or ends while the salts stay: what is asked of it    *)
(* now, and that it does not take a salt another one has drawn.            *)
LEMMA RequestMoves ==
    ASSUME VisitInv, VisitsAssumption, NEW b \in Beacons, NEW k \in BeaconType,
           beacon' = [beacon EXCEPT ![b] = k],
           UNCHANGED <<instant, saltOf, hits, beaten>>,
           draws' \in 0..MaxDraws, draws <= draws',
           k.at # "idle" => Recent(k.day) /\ k.visitor \in Visitors /\ k.worker \in Workers,
           k.at = "insert" => k.salt = draws + 1 /\ draws' = draws + 1,
           k.at = "reselect" => saltOf[k.day] # NoSalt,
           k.at = "record" => k.salt # NoSalt /\ saltOf[k.day] = k.salt,
           cached' \in [Workers -> [Days -> Salts \cup {NoSalt}]],
           \A w \in Workers, d \in Days :
               cached'[w][d] = cached[w][d] \/ saltOf[d] = cached'[w][d]
    PROVE  VisitInv'
<1>1. \A c \in Beacons : beacon'[c] = IF c = b THEN k ELSE beacon[c]
  BY DEF VisitInv, VisitTypes
<1>2. draws \in Nat /\ draws' \in Nat
  BY DEF VisitInv, VisitTypes, VisitsAssumption
<1>3. VisitTypes'
  BY DEF VisitInv, VisitTypes
<1>4. \A d : Recent(d)' <=> Recent(d)
  BY DEF Recent
<1>5. SaltInv'
  <2>1. \A d \in Days : saltOf[d] # NoSalt => saltOf[d] \in 1..draws'
    BY <1>2 DEF VisitInv, SaltInv
  <2>2. \A w \in Workers, d \in Days : cached'[w][d] # NoSalt /\ Recent(d) => saltOf[d] = cached'[w][d]
    BY DEF VisitInv, SaltInv
  <2>. QED
    BY <1>4, <2>1, <2>2 DEF VisitInv, SaltInv, OneSalt
<1>6. \A h \in hits' : HitInv(h)'
  <2>1. ASSUME NEW h \in hits
        PROVE  HitInv(h)'
    <3>1. HitInv(h)
      BY DEF VisitInv
    <3>2. h.salt \in 1..draws'
      BY <1>2, <3>1 DEF HitInv
    <3>. QED
      BY <1>4, <3>1, <3>2 DEF HitInv
  <2>. QED
    BY <2>1
<1>7. ASSUME NEW c \in Beacons
      PROVE  BeaconInv(c)'
  <2>1. CASE c = b
    <3>1. k.at = "insert" => Drawn(c)'
      <4>. SUFFICES ASSUME k.at = "insert"
                    PROVE  Drawn(c)'
        OBVIOUS
      <4>1. k.salt = draws + 1 /\ k.salt \in 1..draws' /\ k.salt \notin 1..draws /\ k.salt # NoSalt
        BY <1>2 DEF VisitsAssumption, Salts, VisitInv, VisitTypes
      <4>2. \A d \in Days : saltOf[d] # k.salt
        BY <4>1 DEF VisitInv, SaltInv
      <4>3. \A h \in hits : h.salt # k.salt
        BY <4>1 DEF VisitInv, HitInv
      <4>4. \A e \in Beacons \ {c} : beacon'[e].at = "insert" => beacon'[e].salt # k.salt
        BY <1>1, <2>1, <4>1 DEF VisitInv, BeaconInv, Drawn
      <4>. QED
        BY <1>1, <2>1, <4>1, <4>2, <4>3, <4>4 DEF Drawn
    <3>. QED
      BY <1>1, <1>4, <2>1, <3>1 DEF BeaconInv
  <2>2. CASE c # b
    <3>1. BeaconInv(c) /\ beacon'[c] = beacon[c]
      BY <1>1, <2>2 DEF VisitInv
    <3>2. beacon[c].at = "insert" => Drawn(c)'
      <4>. SUFFICES ASSUME beacon[c].at = "insert"
                    PROVE  Drawn(c)'
        OBVIOUS
      <4>1. Drawn(c) /\ beacon[c].salt \in 1..draws'
        BY <1>2, <3>1 DEF BeaconInv, Drawn
      <4>2. k.at = "insert" => k.salt # beacon[c].salt
        BY <1>2, <4>1 DEF Drawn
      <4>. QED
        BY <1>1, <3>1, <4>1, <4>2 DEF Drawn
    <3>. QED
      BY <1>4, <3>1, <3>2 DEF BeaconInv
  <2>. QED
    BY <2>1, <2>2
<1>. QED
  BY <1>3, <1>5, <1>6, <1>7 DEF VisitInv

LEMMA HitKeeps ==
    ASSUME VisitInv, VisitsAssumption, NEW b \in Beacons, NEW w \in Workers, NEW v \in Visitors,
           Hit(b, w, v)
    PROVE  VisitInv'
<1>. DEFINE k == [at |-> IF cached[w][DayOf(instant)] = NoSalt THEN "select" ELSE "record",
                  worker |-> w, visitor |-> v, day |-> DayOf(instant),
                  salt |-> cached[w][DayOf(instant)]]
<1>1. beacon' = [beacon EXCEPT ![b] = k] /\ UNCHANGED <<instant, saltOf, hits, cached, draws, beaten>>
  BY DEF Hit
<1>2. DayOf(instant) \in Days /\ DayOf(instant) \in Nat /\ Recent(DayOf(instant))
  BY DaysPass DEF VisitInv, VisitTypes, Recent
<1>3. k \in BeaconType
  BY <1>2 DEF BeaconType, VisitInv, VisitTypes
<1>4. k.at = "record" => k.salt # NoSalt /\ saltOf[k.day] = k.salt
  BY <1>2 DEF VisitInv, SaltInv
<1>5. k.at \in {"select", "record"} /\ k.day = DayOf(instant) /\ k.visitor = v /\ k.worker = w
  OBVIOUS
<1>6. draws \in Nat /\ draws \in 0..MaxDraws
  BY DEF VisitInv, VisitTypes, VisitsAssumption
<1>7. /\ cached' \in [Workers -> [Days -> Salts \cup {NoSalt}]]
      /\ \A x \in Workers, d \in Days :
            cached'[x][d] = cached[x][d] \/ saltOf[d] = cached'[x][d]
  BY <1>1 DEF VisitInv, VisitTypes
<1>8. /\ k.at # "insert" /\ k.at # "reselect"
      /\ k.at # "idle" => Recent(k.day) /\ k.visitor \in Visitors /\ k.worker \in Workers
      /\ draws' \in 0..MaxDraws /\ draws <= draws'
  BY <1>1, <1>2, <1>5, <1>6
<1>. HIDE DEF k
<1>. QED
  BY <1>1, <1>3, <1>4, <1>7, <1>8, RequestMoves

(* What a request remembers is on record.                                  *)
LEMMA Remembered ==
    ASSUME VisitInv, NEW b \in Beacons, beacon[b].worker \in Workers, NEW salt \in Salts,
           saltOf[beacon[b].day] = salt, Remember(b, salt)
    PROVE  /\ cached' \in [Workers -> [Days -> Salts \cup {NoSalt}]]
           /\ \A w \in Workers, d \in Days :
                 cached'[w][d] = cached[w][d] \/ saltOf[d] = cached'[w][d]
<1>1. beacon[b].day \in Days
  BY DEF VisitInv, VisitTypes, BeaconType
<1>. QED
  BY <1>1 DEF Remember, VisitInv, VisitTypes

LEMMA SelectKeeps ==
    ASSUME VisitInv, VisitsAssumption, NEW b \in Beacons, SelectSalt(b) \/ Reselect(b)
    PROVE  VisitInv'
<1>. DEFINE row == saltOf[beacon[b].day]
<1>1. /\ beacon[b] \in BeaconType /\ beacon[b].day \in Days /\ beacon[b].at # "idle"
      /\ Recent(beacon[b].day) /\ beacon[b].visitor \in Visitors /\ beacon[b].worker \in Workers
      /\ row \in Salts \cup {NoSalt} /\ draws \in 0..MaxDraws /\ draws \in Nat
      /\ beacon[b].at = "reselect" => row # NoSalt
  BY DEF VisitInv, VisitTypes, BeaconInv, BeaconType, SelectSalt, Reselect, VisitsAssumption
<1>2. CASE row = NoSalt
  <2>. DEFINE k == [beacon[b] EXCEPT !.at = "insert", !.salt = draws']
  <2>1. /\ draws' = draws + 1 /\ draws < MaxDraws /\ beacon' = [beacon EXCEPT ![b] = k]
        /\ UNCHANGED <<instant, saltOf, hits, cached, beaten>>
    <3>1. SelectSalt(b)
      BY <1>1, <1>2 DEF Reselect
    <3>. QED
      BY <1>1, <1>2, <3>1 DEF SelectSalt, Move, VisitInv, VisitTypes
  <2>2. /\ draws' \in 0..MaxDraws /\ draws <= draws' /\ draws + 1 \in Salts
    BY <1>1, <2>1 DEF VisitsAssumption, Salts
  <2>3. /\ k \in BeaconType /\ k.at = "insert" /\ k.salt = draws + 1
        /\ k.day = beacon[b].day /\ k.visitor = beacon[b].visitor /\ k.worker = beacon[b].worker
    BY <1>1, <2>1, <2>2 DEF BeaconType
  <2>4. /\ cached' \in [Workers -> [Days -> Salts \cup {NoSalt}]]
        /\ \A w \in Workers, d \in Days :
              cached'[w][d] = cached[w][d] \/ saltOf[d] = cached'[w][d]
    BY <2>1 DEF VisitInv, VisitTypes
  <2>. HIDE DEF k, row
  <2>. QED
    BY <1>1, <2>1, <2>2, <2>3, <2>4, RequestMoves
<1>3. CASE row # NoSalt
  <2>. DEFINE k == [beacon[b] EXCEPT !.at = "record", !.salt = row]
  <2>1. /\ draws' = draws /\ beacon' = [beacon EXCEPT ![b] = k] /\ Remember(b, row)
        /\ UNCHANGED <<instant, saltOf, hits>> /\ beaten' = beaten
    <3>1. /\ beacon \in [Beacons -> BeaconType] /\ beaten = FALSE
      BY DEF VisitInv, VisitTypes, SaltInv
    <3>2. CASE SelectSalt(b)
      BY <1>1, <1>3, <3>1, <3>2 DEF SelectSalt, Move
    <3>3. CASE Reselect(b)
      <4>1. beaten' = FALSE
        BY <1>3, <3>1, <3>3 DEF Reselect
      <4>. QED
        BY <1>1, <1>3, <3>1, <3>3, <4>1 DEF Reselect, Move
    <3>. QED
      BY <3>2, <3>3
  <2>2. /\ k \in BeaconType /\ k.at = "record" /\ k.salt = row
        /\ k.day = beacon[b].day /\ k.visitor = beacon[b].visitor /\ k.worker = beacon[b].worker
    BY <1>1 DEF BeaconType
  <2>3. /\ cached' \in [Workers -> [Days -> Salts \cup {NoSalt}]]
        /\ \A w \in Workers, d \in Days :
              cached'[w][d] = cached[w][d] \/ saltOf[d] = cached'[w][d]
    BY <1>1, <1>3, <2>1, Remembered
  <2>4. draws' \in 0..MaxDraws /\ draws <= draws'
    BY <1>1, <2>1
  <2>5. k.at # "insert" /\ k.at # "reselect" /\ k.salt # NoSalt /\ saltOf[k.day] = k.salt
    BY <1>3, <2>2
  <2>. HIDE DEF k, row
  <2>. QED
    BY <1>1, <2>1, <2>2, <2>3, <2>4, <2>5, RequestMoves
<1>. QED
  BY <1>2, <1>3

LEMMA FailKeeps ==
    ASSUME VisitInv, VisitsAssumption, NEW b \in Beacons, BeaconFails(b)
    PROVE  VisitInv'
<1>1. NoBeacon \in BeaconType /\ NoBeacon.at = "idle"
  <2>1. 0 \in Days
    <3>1. MaxInstant \in Nat /\ DayOf(MaxInstant) \in Nat
      BY DaysPass DEF VisitsAssumption
    <3>. QED
      BY <3>1 DEF Days
  <2>. QED
    BY <2>1 DEF NoBeacon, BeaconType
<1>2. draws \in Nat /\ draws \in 0..MaxDraws
  BY DEF VisitInv, VisitTypes, VisitsAssumption
<1>3. PICK k \in BeaconType : k = NoBeacon /\ k.at = "idle"
  BY <1>1
<1>4. /\ beacon' = [beacon EXCEPT ![b] = k] /\ UNCHANGED <<instant, saltOf, hits, beaten>>
      /\ draws' \in 0..MaxDraws /\ draws <= draws'
  BY <1>2, <1>3 DEF BeaconFails
<1>5. /\ cached' \in [Workers -> [Days -> Salts \cup {NoSalt}]]
      /\ \A w \in Workers, d \in Days :
            cached'[w][d] = cached[w][d] \/ saltOf[d] = cached'[w][d]
  BY DEF BeaconFails, VisitInv, VisitTypes
<1>. QED
  BY <1>3, <1>4, <1>5, RequestMoves

LEMMA InsertKeeps ==
    ASSUME VisitInv, VisitsAssumption, NEW b \in Beacons, InsertSalt(b)
    PROVE  VisitInv'
<1>. DEFINE day == beacon[b].day
            salt == beacon[b].salt
<1>1. /\ beacon[b] \in BeaconType /\ day \in Days /\ beacon[b].at = "insert"
      /\ Recent(day) /\ beacon[b].visitor \in Visitors /\ beacon[b].worker \in Workers
      /\ draws \in 0..MaxDraws /\ draws \in Nat
      /\ Drawn(b) /\ UNCHANGED <<instant, hits, draws, beaten>>
  BY DEF VisitInv, VisitTypes, BeaconInv, BeaconType, InsertSalt, VisitsAssumption
<1>2. salt \in 1..draws /\ salt \in Salts /\ salt # NoSalt
  BY <1>1 DEF Drawn, VisitsAssumption, Salts
<1>3. CASE saltOf[day] # NoSalt
  <2>. DEFINE k == [beacon[b] EXCEPT !.at = "reselect", !.salt = NoSalt]
  <2>1. beacon' = [beacon EXCEPT ![b] = k] /\ UNCHANGED <<saltOf, cached>>
    BY <1>3 DEF InsertSalt, Yield, Move
  <2>2. /\ k \in BeaconType /\ k.at = "reselect"
        /\ k.day = day /\ k.visitor = beacon[b].visitor /\ k.worker = beacon[b].worker
    BY <1>1 DEF BeaconType
  <2>3. /\ cached' \in [Workers -> [Days -> Salts \cup {NoSalt}]]
        /\ \A w \in Workers, d \in Days :
              cached'[w][d] = cached[w][d] \/ saltOf[d] = cached'[w][d]
    BY <2>1 DEF VisitInv, VisitTypes
  <2>4. /\ draws' \in 0..MaxDraws /\ draws <= draws'
        /\ k.at # "insert" /\ k.at # "record" /\ saltOf[k.day] # NoSalt
    BY <1>1, <1>3, <2>2
  <2>. HIDE DEF k
  <2>. QED
    BY <1>1, <2>1, <2>2, <2>3, <2>4, RequestMoves
<1>4. CASE saltOf[day] = NoSalt
  <2>1. /\ saltOf' = [saltOf EXCEPT ![day] = salt]
        /\ beacon' = [beacon EXCEPT ![b].at = "record", ![b].salt = salt]
        /\ cached' = [cached EXCEPT ![beacon[b].worker][day] = salt]
    BY <1>4 DEF InsertSalt, Move, Remember
  <2>2. \A d \in Days : saltOf'[d] = IF d = day THEN salt ELSE saltOf[d]
    BY <2>1 DEF VisitInv, VisitTypes
  <2>3. \A w \in Workers, d \in Days : cached'[w][d] \in {cached[w][d], saltOf'[d]}
    BY <1>1, <2>1, <2>2 DEF VisitInv, VisitTypes
  <2>4. /\ beacon'[b].at = "record" /\ beacon'[b].salt = salt /\ beacon'[b].day = day
        /\ beacon'[b].visitor = beacon[b].visitor /\ beacon'[b].worker = beacon[b].worker
        /\ beacon'[b] \in BeaconType
        /\ \A c \in Beacons : c # b => beacon'[c] = beacon[c]
        /\ beacon' \in [Beacons -> BeaconType]
    BY <1>1, <1>2, <2>1 DEF VisitInv, VisitTypes, BeaconType
  <2>5. VisitTypes'
    BY <1>1, <1>2, <2>1, <2>4 DEF VisitInv, VisitTypes
  <2>6. \A d : Recent(d)' <=> Recent(d)
    BY <1>1 DEF Recent
  <2>7. SaltInv'
    <3>1. \A d \in Days : saltOf'[d] # NoSalt => saltOf'[d] \in 1..draws
      BY <1>2, <2>2 DEF VisitInv, SaltInv
    <3>2. \A d, e \in Days : saltOf'[d] = saltOf'[e] /\ saltOf'[d] # NoSalt => d = e
      BY <1>1, <2>2 DEF VisitInv, SaltInv, Drawn
    <3>3. ASSUME NEW w \in Workers, NEW d \in Days, cached'[w][d] # NoSalt, Recent(d)
          PROVE  saltOf'[d] = cached'[w][d]
      <4>1. CASE d = day
        <5>1. cached[w][d] # NoSalt => saltOf[d] = cached[w][d]
          BY <3>3 DEF VisitInv, SaltInv
        <5>. QED
          BY <1>4, <2>3, <3>3, <4>1, <5>1
      <4>2. CASE d # day
        <5>1. cached[w][d] # NoSalt => saltOf[d] = cached[w][d]
          BY <3>3 DEF VisitInv, SaltInv
        <5>. QED
          BY <2>2, <2>3, <3>3, <4>2, <5>1
      <4>. QED
        BY <4>1, <4>2
    <3>4. OneSalt' /\ ~ beaten'
      BY <1>1 DEF VisitInv, SaltInv, OneSalt
    <3>. QED
      BY <1>1, <2>6, <3>1, <3>2, <3>3, <3>4 DEF SaltInv
  <2>8. ASSUME NEW h \in hits
        PROVE  HitInv(h)'
    <3>1. HitInv(h) /\ h.salt # salt /\ h.read \in Days
      BY <1>1 DEF VisitInv, VisitTypes, Drawn
    <3>2. h.read # day
      BY <1>1, <1>4, <3>1, <1>2 DEF HitInv, VisitInv, VisitTypes, VisitsAssumption, Salts
    <3>3. saltOf'[h.read] = saltOf[h.read] /\ \A d \in Days : saltOf'[d] = h.salt => saltOf[d] = h.salt
      BY <2>2, <3>1, <3>2
    <3>. QED
      BY <1>1, <2>6, <3>1, <3>3 DEF HitInv
  <2>9. ASSUME NEW c \in Beacons
        PROVE  BeaconInv(c)'
    <3>1. CASE c = b
      BY <1>1, <1>2, <2>2, <2>4, <2>6, <3>1 DEF BeaconInv
    <3>2. CASE c # b
      <4>1. beacon'[c] = beacon[c] /\ BeaconInv(c) /\ beacon[c].day \in Days
        BY <2>4, <3>2 DEF VisitInv, VisitTypes, BeaconType
      <4>2. beacon[c].at = "insert" => Drawn(c)'
        <5>. SUFFICES ASSUME beacon[c].at = "insert"
                      PROVE  Drawn(c)'
          OBVIOUS
        <5>1. Drawn(c) /\ beacon[c].salt # salt
          BY <1>1, <3>2, <4>1 DEF BeaconInv, Drawn
        <5>2. \A d \in Days : saltOf'[d] # beacon[c].salt
          BY <2>2, <5>1 DEF Drawn
        <5>. QED
          BY <1>1, <2>4, <4>1, <5>1, <5>2 DEF Drawn
      <4>3. beacon[c].at \in {"record", "reselect"} => saltOf'[beacon[c].day] = saltOf[beacon[c].day]
        BY <1>4, <2>2, <4>1 DEF BeaconInv
      <4>. QED
        BY <2>6, <4>1, <4>2, <4>3 DEF BeaconInv
    <3>. QED
      BY <3>1, <3>2
  <2>. QED
    BY <1>1, <2>5, <2>7, <2>8, <2>9 DEF VisitInv
<1>. QED
  BY <1>3, <1>4

LEMMA RecordKeeps ==
    ASSUME VisitInv, VisitsAssumption, NEW b \in Beacons, Record(b)
    PROVE  VisitInv'
<1>1. /\ beacon[b].at = "record" /\ beacon[b].day \in Days /\ Recent(beacon[b].day)
      /\ beacon[b].visitor \in Visitors /\ beacon[b].salt \in Salts
      /\ saltOf[beacon[b].day] = beacon[b].salt /\ beacon[b].salt \in 1..draws
  BY DEF Record, VisitInv, VisitTypes, BeaconInv, BeaconType, SaltInv
<1>2. PICK n \in [visitor: Visitors, salt: Salts, created: Instants, read: Days] :
         /\ n.salt = beacon[b].salt /\ n.read = beacon[b].day
         /\ hits' = hits \cup {n}
  BY <1>1 DEF Record, VisitInv, VisitTypes
<1>3. /\ beacon' = [beacon EXCEPT ![b] = NoBeacon]
      /\ UNCHANGED <<instant, saltOf, cached, draws, beaten>>
  BY DEF Record
<1>4. NoBeacon \in BeaconType /\ NoBeacon.at = "idle"
  <2>1. 0 \in Days
    <3>1. MaxInstant \in Nat /\ DayOf(MaxInstant) \in Nat
      BY DaysPass DEF VisitsAssumption
    <3>. QED
      BY <3>1 DEF Days
  <2>. QED
    BY <2>1 DEF NoBeacon, BeaconType
<1>5. VisitTypes'
  <2>1. IsFiniteSet(hits')
    BY <1>2, FS_AddElement DEF VisitInv, VisitTypes
  <2>. QED
    BY <1>2, <1>3, <1>4, <2>1 DEF VisitInv, VisitTypes
<1>6. \A d : Recent(d)' <=> Recent(d)
  BY <1>3 DEF Recent
<1>7. HitInv(n)
  BY <1>1, <1>2 DEF HitInv, VisitInv, SaltInv, Salts, VisitsAssumption
<1>8. \A h \in hits' : HitInv(h)'
  BY <1>2, <1>3, <1>6, <1>7 DEF HitInv, VisitInv
<1>9. \A h \in hits : n.read = h.read <=> n.salt = h.salt
  <2>. SUFFICES ASSUME NEW h \in hits
                PROVE  n.read = h.read <=> n.salt = h.salt
    OBVIOUS
  <2>1. HitInv(h) /\ h.read \in Days
    BY DEF VisitInv, VisitTypes
  <2>2. n.read = h.read => n.salt = h.salt
    BY <1>1, <1>2, <2>1 DEF HitInv
  <2>3. n.salt = h.salt => n.read = h.read
    BY <1>1, <1>2, <2>1 DEF HitInv
  <2>. QED
    BY <2>2, <2>3
<1>10. SaltInv'
  <2>1. OneSalt'
    BY <1>2, <1>9 DEF OneSalt, VisitInv, SaltInv
  <2>. QED
    BY <1>3, <1>6, <2>1 DEF VisitInv, SaltInv
<1>11. ASSUME NEW c \in Beacons
       PROVE  BeaconInv(c)'
  <2>1. CASE c = b
    <3>1. beacon'[c] = NoBeacon
      BY <1>3, <2>1 DEF VisitInv, VisitTypes
    <3>. QED
      BY <1>4, <3>1 DEF BeaconInv
  <2>2. CASE c # b
    <3>1. beacon'[c] = beacon[c] /\ BeaconInv(c)
      BY <1>3, <2>2 DEF VisitInv, VisitTypes
    <3>2. beacon[c].at = "insert" => Drawn(c)'
      <4>. SUFFICES ASSUME beacon[c].at = "insert"
                    PROVE  Drawn(c)'
        OBVIOUS
      <4>1. Drawn(c) /\ beacon[c].salt # n.salt
        BY <1>1, <1>2, <3>1 DEF BeaconInv, Drawn
      <4>2. \A e \in Beacons : beacon'[e].at = "insert" => beacon'[e] = beacon[e]
        BY <1>3, <1>4 DEF VisitInv, VisitTypes
      <4>. QED
        BY <1>2, <1>3, <3>1, <4>1, <4>2 DEF Drawn
    <3>. QED
      BY <1>3, <1>6, <3>1, <3>2 DEF BeaconInv
  <2>. QED
    BY <2>1, <2>2
<1>. QED
  BY <1>5, <1>8, <1>10, <1>11 DEF VisitInv

(* The salts of days long past go with their hits; no request is at them.  *)
LEMMA PruneKeeps ==
    ASSUME VisitInv, VisitsAssumption, Prune
    PROVE  VisitInv'
<1>1. /\ instant >= Morning(Retention) /\ UNCHANGED <<instant, cached, beacon, draws, beaten>>
      /\ hits' = {h \in hits : h.created >= Cutoff}
      /\ saltOf' = [d \in Days |-> IF d \in OldSalts THEN NoSalt ELSE saltOf[d]]
  BY DEF Prune
<1>2. /\ instant \in Nat /\ Cutoff \in Nat /\ DayOf(Cutoff) = DayOf(instant) - Retention
      /\ DayOf(instant) \in Nat /\ DayOf(Cutoff) \in Nat /\ Retention \in Nat \ {0}
  BY <1>1, DaysPass DEF Cutoff, VisitInv, VisitTypes, VisitsAssumption
<1>3. \A d \in Days : Recent(d) => saltOf'[d] = saltOf[d]
  BY <1>1, <1>2, DaysPass DEF Recent, OldSalts
<1>4. ASSUME NEW h \in hits', h.read = DayOf(h.created)
      PROVE  saltOf'[h.read] = saltOf[h.read]
  <2>1. h.created \in Nat /\ h.created >= Cutoff /\ h.read \in Days
    BY <1>1, DaysPass DEF VisitInv, VisitTypes
  <2>2. DayOf(Cutoff) <= DayOf(h.created) /\ DayOf(h.created) \in Nat
    BY <1>2, <2>1, DaysPass
  <2>. QED
    BY <1>1, <1>2, <1>4, <2>1, <2>2 DEF OldSalts
<1>5. \A d \in Days : saltOf'[d] \in {saltOf[d], NoSalt}
  BY <1>1
<1>6. \A d : Recent(d)' <=> Recent(d)
  BY <1>1 DEF Recent
<1>7. VisitTypes'
  <2>1. IsFiniteSet(hits')
    BY <1>1, FS_Subset DEF VisitInv, VisitTypes
  <2>. QED
    BY <1>1, <2>1 DEF VisitInv, VisitTypes
<1>8. SaltInv'
  <2>1. OneSalt'
    BY <1>1 DEF VisitInv, SaltInv, OneSalt
  <2>2. \A d \in Days : saltOf'[d] # NoSalt => saltOf'[d] = saltOf[d]
    BY <1>5
  <2>. QED
    BY <1>1, <1>3, <1>6, <2>1, <2>2 DEF VisitInv, SaltInv
<1>9. ASSUME NEW h \in hits'
      PROVE  HitInv(h)'
  <2>1. HitInv(h) /\ h.read \in Days /\ h \in hits /\ h.salt \in Salts
    BY <1>1 DEF VisitInv, VisitTypes
  <2>2. h.salt # NoSalt
    BY <2>1 DEF VisitsAssumption
  <2>3. \A d \in Days : saltOf'[d] = h.salt => saltOf[d] = h.salt
    BY <1>5, <2>2
  <2>. QED
    BY <1>1, <1>3, <1>4, <1>5, <1>6, <2>1, <2>3 DEF HitInv
<1>10. ASSUME NEW b \in Beacons
       PROVE  BeaconInv(b)'
  <2>1. BeaconInv(b) /\ beacon[b].day \in Days /\ beacon[b].salt \in Salts \cup {NoSalt}
    BY DEF VisitInv, VisitTypes, BeaconType
  <2>2. beacon[b].at = "insert" => Drawn(b)'
    <3>. SUFFICES ASSUME beacon[b].at = "insert"
                  PROVE  Drawn(b)'
      OBVIOUS
    <3>1. Drawn(b) /\ beacon[b].salt # NoSalt
      BY <2>1 DEF BeaconInv, Drawn, VisitsAssumption, Salts, VisitInv, VisitTypes
    <3>2. \A d \in Days : saltOf'[d] # beacon[b].salt
      BY <1>5, <3>1 DEF Drawn
    <3>. QED
      BY <1>1, <3>1, <3>2 DEF Drawn
  <2>3. beacon[b].at # "idle" => saltOf'[beacon[b].day] = saltOf[beacon[b].day]
    BY <1>3, <2>1 DEF BeaconInv
  <2>. QED
    BY <1>1, <1>6, <2>1, <2>2, <2>3 DEF BeaconInv
<1>. QED
  BY <1>7, <1>8, <1>9, <1>10 DEF VisitInv

(* A worker forgets its salts and its requests.                            *)
LEMMA RestartKeeps ==
    ASSUME VisitInv, VisitsAssumption, NEW w \in Workers, RestartWorker(w)
    PROVE  VisitInv'
<1>1. /\ UNCHANGED <<instant, saltOf, hits, draws, beaten>>
      /\ cached' = [cached EXCEPT ![w] = [d \in Days |-> NoSalt]]
      /\ beacon' = [b \in Beacons |-> IF beacon[b].worker = w THEN NoBeacon ELSE beacon[b]]
  BY DEF RestartWorker
<1>2. NoBeacon \in BeaconType /\ NoBeacon.at = "idle"
  <2>1. 0 \in Days
    <3>1. MaxInstant \in Nat /\ DayOf(MaxInstant) \in Nat
      BY DaysPass DEF VisitsAssumption
    <3>. QED
      BY <3>1 DEF Days
  <2>. QED
    BY <2>1 DEF NoBeacon, BeaconType
<1>3. VisitTypes'
  BY <1>1, <1>2 DEF VisitInv, VisitTypes
<1>4. \A d : Recent(d)' <=> Recent(d)
  BY <1>1 DEF Recent
<1>5. SaltInv'
  <2>1. \A v \in Workers, d \in Days : cached'[v][d] # NoSalt => cached'[v][d] = cached[v][d]
    BY <1>1 DEF VisitInv, VisitTypes
  <2>. QED
    BY <1>1, <1>4, <2>1 DEF VisitInv, SaltInv, OneSalt
<1>6. \A h \in hits' : HitInv(h)'
  BY <1>1, <1>4 DEF VisitInv, HitInv
<1>7. ASSUME NEW b \in Beacons
      PROVE  BeaconInv(b)'
  <2>1. BeaconInv(b) /\ beacon'[b] \in {NoBeacon, beacon[b]}
    BY <1>1 DEF VisitInv
  <2>2. \A c \in Beacons : beacon'[c].at = "insert" => beacon'[c] = beacon[c]
    BY <1>1, <1>2
  <2>3. beacon'[b] = beacon[b] /\ beacon[b].at = "insert" => Drawn(b)'
    BY <1>1, <2>1, <2>2 DEF BeaconInv, Drawn
  <2>. QED
    BY <1>1, <1>2, <1>4, <2>1, <2>3 DEF BeaconInv
<1>. QED
  BY <1>3, <1>5, <1>6, <1>7 DEF VisitInv

LEMMA TimeKeeps ==
    ASSUME VisitInv, VisitsAssumption, TimeGoesOn
    PROVE  VisitInv'
<1>1. /\ UNCHANGED <<saltOf, hits, cached, beacon, draws, beaten>>
      /\ instant' = instant + 1 /\ instant < MaxInstant
      /\ \A b \in Beacons : beacon[b].at # "idle" => DayOf(instant + 1) <= beacon[b].day + 1
  BY DEF TimeGoesOn
<1>2. instant' \in Instants /\ instant \in Nat
  BY <1>1 DEF VisitInv, VisitTypes, Instants, VisitsAssumption
<1>3. ASSUME NEW d \in Days, Recent(d)'
      PROVE  Recent(d)
  <2>1. DayOf(instant) \in Nat /\ DayOf(instant + 1) \in Nat /\ d \in Nat
        /\ DayOf(instant) <= DayOf(instant + 1)
    BY <1>2, DaysPass
  <2>2. DayOf(instant + 1) <= d + 1
    BY <1>1, <1>3 DEF Recent
  <2>. QED
    BY <2>1, <2>2 DEF Recent
<1>4. VisitTypes'
  BY <1>1, <1>2 DEF VisitInv, VisitTypes
<1>5. SaltInv'
  BY <1>1, <1>3 DEF VisitInv, SaltInv, OneSalt
<1>6. ASSUME NEW h \in hits'
      PROVE  HitInv(h)'
  <2>1. HitInv(h) /\ h.read \in Days
    BY <1>1 DEF VisitInv, VisitTypes
  <2>. QED
    BY <1>1, <1>3, <2>1 DEF HitInv
<1>7. ASSUME NEW b \in Beacons
      PROVE  BeaconInv(b)'
  <2>1. BeaconInv(b) /\ (beacon[b].at # "idle" => Recent(beacon[b].day)')
    BY <1>1 DEF VisitInv, Recent
  <2>2. Drawn(b)' <=> Drawn(b)
    BY <1>1 DEF Drawn
  <2>. QED
    BY <1>1, <2>1, <2>2 DEF BeaconInv
<1>. QED
  BY <1>4, <1>5, <1>6, <1>7 DEF VisitInv

-----------------------------------------------------------------------------
(* Hashes count visitors: they and the visits correspond one to one.       *)
LEMMA HashesAreVisits ==
    ASSUME VisitInv, NEW some \in SUBSET hits
    PROVE  Cardinality({Hash(h) : h \in some}) = Visitings(some)
<1>. DEFINE A == {Hash(h) : h \in some}
            B == {<<h.visitor, h.read>> : h \in some}
            f == [h \in some |-> Hash(h)]
            back == [x \in A |-> <<x[1], (CHOOSE h \in some : h.salt = x[2]).read>>]
<1>1. IsFiniteSet(some)
  BY FS_Subset DEF VisitInv, VisitTypes
<1>2. f \in Surjection(some, A)
  BY DEF Surjection
<1>3. IsFiniteSet(A)
  BY <1>1, <1>2, FS_Surjection
<1>4. ASSUME NEW h \in some
      PROVE  back[Hash(h)] = <<h.visitor, h.read>>
  <2>1. PICK g \in some : g = CHOOSE k \in some : k.salt = h.salt
    OBVIOUS
  <2>2. g.salt = h.salt
    BY <2>1
  <2>3. g.read = h.read
    BY <2>2 DEF VisitInv, SaltInv, OneSalt
  <2>4. Hash(h) \in A /\ Hash(h)[1] = h.visitor /\ Hash(h)[2] = h.salt
    BY DEF Hash
  <2>. QED
    BY <2>1, <2>3, <2>4
<1>5. \A x \in A : \E h \in some : x = Hash(h)
  OBVIOUS
<1>6. back \in [A -> B]
  <2>1. ASSUME NEW x \in A
        PROVE  back[x] \in B
    <3>1. PICK h \in some : x = Hash(h)
      BY <1>5
    <3>2. <<h.visitor, h.read>> \in B
      OBVIOUS
    <3>. HIDE DEF back, B
    <3>. QED
      BY <1>4, <3>1, <3>2
  <2>. QED
    BY <2>1
<1>7. \A y \in B : \E x \in A : back[x] = y
  <2>1. \A y \in B : \E h \in some : y = <<h.visitor, h.read>>
    OBVIOUS
  <2>. HIDE DEF back, B
  <2>. QED
    BY <1>4, <2>1
<1>8. \A x, y \in A : back[x] = back[y] => x = y
  <2>. SUFFICES ASSUME NEW x \in A, NEW y \in A, back[x] = back[y]
                PROVE  x = y
    OBVIOUS
  <2>1. PICK h \in some, k \in some : x = Hash(h) /\ y = Hash(k)
    BY <1>5
  <2>. HIDE DEF back
  <2>2. h.visitor = k.visitor /\ h.read = k.read
    BY <1>4, <2>1
  <2>3. h.salt = k.salt
    BY <2>2 DEF VisitInv, SaltInv, OneSalt
  <2>. QED
    BY <2>1, <2>2, <2>3 DEF Hash
<1>. HIDE DEF A, B, back
<1>9. back \in Surjection(A, B) /\ back \in Injection(A, B)
  BY <1>6, <1>7, <1>8 DEF Surjection, Injection, IsInjective
<1>10. Cardinality(B) = Cardinality(A)
  BY <1>3, <1>9, FS_Surjection
<1>. QED
  BY <1>10 DEF A, B, Visitings

LEMMA VisitsInvariance == VisitsSpec => []VisitInv
<1>1. VisitsInit => VisitInv
  BY InitVisits, VisitsAssumption
<1>2. VisitInv /\ [VisitsNext]_visitVars => VisitInv'
  <2>. SUFFICES ASSUME VisitInv, [VisitsNext]_visitVars
                PROVE  VisitInv'
    OBVIOUS
  <2>. USE VisitsAssumption
  <2>1. ASSUME NEW b \in Beacons, NEW w \in Workers, NEW v \in Visitors, Hit(b, w, v)
        PROVE  VisitInv'
    BY <2>1, HitKeeps
  <2>2. ASSUME NEW b \in Beacons, SelectSalt(b) \/ Reselect(b)
        PROVE  VisitInv'
    BY <2>2, SelectKeeps
  <2>3. ASSUME NEW b \in Beacons, InsertSalt(b)
        PROVE  VisitInv'
    BY <2>3, InsertKeeps
  <2>4. ASSUME NEW b \in Beacons, Record(b)
        PROVE  VisitInv'
    BY <2>4, RecordKeeps
  <2>5. ASSUME NEW b \in Beacons, BeaconFails(b)
        PROVE  VisitInv'
    BY <2>5, FailKeeps
  <2>6. CASE Prune
    BY <2>6, PruneKeeps
  <2>7. CASE TimeGoesOn
    BY <2>7, TimeKeeps
  <2>8. ASSUME NEW w \in Workers, RestartWorker(w)
        PROVE  VisitInv'
    BY <2>8, RestartKeeps
  <2>9. CASE UNCHANGED visitVars
    BY <2>9 DEF visitVars, VisitInv, VisitTypes, SaltInv, OneSalt, HitInv, BeaconInv, Drawn, Recent
  <2>. QED
    BY <2>1, <2>2, <2>3, <2>4, <2>5, <2>6, <2>7, <2>8, <2>9 DEF VisitsNext
<1>. QED
  BY <1>1, <1>2, PTL DEF VisitsSpec

(* However many workers serve, restart and race for the day's salt, the    *)
(* console counts a visitor once for each day it came, and the salts last  *)
(* as long as the visits they hashed.                                      *)
THEOREM VisitorsAreCounted == VisitsSpec => []VisitorsCountOnce
<1>1. VisitInv => VisitorsCountOnce
  <2>. SUFFICES ASSUME VisitInv
                PROVE  VisitorsCountOnce
    OBVIOUS
  <2>1. ASSUME NEW t \in Instants
        PROVE  Uniques(t) = Visitings({h \in hits : h.created >= t})
    <3>1. {h \in hits : h.created >= t} \in SUBSET hits
      OBVIOUS
    <3>. QED
      BY <3>1, HashesAreVisits DEF Uniques
  <2>2. ASSUME NEW d \in Days
        PROVE  DailyUniques(d) = Visitings({h \in hits : DayOf(h.created) = d})
    <3>1. {h \in hits : DayOf(h.created) = d} \in SUBSET hits
      OBVIOUS
    <3>. QED
      BY <3>1, HashesAreVisits DEF DailyUniques
  <2>3. SaltOutlivesVisits
    BY DEF SaltOutlivesVisits, VisitInv, HitInv, SaltInv
  <2>. QED
    BY <2>1, <2>2, <2>3 DEF VisitorsCountOnce, UniquesAreVisitors
<1>. QED
  BY <1>1, VisitsInvariance, PTL

-----------------------------------------------------------------------------
(* The sessions.                                                           *)

Times == 0..MaxNow
DueRows == Ids \X Times
FlushRuns == [at: {"idle", "write", "done"}, start: Times, due: SUBSET DueRows,
              written: SUBSET DueRows, alone: BOOLEAN]
PurgeRuns == [at: {"idle", "flush", "delete"}, cutoff: Int, ids: SUBSET Ids, alone: BOOLEAN,
              asked: [Tokens -> Times]]
HandlerRuns == [at: {"idle", "audit", "stamp", "end", "disconnect"},
                id: 0..MaxTokens, token: 0..MaxTokens, found: BOOLEAN]
AuditRows == [id: Ids, token: Tokens, reason: Reasons, orphan: BOOLEAN]

SessTypes ==
    /\ now \in Times
    /\ table \in [Ids -> SessionRows \cup {NoOne}]
    /\ history \in Seq(AuditRows)
    /\ stamps \in [Ids -> Stamps \cup {NoOne}]
    /\ flush \in [Flushers -> FlushRuns]
    /\ purge \in PurgeRuns
    /\ handler \in [Handlers -> HandlerRuns]
    /\ writer \in Flushers \cup {NoOne}
    /\ issued \in SUBSET Tokens /\ reused \in SUBSET Tokens /\ lost \in SUBSET Ids
    /\ asked \in [Tokens -> Times]

Told == {history[k].token : k \in DOMAIN history}
Token(i) == table[i].token
Pending(f) == flush[f].due \cup flush[f].written

(* A row's token is its own; the audit rows that name it have its id.      *)
RowsInv ==
    /\ \A i, j \in Live : Token(i) = Token(j) => i = j
    /\ \A k \in DOMAIN history : \A j \in Live : Token(j) = history[k].token => j = history[k].id
    /\ issued \subseteq Told

(* A request goes by the id of its token's row, or the newcomer that has   *)
(* the id now is known to be one.                                          *)
Names(run) ==
    /\ \A j \in Live : Token(j) = run.token => j = run.id
    /\ run.id \in Live /\ Token(run.id) # run.token => Token(run.id) \in reused
    /\ run.at = "stamp" => run.token \in Told
    /\ run.at = "disconnect" /\ ~run.found => run.token = 0
    /\ run.at \in {"audit", "stamp"} => run.id \in Ids /\ run.token \in Tokens
RequestInv == \A h \in Handlers : Names(handler[h])

(* No time is ahead of the clock, and only a token that was told is asked  *)
(* with.                                                                   *)
Asked(want) == \A t \in Tokens : want[t] <= now /\ (want[t] # 0 => t \in Told)
ClockInv ==
    /\ Asked(asked) /\ Asked(purge.asked)
    /\ \A i \in Ids : stamps[i] # NoOne => stamps[i].seen <= now /\ stamps[i].flushed <= now
    /\ \A i \in Live : table[i].seen <= now

(* What a flush has still to write, or has written and not committed, is   *)
(* what the cache held when it began; a stamp that came later will be due  *)
(* again.                                                                  *)
FlushInv(f) ==
    /\ flush[f].start <= now
    /\ flush[f].at # "write" => Pending(f) = {}
    /\ flush[f].written # {} => writer = f
    /\ \A d, e \in Pending(f) : d[1] = e[1] => d = e
    /\ \A d \in Pending(f) :
          /\ d[2] <= flush[f].start
          /\ stamps[d[1]] # NoOne =>
                stamps[d[1]].seen = d[2] \/ stamps[d[1]].seen > flush[f].start
    /\ \A d \in flush[f].written :
          /\ d[1] \in Live
          /\ stamps[d[1]] # NoOne =>
                stamps[d[1]].seen = d[2] \/ stamps[d[1]].flushed < stamps[d[1]].seen

(* What the cache holds of a session, or what its row says when the cache  *)
(* was emptied; and a stamp that the row has not is due or being written.  *)
StampInv(i) ==
    /\ asked[Token(i)] # 0 /\ stamps[i] # NoOne =>
          /\ stamps[i].seen >= asked[Token(i)]
          /\ Token(i) \notin reused => stamps[i].seen = asked[Token(i)]
    /\ asked[Token(i)] # 0 /\ stamps[i] = NoOne =>
          /\ table[i].seen >= asked[Token(i)]
          /\ \A f \in Flushers : \A d \in Pending(f) : d[1] # i
    /\ table[i].seen < asked[Token(i)] /\ i \notin lost =>
          \/ stamps[i].flushed < stamps[i].seen
          \/ \E f \in Flushers : <<i, stamps[i].seen>> \in flush[f].written

CacheInv ==
    /\ \A f \in Flushers : FlushInv(f)
    /\ \A i \in Live : StampInv(i)

(* What is wanted is on the rows or will be written by f, and nobody will  *)
(* write anything older.                                                   *)
Covers(f, want) ==
    flush[f].at # "idle" /\ flush[f].alone =>
        /\ \A g \in Flushers : \A d \in Pending(g) : d[1] \in Live => d[2] >= want[Token(d[1])]
        /\ \A i \in Live : table[i].seen >= want[Token(i)] \/ \E d \in Pending(f) : d[1] = i

PurgeInv ==
    /\ purge.at = "flush" \/ flush["purge"].at = "idle"
    /\ purge.at # "idle" => \A t \in Tokens : purge.asked[t] <= asked[t]
    /\ purge.at = "delete" =>
          /\ purge.cutoff > 0
          /\ purge.alone => \A i \in purge.ids \cap Live : purge.asked[Token(i)] < purge.cutoff

ExitInv == flush["exit"].at # "idle" => \A h \in Handlers : handler[h].at = "idle"

SessInv ==
    /\ SessTypes /\ RowsInv /\ RequestInv
    /\ ClockInv /\ CacheInv /\ ExitInv /\ PurgeInv
    /\ Covers("exit", asked) /\ Covers("purge", purge.asked)
    /\ ClosedAreGone /\ PurgedWereIdle

(* The largest of some numbers.                                            *)
LEMMA MaxOfNumbers ==
    ASSUME NEW bound \in Nat, NEW S, S \subseteq 0..bound, S # {}
    PROVE  Max(S) \in S /\ \A x \in S : x \in Nat /\ x <= Max(S)
<1>. DEFINE P(n) == \A x \in S : x <= n
<1>1. \A x \in S : x \in Nat /\ x <= bound
  OBVIOUS
<1>2. PICK n \in Nat : P(n) /\ \A k \in Nat : k < n => ~P(k)
  <2>. DEFINE B == {k \in Nat : P(k)}
  <2>1. B \subseteq Nat /\ B # {}
    BY <1>1
  <2>2. \A x, y \in Nat : <<y, x>> \in OpToRel(<, Nat) <=> y < x
    BY DEF OpToRel
  <2>3. PICK R : IsWellFoundedOn(R, Nat) /\ \A x, y \in Nat : <<y, x>> \in R <=> y < x
    BY <2>2, NatLessThanWellFounded, Zenon
  <2>4. PICK n \in B : \A y \in B : ~ (<<y, n>> \in R)
    BY <2>1, <2>3, WFMin
  <2>. QED
    BY <2>3, <2>4
<1>3. n \in S
  <2>1. SUFFICES ASSUME n \notin S
                 PROVE  FALSE
    OBVIOUS
  <2>2. \A x \in S : x <= n /\ x # n /\ x \in Nat
    BY <1>1, <1>2, <2>1
  <2>3. n # 0
    <3>1. PICK y \in S : TRUE
      OBVIOUS
    <3>. QED
      BY <2>2, <3>1
  <2>4. n - 1 \in Nat /\ n - 1 < n
    BY <2>3
  <2>5. P(n - 1)
    BY <2>2, <2>4
  <2>. QED
    BY <1>2, <2>4, <2>5
<1>4. \E x \in S : \A y \in S : x >= y
  BY <1>1, <1>2, <1>3
<1>5. Max(S) \in S /\ \A y \in S : Max(S) >= y
  BY <1>4 DEF Max
<1>. QED
  BY <1>1, <1>5

LEMMA SessionFacts ==
    ASSUME SessTypes, SessionsAssumption
    PROVE  /\ {Ttl, Interval, MaxTokens, MaxNow} \subseteq Nat
           /\ NoOne \notin Flushers /\ NoOne \notin SessionRows /\ NoOne \notin Stamps
           /\ now \in Nat /\ Ids = Tokens /\ 0 \notin Ids /\ \A i \in Ids : i \in Nat
           /\ NoFlush \in FlushRuns /\ NoHandler \in HandlerRuns /\ NoPurge \in PurgeRuns
           /\ \A i \in Live : /\ i \in Ids /\ table[i] \in SessionRows
                              /\ Token(i) \in Tokens /\ table[i].seen \in Times
           /\ \A i \in Ids : stamps[i] # NoOne =>
                 /\ stamps[i] \in Stamps /\ stamps[i].seen \in Nat /\ stamps[i].seen # 0
                 /\ stamps[i].flushed \in Int
           /\ \A t \in Tokens : asked[t] \in Nat /\ purge.asked[t] \in Nat
           /\ \A f \in Flushers :
                 /\ flush[f] \in FlushRuns /\ flush[f].start \in Nat
                 /\ \A d \in Pending(f) : d \in DueRows /\ d[1] \in Ids /\ d[2] \in Nat
<1>1. /\ {Ttl, Interval, MaxTokens, MaxNow} \subseteq Nat
      /\ NoOne \notin Flushers /\ NoOne \notin SessionRows /\ NoOne \notin Stamps
  BY DEF SessionsAssumption
<1>2. now \in Nat /\ Ids = Tokens /\ 0 \notin Ids /\ \A i \in Ids : i \in Nat
  BY <1>1 DEF SessTypes, Times, Ids, Tokens
<1>3. 0 \in Times
  BY <1>1 DEF Times
<1>4. NoFlush \in FlushRuns
  BY <1>3 DEF NoFlush, FlushRuns
<1>5. NoHandler \in HandlerRuns
  BY <1>1 DEF NoHandler, HandlerRuns
<1>6. NoPurge \in PurgeRuns
  BY <1>3 DEF NoPurge, PurgeRuns
<1>7. \A i \in Live : /\ i \in Ids /\ table[i] \in SessionRows
                      /\ Token(i) \in Tokens /\ table[i].seen \in Times
  BY DEF Live, SessTypes, SessionRows, Token, Times
<1>8. \A i \in Ids : stamps[i] # NoOne =>
         /\ stamps[i] \in Stamps /\ stamps[i].seen \in Nat /\ stamps[i].seen # 0
         /\ stamps[i].flushed \in Int
  BY <1>1 DEF SessTypes, Stamps
<1>9. \A t \in Tokens : asked[t] \in Nat /\ purge.asked[t] \in Nat
  BY <1>1 DEF SessTypes, PurgeRuns, Times
<1>10. \A f \in Flushers :
          /\ flush[f] \in FlushRuns /\ flush[f].start \in Nat
          /\ \A d \in Pending(f) : d \in DueRows /\ d[1] \in Ids /\ d[2] \in Nat
  BY <1>1 DEF SessTypes, FlushRuns, Pending, DueRows, Times
<1>. QED
  BY <1>1, <1>2, <1>4, <1>5, <1>6, <1>7, <1>8, <1>9, <1>10

(* A new session's token and id are nobody's.                              *)
LEMMA FreshToken ==
    ASSUME SessTypes, SessionsAssumption
    PROVE  /\ NextToken \in Nat \ {0} /\ NextToken \notin Told
           /\ \A i \in Live : Token(i) # NextToken
           /\ \A h \in Handlers : handler[h].token # NextToken
<1>. DEFINE S == {0} \cup {history[k].token : k \in DOMAIN history}
                     \cup {table[i].token : i \in Live}
                     \cup {handler[h].token : h \in Handlers}
<1>1. MaxTokens \in Nat
  BY DEF SessionsAssumption
<1>2. \A k \in DOMAIN history : history[k].token \in 0..MaxTokens
  <2>1. \A k \in DOMAIN history : history[k] \in AuditRows
    BY LenProperties DEF SessTypes
  <2>. QED
    BY <1>1, <2>1 DEF AuditRows, Tokens
<1>3. \A i \in Live : table[i].token \in 0..MaxTokens
  BY <1>1, SessionFacts DEF Token, Tokens
<1>4. \A h \in Handlers : handler[h].token \in 0..MaxTokens
  BY DEF SessTypes, HandlerRuns
<1>5. S \subseteq 0..MaxTokens /\ S # {}
  BY <1>1, <1>2, <1>3, <1>4
<1>6. Max(S) \in S /\ \A x \in S : x \in Nat /\ x <= Max(S)
  <2>. HIDE DEF S
  <2>. QED
    BY <1>1, <1>5, MaxOfNumbers
<1>7. NextToken = 1 + Max(S)
  BY DEF NextToken
<1>8. \A x \in S : x # NextToken
  <2>. HIDE DEF S
  <2>. QED
    BY <1>6, <1>7
<1>9. NextToken \in Nat \ {0}
  <2>. HIDE DEF S
  <2>. QED
    BY <1>6, <1>7
<1>. QED
  BY <1>8, <1>9 DEF Told, Token

LEMMA FreshId ==
    ASSUME SessTypes, SessionsAssumption
    PROVE  NewId \notin Live
<1>1. MaxTokens \in Nat /\ Live \subseteq 0..MaxTokens
  BY DEF SessionsAssumption, Live, Ids
<1>2. CASE Live # {}
  <2>1. Max(Live) \in Live /\ \A x \in Live : x \in Nat /\ x <= Max(Live)
    BY <1>1, <1>2, MaxOfNumbers
  <2>. QED
    BY <1>2, <2>1 DEF NewId
<1>. QED
  BY <1>2

-----------------------------------------------------------------------------
(* Steps of requests.                                                      *)

(* The clock may run, and audit rows come, while rows and cache rest.      *)
LEMMA CacheRests ==
    ASSUME SessInv, SessionsAssumption, now' \in Times, now <= now',
           UNCHANGED <<table, stamps, flush, writer, lost, asked, reused>>,
           Told \subseteq Told', purge'.asked = purge.asked
    PROVE  /\ CacheInv' /\ ClockInv'
           /\ Covers("exit", asked)' /\ Covers("purge", purge.asked)'
<1>1. /\ now \in Nat /\ now' \in Nat /\ Live' = Live /\ \A i : Token(i)' = Token(i)
      /\ \A f : Pending(f)' = Pending(f)
  BY SessionFacts DEF SessInv, Live, Token, Pending, Times, SessionsAssumption
<1>2. \A f \in Flushers : FlushInv(f)'
  BY <1>1, SessionFacts DEF SessInv, CacheInv, FlushInv
<1>3. \A i \in Live : StampInv(i)'
  BY <1>1 DEF SessInv, CacheInv, StampInv
<1>4. ClockInv'
  <2>1. Asked(asked)'
    BY <1>1, SessionFacts DEF SessInv, ClockInv, Asked
  <2>2. Asked(purge.asked)'
    BY <1>1, SessionFacts DEF SessInv, ClockInv, Asked
  <2>3. \A i \in Ids : stamps'[i] # NoOne => stamps'[i].seen <= now' /\ stamps'[i].flushed <= now'
    BY <1>1, SessionFacts DEF SessInv, ClockInv
  <2>4. \A i \in Live' : table'[i].seen <= now'
    <3>1. ASSUME NEW i \in Live
          PROVE  table[i].seen <= now'
      <4>1. table[i].seen <= now /\ table[i].seen \in Nat
        BY SessionFacts DEF SessInv, ClockInv, Times, SessionsAssumption
      <4>. QED
        BY <1>1, <4>1
    <3>. QED
      BY <1>1, <3>1
  <2>. QED
    BY <2>1, <2>2, <2>3, <2>4 DEF ClockInv
<1>5. Covers("exit", asked)' /\ Covers("purge", purge.asked)'
  BY <1>1 DEF SessInv, Covers
<1>. QED
  BY <1>1, <1>2, <1>3, <1>4, <1>5 DEF CacheInv

LEMMA HandlerSteps ==
    ASSUME SessInv, SessionsAssumption, NEW h \in Handlers, NEW run \in HandlerRuns,
           handler' = [handler EXCEPT ![h] = run], Names(run),
           run.at # "idle" => Serving,
           UNCHANGED <<now, table, history, stamps, flush, purge, writer, issued, reused, asked,
                       lost, purged>>
    PROVE  SessInv'
<1>1. SessTypes'
  BY DEF SessInv, SessTypes
<1>2. now' \in Times /\ now <= now' /\ Told' = Told /\ Live' = Live /\ \A i : Token(i)' = Token(i)
  BY SessionFacts DEF SessInv, SessTypes, Told, Live, Token
<1>3. RowsInv'
  BY <1>2 DEF SessInv, RowsInv
<1>4. RequestInv'
  <2>1. ASSUME NEW g \in Handlers
        PROVE  Names(handler[g])'
    <3>1. PICK after \in HandlerRuns : after = handler'[g] /\ Names(after)
      BY DEF SessInv, SessTypes, RequestInv
    <3>2. Names(after)'
      BY <1>2, <3>1 DEF Names
    <3>. QED
      BY <3>1, <3>2
  <2>. QED
    BY <2>1 DEF RequestInv
<1>5. CacheInv' /\ ClockInv' /\ Covers("exit", asked)' /\ Covers("purge", purge.asked)'
  BY <1>2, CacheRests
<1>6. ExitInv'
  BY DEF SessInv, SessTypes, ExitInv, Serving
<1>7. PurgeInv'
  BY <1>2 DEF SessInv, PurgeInv
<1>8. ClosedAreGone' /\ PurgedWereIdle'
  BY <1>2 DEF SessInv, ClosedAreGone, PurgedWereIdle, IsLive, Live
<1>. QED
  BY <1>1, <1>3, <1>4, <1>5, <1>6, <1>7, <1>8 DEF SessInv

LEMMA NobodyNames ==
    ASSUME SessTypes, SessionsAssumption
    PROVE  Names(NoHandler)
  BY SessionFacts DEF Names, NoHandler

LEMMA RequestsKeep ==
    ASSUME SessInv, SessionsAssumption, NEW h \in Handlers,
           \/ \E t \in Tokens : Resolve(h, t) \/ EndSelect(h, t)
           \/ \E k \in DOMAIN history : DisconnectSelect(h, k)
           \/ HandlerFails(h)
    PROVE  SessInv'
<1>1. ASSUME NEW t \in Tokens, t \in issued, IsLive(t)
      PROVE  /\ IdOf(t) \in Live /\ Token(IdOf(t)) = t /\ t \in Told
             /\ \A j \in Live : Token(j) = t => j = IdOf(t)
  <2>1. IdOf(t) \in Live /\ Token(IdOf(t)) = t
    BY <1>1 DEF IsLive, IdOf, Token
  <2>. QED
    BY <1>1, <2>1 DEF SessInv, RowsInv
<1>2. ASSUME NEW t \in Tokens, NEW at \in {"stamp", "end"}, Serving, t \in issued, IsLive(t),
             Goto(h, at, IdOf(t), t),
             UNCHANGED <<now, rowVars, history, flushVars, purge, tokenVars, ghostVars, upsets>>
      PROVE  SessInv'
  <2>. DEFINE run == [at |-> at, id |-> IdOf(t), token |-> t, found |-> IdOf(t) \in Live]
  <2>1. IdOf(t) \in Ids
    BY <1>1, <1>2 DEF Live
  <2>2. run \in HandlerRuns /\ IdOf(t) \in 0..MaxTokens /\ t \in 0..MaxTokens
    BY <2>1, SessionFacts DEF HandlerRuns, Ids, Tokens, SessInv
  <2>3. Names(run)
    BY <1>1, <1>2, <2>1 DEF Names
  <2>4. handler' = [handler EXCEPT ![h] = run]
    BY <1>2 DEF Goto
  <2>. QED
    BY <1>2, <2>2, <2>3, <2>4, HandlerSteps DEF rowVars, flushVars, tokenVars, ghostVars
<1>3. CASE \E t \in Tokens : Resolve(h, t) \/ EndSelect(h, t)
  BY <1>2, <1>3 DEF Resolve, EndSelect
<1>4. ASSUME NEW k \in DOMAIN history, DisconnectSelect(h, k)
      PROVE  SessInv'
  <2>1. PICK i \in Ids : i = history[k].id
    <3>1. history[k] \in AuditRows
      BY <1>4, LenProperties DEF SessInv, SessTypes
    <3>. QED
      BY <3>1 DEF AuditRows
  <2>2. PICK t \in 0..MaxTokens : /\ t = IF i \in Live THEN table[i].token ELSE 0
                                  /\ i \in Live => t \in Tokens
    BY SessionFacts, SMTT(30) DEF SessInv, Token, Tokens
  <2>. DEFINE run == [at |-> "disconnect", id |-> i, token |-> t, found |-> i \in Live]
  <2>3. run \in HandlerRuns /\ 0 \notin Tokens
    BY <2>1, SessionFacts DEF HandlerRuns, Ids, Tokens, SessInv
  <2>4. Names(run)
    BY <2>1, <2>2, <2>3, SessionFacts DEF Names, SessInv, RowsInv, Token
  <2>5. handler' = [handler EXCEPT ![h] = run] /\ Serving
    BY <1>4, <2>1, <2>2 DEF DisconnectSelect, Goto
  <2>. QED
    BY <1>4, <2>3, <2>4, <2>5, HandlerSteps
       DEF DisconnectSelect, rowVars, flushVars, tokenVars, ghostVars
<1>5. CASE HandlerFails(h)
  <2>1. NoHandler \in HandlerRuns /\ Names(NoHandler) /\ NoHandler.at = "idle"
    BY SessionFacts, NobodyNames DEF SessInv, NoHandler
  <2>. QED
    BY <1>5, <2>1, HandlerSteps
       DEF HandlerFails, Done, rowVars, flushVars, tokenVars, ghostVars
<1>. QED
  BY <1>3, <1>4, <1>5

(* A row comes: its token was nobody's, and whoever goes by its id is      *)
(* written down.                                                           *)
LEMMA NewRowKeeps ==
    ASSUME SessInv, SessionsAssumption, NEW t \in Tokens, NEW i, i = NewId, NewRow(t),
           UNCHANGED <<now, stamps, flush, writer, purge, lost, asked>>, Told \subseteq Told'
    PROVE  /\ table' \in [Ids -> SessionRows \cup {NoOne}] /\ reused' \in SUBSET Tokens
           /\ i \in Ids /\ Live' = Live \cup {i} /\ i \notin Live
           /\ Token(i)' = t /\ t \notin Told
           /\ \A j \in Live : Token(j)' = Token(j) /\ Token(j) # t
           /\ \A j \in Live : (Token(j) \in reused' <=> Token(j) \in reused)
           /\ reused' \subseteq reused \cup {t} /\ reused \subseteq reused'
           /\ \A h \in Handlers : handler[h].token # t /\ (handler[h].id = i => t \in reused')
           /\ CacheInv' /\ ClockInv' /\ PurgeInv'
           /\ Covers("exit", asked)' /\ Covers("purge", purge.asked)'
<1>0. PICK n \in Times : n = now
  BY DEF SessInv, SessTypes
<1>. DEFINE row == [token |-> t, seen |-> n]
<1>1. /\ i \in Ids /\ i \notin Live /\ t \notin Told /\ table' = [table EXCEPT ![i] = row]
      /\ \A j \in Live : Token(j) # t
      /\ \A h \in Handlers : handler[h].token # t
      /\ reused' = IF StillNamed(i) THEN reused \cup {t} ELSE reused
  BY <1>0, FreshId, FreshToken DEF NewRow, Created, SessInv
<1>2. row \in SessionRows /\ row # NoOne /\ row.token = t /\ row.seen = n
  BY SessionFacts DEF SessInv, SessTypes, SessionRows, Times
<1>. HIDE DEF row
<1>3. table' \in [Ids -> SessionRows \cup {NoOne}] /\ reused' \in SUBSET Tokens
  BY <1>1, <1>2 DEF SessInv, SessTypes
<1>4. Live' = Live \cup {i} /\ table'[i] = row /\ \A j \in Live : table'[j] = table[j]
  BY <1>1, <1>2 DEF SessInv, SessTypes, Live
<1>5. Token(i)' = t /\ \A j \in Live : Token(j)' = Token(j)
  BY <1>2, <1>4 DEF Token
<1>6. \A h \in Handlers : handler[h].id = i => t \in reused'
  BY <1>1 DEF StillNamed
<1>7. /\ \A j \in Live : (Token(j) \in reused' <=> Token(j) \in reused)
      /\ reused \subseteq reused' /\ reused' \subseteq reused \cup {t}
  BY <1>1
<1>8. asked[t] = 0 /\ purge.asked[t] = 0
  BY <1>1 DEF SessInv, ClockInv, Asked
<1>9. \A f : Pending(f)' = Pending(f)
  BY DEF Pending
<1>10. \A f \in Flushers : FlushInv(f)'
  BY <1>4, <1>9 DEF SessInv, CacheInv, FlushInv
<1>11. now \in Nat /\ row.seen = now /\ now' = now
  BY <1>0, <1>2, SessionFacts DEF SessInv
<1>12. \A j \in Live' : StampInv(j)'
  <2>1. ASSUME NEW j \in Live
        PROVE  StampInv(j)'
    <3>1. StampInv(j) /\ table'[j] = table[j] /\ Token(j)' = Token(j)
          /\ (Token(j) \in reused' <=> Token(j) \in reused)
      BY <1>4, <1>5, <1>7, <2>1 DEF SessInv, CacheInv
    <3>. QED
      BY <1>9, <3>1 DEF StampInv
  <2>2. StampInv(i)'
    <3>1. asked'[t] = 0 /\ table'[i].seen \in Nat /\ ~ (table'[i].seen < 0)
      BY <1>4, <1>8, <1>11
    <3>. QED
      BY <1>5, <3>1 DEF StampInv
  <2>. QED
    BY <1>4, <2>1, <2>2
<1>13. ClockInv'
  <2>1. \A j \in Live' : table'[j].seen <= now'
    <3>1. \A j \in Live : table[j].seen <= now
      BY DEF SessInv, ClockInv
    <3>. QED
      BY <1>4, <1>11, <3>1
  <2>2. Asked(asked)' /\ Asked(purge.asked)'
    BY <1>11 DEF SessInv, ClockInv, Asked
  <2>. QED
    BY <2>1, <2>2 DEF SessInv, ClockInv
<1>14. ASSUME NEW f \in {"exit", "purge"}, NEW want \in [Tokens -> Times], want[t] = 0,
              Covers(f, want)
       PROVE  Covers(f, want)'
  <2>. SUFFICES ASSUME flush[f].at # "idle", flush[f].alone
                PROVE  /\ \A g \in Flushers : \A d \in Pending(g) :
                             d[1] \in Live' => d[2] >= want[Token(d[1])']
                       /\ \A j \in Live' : \/ table'[j].seen >= want[Token(j)']
                                           \/ \E d \in Pending(f) : d[1] = j
    BY <1>9 DEF Covers
  <2>1. \A g \in Flushers : \A d \in Pending(g) : d[1] \in Live => d[2] >= want[Token(d[1])]
    BY <1>14 DEF Covers
  <2>2. \A j \in Live : table[j].seen >= want[Token(j)] \/ \E d \in Pending(f) : d[1] = j
    BY <1>14 DEF Covers
  <2>3. \A g \in Flushers : \A d \in Pending(g) : d[2] \in Nat
    BY SessionFacts DEF SessInv
  <2>4. \A g \in Flushers : \A d \in Pending(g) : d[1] \in Live' => d[2] >= want[Token(d[1])']
    BY <1>4, <1>5, <1>14, <2>1, <2>3
  <2>5. \A j \in Live' : table'[j].seen >= want[Token(j)'] \/ \E d \in Pending(f) : d[1] = j
    BY <1>4, <1>5, <1>11, <1>14, <2>2
  <2>. QED
    BY <2>4, <2>5
<1>15. Covers("exit", asked)' /\ Covers("purge", purge.asked)'
  <2>1. PICK w \in [Tokens -> Times], v \in [Tokens -> Times] : w = asked /\ v = purge.asked
    BY DEF SessInv, SessTypes, PurgeRuns
  <2>2. asked' = w /\ purge'.asked = v /\ w[t] = 0 /\ v[t] = 0
    BY <1>8, <2>1
  <2>3. Covers("exit", w)' /\ Covers("purge", v)'
    BY <1>14, <2>1, <2>2 DEF SessInv
  <2>. QED
    BY <2>2, <2>3 DEF Covers
<1>16. PurgeInv'
  <2>1. ASSUME NEW j \in purge.ids \cap Live', purge.at = "delete", purge.alone
        PROVE  purge.asked[Token(j)'] < purge.cutoff
    <3>1. purge.cutoff > 0 /\ \A k \in purge.ids \cap Live : purge.asked[Token(k)] < purge.cutoff
      BY <2>1 DEF SessInv, PurgeInv
    <3>. QED
      BY <1>4, <1>5, <1>8, <2>1, <3>1
  <2>. QED
    BY <2>1 DEF SessInv, PurgeInv
<1>. QED
  BY <1>1, <1>3, <1>4, <1>5, <1>6, <1>7, <1>10, <1>12, <1>13, <1>15, <1>16 DEF CacheInv

(* An audit row is added at the end.                                       *)
LEMMA Audited ==
    ASSUME SessTypes, NEW i \in Ids, NEW t \in Tokens, NEW b \in BOOLEAN, Audit(i, t, b)
    PROVE  /\ history' \in Seq(AuditRows) /\ Told' = Told \cup {t}
           /\ \A k \in DOMAIN history : k \in DOMAIN history' /\ history'[k] = history[k]
           /\ \A k \in DOMAIN history' :
                 \/ k \in DOMAIN history
                 \/ /\ history'[k].id = i /\ history'[k].token = t
                    /\ history'[k].reason = "open" /\ history'[k].orphan = b
                    /\ k = Len(history) + 1
<1>. DEFINE row == [id |-> i, token |-> t, reason |-> "open", orphan |-> b]
<1>1. row \in AuditRows /\ row.id = i /\ row.token = t /\ row.reason = "open" /\ row.orphan = b
  BY DEF AuditRows, Reasons
<1>2. history \in Seq(AuditRows) /\ history' = Append(history, row)
  BY DEF SessTypes, Audit
<1>. HIDE DEF row
<1>3. /\ history' \in Seq(AuditRows) /\ Len(history') = Len(history) + 1
      /\ \A k \in 1..Len(history) : history'[k] = history[k]
      /\ history'[Len(history) + 1] = row
  BY <1>1, <1>2, AppendProperties
<1>4. /\ Len(history) \in Nat /\ DOMAIN history = 1..Len(history)
      /\ DOMAIN history' = 1..(Len(history) + 1)
  BY <1>2, <1>3, LenProperties
<1>5. \A k \in DOMAIN history' : k \in DOMAIN history \/ k = Len(history) + 1
  BY <1>4
<1>6. \A k \in DOMAIN history : k \in DOMAIN history' /\ history'[k] = history[k]
  BY <1>3, <1>4
<1>7. Len(history) + 1 \in DOMAIN history'
  BY <1>4
<1>. QED
  BY <1>1, <1>3, <1>5, <1>6, <1>7 DEF Told

(* Whoever was at work when a row came still goes by an id as it may.      *)
LEMMA NamesWithNewRow ==
    ASSUME NEW run \in HandlerRuns, Names(run), NEW i, NEW t,
           Live' = Live \cup {i}, i \notin Live, Token(i)' = t,
           \A j \in Live : Token(j)' = Token(j),
           reused \subseteq reused', Told \subseteq Told',
           run.token # t, run.id = i => t \in reused'
    PROVE  Names(run)'
<1>1. \A j \in Live' : Token(j)' = run.token => j = run.id
  BY DEF Names
<1>2. run.id \in Live' /\ Token(run.id)' # run.token => Token(run.id)' \in reused'
  <2>1. CASE run.id = i
    BY <2>1
  <2>2. CASE run.id \in Live
    BY <2>2 DEF Names
  <2>. QED
    BY <2>1, <2>2
<1>3. run.at = "stamp" => run.token \in Told'
  BY DEF Names
<1>. QED
  BY <1>1, <1>2, <1>3 DEF Names

LEMMA CreateKeeps ==
    ASSUME SessInv, SessionsAssumption, NEW t \in Tokens,
           (\E h \in Handlers : CreateSession(h, t)) \/ CreateLinked(t)
    PROVE  SessInv'
<1>0. PICK i : i = NewId
  OBVIOUS
<1>1. ASSUME NEW h \in Handlers, CreateSession(h, t)
      PROVE  SessInv'
  <2>1. /\ NewRow(t) /\ Told' = Told /\ Serving
        /\ UNCHANGED <<now, history, stamps, flush, writer, purge, issued, lost, asked, purged>>
    BY <1>1 DEF CreateSession, Goto, flushVars, ghostVars, Told
  <2>2. /\ table' \in [Ids -> SessionRows \cup {NoOne}] /\ reused' \in SUBSET Tokens
        /\ i \in Ids /\ Live' = Live \cup {i} /\ i \notin Live
        /\ Token(i)' = t /\ t \notin Told
        /\ \A j \in Live : Token(j)' = Token(j) /\ Token(j) # t
        /\ \A j \in Live : (Token(j) \in reused' <=> Token(j) \in reused)
        /\ reused' \subseteq reused \cup {t} /\ reused \subseteq reused'
        /\ \A g \in Handlers : handler[g].token # t /\ (handler[g].id = i => t \in reused')
        /\ CacheInv' /\ ClockInv' /\ PurgeInv'
        /\ Covers("exit", asked)' /\ Covers("purge", purge.asked)'
    BY <1>0, <2>1, NewRowKeeps
  <2>3. PICK run \in HandlerRuns :
             /\ handler' = [handler EXCEPT ![h] = run]
             /\ run.at = "audit" /\ run.id = i /\ run.token = t
    <3>. DEFINE r == [at |-> "audit", id |-> i, token |-> t, found |-> i \in Live]
    <3>1. i \in 0..MaxTokens /\ t \in 0..MaxTokens
      BY <2>2, SessionFacts DEF Ids, Tokens, SessInv
    <3>2. r \in HandlerRuns
      BY <3>1 DEF HandlerRuns
    <3>3. handler' = [handler EXCEPT ![h] = r]
      BY <1>0, <1>1 DEF CreateSession, Goto
    <3>. QED
      BY <3>2, <3>3
  <2>4. SessTypes'
    BY <2>1, <2>2, <2>3 DEF SessInv, SessTypes
  <2>5. RowsInv'
    <3>1. \A k \in DOMAIN history : history[k].token # t
      BY <2>2 DEF Told
    <3>2. \A k \in DOMAIN history : \A j \in Live' : Token(j)' = history[k].token => j = history[k].id
      BY <2>2, <3>1 DEF SessInv, RowsInv
    <3>3. \A j, l \in Live' : Token(j)' = Token(l)' => j = l
      BY <2>2 DEF SessInv, RowsInv
    <3>. QED
      BY <2>1, <3>2, <3>3 DEF SessInv, RowsInv
  <2>6. RequestInv'
    <3>1. Names(run)'
      BY <2>2, <2>3 DEF Names
    <3>2. ASSUME NEW g \in Handlers, g # h
          PROVE  Names(handler[g])'
      <4>1. PICK r \in HandlerRuns : r = handler[g] /\ r = handler'[g] /\ Names(r)
        BY <2>3, <3>2 DEF SessInv, SessTypes, RequestInv
      <4>2. r.token # t /\ (r.id = i => t \in reused')
        BY <2>2, <4>1
      <4>3. Names(r)'
        BY <2>1, <2>2, <4>1, <4>2, NamesWithNewRow
      <4>. QED
        BY <4>1, <4>3
    <3>3. handler'[h] = run
      BY <2>3 DEF SessInv, SessTypes
    <3>4. Names(handler[h])'
      BY <3>1, <3>3
    <3>. QED
      BY <3>2, <3>4 DEF RequestInv
  <2>7. ExitInv'
    BY <2>1 DEF ExitInv, Serving
  <2>8. ClosedAreGone' /\ PurgedWereIdle'
    <3>1. ASSUME NEW k \in DOMAIN history, IsLive(history[k].token)',
                 history[k].token \notin reused'
          PROVE  history[k].reason = "open"
      <4>1. PICK j \in Live' : Token(j)' = history'[k].token
        BY <3>1 DEF IsLive, Token
      <4>2. history'[k].token \in Told /\ history'[k] = history[k]
        BY <2>1 DEF Told
      <4>3. j \in Live /\ Token(j) = history[k].token /\ history[k].token \notin reused
        BY <2>2, <3>1, <4>1, <4>2
      <4>. QED
        BY <4>3 DEF SessInv, ClosedAreGone, IsLive, Token
    <3>2. ClosedAreGone'
      BY <2>1, <3>1 DEF ClosedAreGone
    <3>. QED
      BY <2>1, <3>2 DEF SessInv, PurgedWereIdle
  <2>. QED
    BY <2>2, <2>4, <2>5, <2>6, <2>7, <2>8 DEF SessInv
<1>2. CASE CreateLinked(t)
  <2>1. /\ NewRow(t) /\ Audit(i, t, FALSE) /\ Serving /\ issued' = issued \cup {t} /\ i \in Ids
        /\ UNCHANGED <<now, stamps, flush, writer, purge, handler, lost, asked, purged>>
    BY <1>0, <1>2 DEF CreateLinked, flushVars, ghostVars, NewRow
  <2>2. /\ history' \in Seq(AuditRows) /\ Told' = Told \cup {t}
        /\ \A k \in DOMAIN history : k \in DOMAIN history' /\ history'[k] = history[k]
        /\ \A k \in DOMAIN history' :
              \/ k \in DOMAIN history
              \/ /\ history'[k].id = i /\ history'[k].token = t
                 /\ history'[k].reason = "open"
    <3>1. PICK b \in BOOLEAN : b = FALSE
      OBVIOUS
    <3>2. Audit(i, t, b)
      BY <2>1, <3>1
    <3>. QED
      BY <2>1, <3>2, Audited DEF SessInv
  <2>3. /\ table' \in [Ids -> SessionRows \cup {NoOne}] /\ reused' \in SUBSET Tokens
        /\ i \in Ids /\ Live' = Live \cup {i} /\ i \notin Live
        /\ Token(i)' = t /\ t \notin Told
        /\ \A j \in Live : Token(j)' = Token(j) /\ Token(j) # t
        /\ \A j \in Live : (Token(j) \in reused' <=> Token(j) \in reused)
        /\ reused' \subseteq reused \cup {t} /\ reused \subseteq reused'
        /\ \A g \in Handlers : handler[g].token # t /\ (handler[g].id = i => t \in reused')
        /\ CacheInv' /\ ClockInv' /\ PurgeInv'
        /\ Covers("exit", asked)' /\ Covers("purge", purge.asked)'
    BY <1>0, <2>1, <2>2, NewRowKeeps
  <2>4. SessTypes'
    BY <2>1, <2>2, <2>3 DEF SessInv, SessTypes
  <2>5. RowsInv'
    <3>1. \A j, l \in Live' : Token(j)' = Token(l)' => j = l
      BY <2>3 DEF SessInv, RowsInv
    <3>2. ASSUME NEW k \in DOMAIN history', NEW j \in Live', Token(j)' = history'[k].token
          PROVE  j = history'[k].id
      <4>1. CASE k \in DOMAIN history
        <5>1. history[k].token \in Told /\ history'[k] = history[k]
          BY <2>2, <4>1 DEF Told
        <5>2. j \in Live /\ Token(j) = history[k].token
          BY <2>3, <3>2, <5>1
        <5>. QED
          BY <4>1, <5>1, <5>2 DEF SessInv, RowsInv
      <4>2. CASE k \notin DOMAIN history
        BY <2>2, <2>3, <3>2, <4>2
      <4>. QED
        BY <4>1, <4>2
    <3>3. issued' \subseteq Told'
      BY <2>1, <2>2 DEF SessInv, RowsInv
    <3>. QED
      BY <3>1, <3>2, <3>3 DEF RowsInv
  <2>6. RequestInv'
    <3>1. ASSUME NEW g \in Handlers
          PROVE  Names(handler[g])'
      <4>1. PICK r \in HandlerRuns : r = handler[g] /\ r = handler'[g] /\ Names(r)
        BY <2>1 DEF SessInv, SessTypes, RequestInv
      <4>2. r.token # t /\ (r.id = i => t \in reused') /\ Told \subseteq Told'
        BY <2>2, <2>3, <4>1
      <4>3. Names(r)'
        BY <2>3, <4>1, <4>2, NamesWithNewRow
      <4>. QED
        BY <4>1, <4>3
    <3>. QED
      BY <3>1 DEF RequestInv
  <2>7. ExitInv'
    BY <2>1 DEF ExitInv, Serving
  <2>8. ClosedAreGone' /\ PurgedWereIdle'
    <3>1. ASSUME NEW k \in DOMAIN history', IsLive(history[k].token)',
                 history'[k].token \notin reused'
          PROVE  history'[k].reason = "open"
      <4>1. PICK j \in Live' : Token(j)' = history'[k].token
        BY <3>1 DEF IsLive, Token
      <4>2. CASE k \in DOMAIN history
        <5>1. history[k].token \in Told /\ history'[k] = history[k]
          BY <2>2, <4>2 DEF Told
        <5>2. j \in Live /\ Token(j) = history[k].token /\ history[k].token \notin reused
          BY <2>3, <3>1, <4>1, <5>1
        <5>. QED
          BY <4>2, <5>1, <5>2 DEF SessInv, ClosedAreGone, IsLive, Token
      <4>3. CASE k \notin DOMAIN history
        BY <2>2, <4>3
      <4>. QED
        BY <4>2, <4>3
    <3>2. ClosedAreGone'
      BY <3>1 DEF ClosedAreGone
    <3>. QED
      BY <2>1, <3>2 DEF SessInv, PurgedWereIdle
  <2>. QED
    BY <2>3, <2>4, <2>5, <2>6, <2>7, <2>8 DEF SessInv
<1>. QED
  BY <1>1, <1>2

LEMMA AuditKeeps ==
    ASSUME SessInv, SessionsAssumption, NEW h \in Handlers, CreateAudit(h)
    PROVE  SessInv'
<1>1. PICK run \in HandlerRuns : /\ run = handler[h] /\ Names(run) /\ run.at = "audit"
                                 /\ run.id \in Ids /\ run.token \in Tokens
  <2>1. PICK r \in HandlerRuns : r = handler[h] /\ Names(r) /\ r.at = "audit"
    BY DEF CreateAudit, SessInv, SessTypes, RequestInv
  <2>. QED
    BY <2>1 DEF Names
<1>2. /\ Audit(run.id, run.token, ~IsLive(run.token)) /\ issued' = issued \cup {run.token}
      /\ handler' = [handler EXCEPT ![h] = NoHandler]
      /\ UNCHANGED <<now, table, lost, stamps, flush, writer, purge, reused, asked, purged>>
  BY <1>1 DEF CreateAudit, Done, rowVars, flushVars, ghostVars
<1>3. PICK i \in Ids, t \in Tokens, b \in BOOLEAN :
         i = run.id /\ t = run.token /\ b = ~IsLive(run.token)
  BY <1>1 DEF IsLive
<1>4. /\ history' \in Seq(AuditRows) /\ Told' = Told \cup {t}
      /\ \A k \in DOMAIN history : k \in DOMAIN history' /\ history'[k] = history[k]
      /\ \A k \in DOMAIN history' :
            \/ k \in DOMAIN history
            \/ /\ history'[k].id = i /\ history'[k].token = t
               /\ history'[k].reason = "open"
  <2>1. Audit(i, t, b)
    BY <1>2, <1>3, Zenon
  <2>. QED
    BY <2>1, Audited DEF SessInv
<1>5. Live' = Live /\ (\A j : Token(j)' = Token(j)) /\ now' \in Times /\ now <= now'
  BY <1>2, SessionFacts DEF Live, Token, SessInv, SessTypes
<1>6. NoHandler \in HandlerRuns /\ Names(NoHandler)'
  <2>1. 0 \notin Live /\ \A j \in Live : Token(j) # 0
    BY SessionFacts DEF SessInv
  <2>. QED
    BY <1>5, <2>1, SessionFacts DEF SessInv, Names, NoHandler
<1>7. SessTypes'
  BY <1>2, <1>3, <1>4, <1>6 DEF SessInv, SessTypes
<1>8. RowsInv'
  <2>1. \A i1, j \in Live' : Token(i1)' = Token(j)' => i1 = j
    BY <1>5 DEF SessInv, RowsInv
  <2>2. ASSUME NEW k \in DOMAIN history', NEW j \in Live', Token(j)' = history'[k].token
        PROVE  j = history'[k].id
    <3>1. CASE k \in DOMAIN history
      <4>1. j \in Live /\ Token(j) = history[k].token /\ history'[k] = history[k]
        BY <1>4, <1>5, <2>2, <3>1
      <4>. QED
        BY <3>1, <4>1 DEF SessInv, RowsInv
    <3>2. CASE k \notin DOMAIN history
      <4>1. j \in Live /\ Token(j) = run.token /\ history'[k].id = run.id
        BY <1>3, <1>4, <1>5, <2>2, <3>2
      <4>. QED
        BY <1>1, <4>1 DEF Names
    <3>. QED
      BY <3>1, <3>2
  <2>3. issued' \subseteq Told'
    BY <1>2, <1>3, <1>4 DEF SessInv, RowsInv
  <2>. QED
    BY <2>1, <2>2, <2>3 DEF RowsInv
<1>9. RequestInv'
  <2>1. ASSUME NEW g \in Handlers
        PROVE  Names(handler[g])'
    <3>1. PICK r \in HandlerRuns : r = handler'[g] /\ (r = NoHandler \/ Names(r))
      BY <1>2, <1>6 DEF SessInv, SessTypes, RequestInv
    <3>2. Names(r)'
      BY <1>2, <1>4, <1>5, <1>6, <3>1 DEF Names
    <3>. QED
      BY <3>1, <3>2
  <2>. QED
    BY <2>1 DEF RequestInv
<1>10. CacheInv' /\ ClockInv' /\ Covers("exit", asked)' /\ Covers("purge", purge.asked)'
  BY <1>2, <1>4, <1>5, CacheRests
<1>11. ExitInv'
  BY <1>1, <1>2 DEF SessInv, SessTypes, ExitInv
<1>12. PurgeInv'
  BY <1>2, <1>5 DEF SessInv, PurgeInv
<1>13. ClosedAreGone' /\ PurgedWereIdle'
  <2>1. ASSUME NEW k \in DOMAIN history', IsLive(history[k].token)',
               history'[k].token \notin reused'
        PROVE  history'[k].reason = "open"
    <3>1. CASE k \in DOMAIN history
      <4>1. history'[k] = history[k]
        BY <1>4, <3>1
      <4>2. IsLive(history[k].token) /\ history[k].token \notin reused
        BY <1>2, <2>1, <4>1 DEF IsLive, Live
      <4>. QED
        BY <3>1, <4>1, <4>2 DEF SessInv, ClosedAreGone
    <3>2. CASE k \notin DOMAIN history
      BY <1>4, <3>2
    <3>. QED
      BY <3>1, <3>2
  <2>2. ClosedAreGone'
    BY <2>1 DEF ClosedAreGone
  <2>. QED
    BY <1>2, <2>2 DEF SessInv, PurgedWereIdle
<1>. QED
  BY <1>7, <1>8, <1>9, <1>10, <1>11, <1>12, <1>13 DEF SessInv

(* A run that is over is no record of anything.                            *)
LEMMA IdleNamesNobody ==
    ASSUME SessTypes, SessionsAssumption
    PROVE  NoHandler \in HandlerRuns /\ NoHandler.at = "idle" /\ Names(NoHandler)
  BY SessionFacts, NobodyNames DEF NoHandler

LEMMA StampKeeps ==
    ASSUME SessInv, SessionsAssumption, NEW h \in Handlers, Stamp(h)
    PROVE  SessInv'
<1>1. PICK run \in HandlerRuns : /\ run = handler[h] /\ Names(run) /\ run.at = "stamp"
                                 /\ run.id \in Ids /\ run.token \in Tokens
  <2>1. PICK r \in HandlerRuns : r = handler[h] /\ Names(r) /\ r.at = "stamp"
    BY DEF Stamp, SessInv, SessTypes, RequestInv
  <2>. QED
    BY <2>1 DEF Names
<1>2. PICK i \in Ids, t \in Tokens : i = run.id /\ t = run.token
  BY <1>1
<1>3. PICK n \in Times : n = now + 1 /\ now' = n /\ now \in Nat /\ now < n /\ n \in Nat /\ n # 0
  <2>1. now \in Nat /\ MaxNow \in Nat /\ now < MaxNow /\ now' = now + 1
    BY SessionFacts DEF Stamp, Tick, SessInv
  <2>. QED
    BY <2>1 DEF Times
<1>4. PICK fl \in -1..MaxNow : fl = Flushed(i) /\ fl < n /\ fl <= now
  <2>1. MaxNow \in Nat
    BY SessionFacts DEF SessInv
  <2>2. CASE stamps[i] = NoOne
    BY <1>3, <2>1, <2>2 DEF Flushed
  <2>3. CASE stamps[i] # NoOne
    <3>1. stamps[i] \in Stamps /\ stamps[i].flushed <= now
      BY <2>3, SessionFacts DEF SessInv, ClockInv
    <3>2. stamps[i].flushed \in -1..MaxNow
      BY <3>1 DEF Stamps
    <3>. QED
      BY <1>3, <2>1, <2>3, <3>1, <3>2 DEF Flushed
  <2>. QED
    BY <2>2, <2>3
<1>. DEFINE stamp == [seen |-> n, flushed |-> fl]
<1>5. stamp \in Stamps /\ stamp # NoOne /\ stamp.seen = n /\ stamp.flushed = fl
  <2>1. n \in 1..MaxNow
    BY <1>3 DEF Times
  <2>2. stamp \in Stamps
    BY <2>1 DEF Stamps
  <2>. QED
    BY <2>2, SessionFacts DEF SessInv
<1>6. /\ stamps' = [stamps EXCEPT ![i] = stamp] /\ asked' = [asked EXCEPT ![t] = n]
      /\ handler' = [handler EXCEPT ![h] = NoHandler] /\ handler[h].at = "stamp"
      /\ UNCHANGED <<table, lost, history, flush, writer, purge, issued, reused, purged>>
  BY <1>1, <1>2, <1>3, <1>4 DEF Stamp, Done, rowVars, tokenVars
<1>. HIDE DEF stamp
<1>7. /\ stamps'[i] = stamp /\ \A j \in Ids : j # i => stamps'[j] = stamps[j]
      /\ asked'[t] = n /\ \A u \in Tokens : u # t => asked'[u] = asked[u]
      /\ asked' \in [Tokens -> Times]
  BY <1>5, <1>6 DEF SessInv, SessTypes
<1>8. /\ Live' = Live /\ Told' = Told /\ (\A j : Token(j)' = Token(j))
      /\ \A f : Pending(f)' = Pending(f)
  BY <1>6 DEF Live, Told, Token, Pending
<1>9. /\ \A j \in Live : j # i => Token(j) # t
      /\ i \in Live => Token(i) = t \/ Token(i) \in reused
      /\ t \in Told
  BY <1>1, <1>2 DEF Names
<1>10. NoHandler \in HandlerRuns /\ NoHandler.at = "idle" /\ Names(NoHandler)
  BY IdleNamesNobody DEF SessInv
<1>11. SessTypes'
  BY <1>3, <1>5, <1>6, <1>7, <1>10 DEF SessInv, SessTypes
<1>12. RowsInv'
  BY <1>6, <1>8 DEF SessInv, RowsInv
<1>13. RequestInv'
  <2>1. ASSUME NEW g \in Handlers
        PROVE  Names(handler[g])'
    <3>1. PICK r \in HandlerRuns : r = handler'[g] /\ Names(r)
      BY <1>6, <1>10 DEF SessInv, SessTypes, RequestInv
    <3>2. Names(r)'
      BY <1>6, <1>8, <3>1 DEF Names
    <3>. QED
      BY <3>1, <3>2
  <2>. QED
    BY <2>1 DEF RequestInv
<1>14. ClockInv'
  <2>1. Asked(asked)'
    BY <1>3, <1>7, <1>8, <1>9, SessionFacts DEF SessInv, ClockInv, Asked
  <2>2. Asked(purge.asked)'
    BY <1>3, <1>6, <1>8, SessionFacts DEF SessInv, ClockInv, Asked
  <2>3. \A j \in Ids : stamps'[j] # NoOne => stamps'[j].seen <= now' /\ stamps'[j].flushed <= now'
    <3>1. ASSUME NEW j \in Ids, j # i, stamps[j] # NoOne
          PROVE  stamps[j].seen <= n /\ stamps[j].flushed <= n
      BY <1>3, <3>1, SessionFacts DEF SessInv, ClockInv
    <3>. QED
      BY <1>3, <1>4, <1>5, <1>7, <3>1
  <2>4. \A j \in Live' : table'[j].seen <= now'
    <3>1. ASSUME NEW j \in Live
          PROVE  table[j].seen <= n
      <4>1. table[j].seen <= now /\ table[j].seen \in Nat
        BY SessionFacts DEF SessInv, ClockInv, Times
      <4>. QED
        BY <1>3, <4>1
    <3>. QED
      BY <1>3, <1>6, <1>8, <3>1
  <2>. QED
    BY <2>1, <2>2, <2>3, <2>4 DEF ClockInv
<1>15. ASSUME NEW f \in Flushers
       PROVE  FlushInv(f)'
  <2>0. FlushInv(f) /\ flush[f].start \in Nat
    BY SessionFacts DEF SessInv, CacheInv
  <2>1. flush'[f].start <= now' /\ flush[f].start < n
    BY <1>3, <1>6, <2>0 DEF FlushInv
  <2>2. ASSUME NEW d \in Pending(f)
        PROVE  stamps'[d[1]] # NoOne =>
                  stamps'[d[1]].seen = d[2] \/ stamps'[d[1]].seen > flush[f].start
    <3>1. d[1] \in Ids /\ d[2] \in Nat
      BY SessionFacts DEF SessInv
    <3>2. CASE d[1] = i
      BY <1>5, <1>7, <2>1, <3>1, <3>2
    <3>3. CASE d[1] # i
      BY <1>7, <2>0, <3>1, <3>3 DEF FlushInv
    <3>. QED
      BY <3>2, <3>3
  <2>3. ASSUME NEW d \in flush[f].written
        PROVE  stamps'[d[1]] # NoOne =>
                  stamps'[d[1]].seen = d[2] \/ stamps'[d[1]].flushed < stamps'[d[1]].seen
    <3>1. d[1] \in Ids
      BY SessionFacts DEF SessInv, Pending
    <3>2. CASE d[1] = i
      BY <1>4, <1>5, <1>7, <3>2
    <3>3. CASE d[1] # i
      BY <1>7, <2>0, <3>1, <3>3 DEF FlushInv
    <3>. QED
      BY <3>2, <3>3
  <2>. QED
    BY <1>6, <1>8, <2>0, <2>1, <2>2, <2>3 DEF FlushInv
<1>16. ASSUME NEW j \in Live
       PROVE  StampInv(j)'
  <2>0. Token(j) \in Tokens /\ j \in Ids
    BY SessionFacts DEF SessInv
  <2>1. CASE j = i
    <3>1. Token(j) # t => asked[Token(j)] <= n
      BY <1>3, <2>0, SessionFacts DEF SessInv, ClockInv, Asked
    <3>2. stamps'[j] # NoOne /\ stamps'[j].seen = n /\ stamps'[j].flushed < stamps'[j].seen
      BY <1>4, <1>5, <1>7, <2>1
    <3>3. asked'[Token(j)] <= n /\ (Token(j) \notin reused => asked'[Token(j)] = n)
      BY <1>3, <1>7, <1>9, <2>0, <2>1, <3>1
    <3>. QED
      BY <1>6, <1>8, <3>2, <3>3 DEF StampInv
  <2>2. CASE j # i
    <3>1. asked'[Token(j)] = asked[Token(j)] /\ stamps'[j] = stamps[j] /\ StampInv(j)
      BY <1>7, <1>9, <2>0, <2>2 DEF SessInv, CacheInv
    <3>. QED
      BY <1>6, <1>8, <3>1 DEF StampInv
  <2>. QED
    BY <2>1, <2>2
<1>17. CacheInv'
  BY <1>8, <1>15, <1>16 DEF CacheInv
<1>18. ExitInv'
  BY <1>6, <1>10 DEF SessInv, SessTypes, ExitInv
<1>19. PurgeInv'
  <2>1. ASSUME purge.at # "idle", NEW u \in Tokens
        PROVE  purge.asked[u] <= asked'[u]
    BY <1>3, <1>7, <2>1, SessionFacts DEF SessInv, PurgeInv, ClockInv, Asked
  <2>. QED
    BY <1>6, <1>8, <2>1 DEF SessInv, PurgeInv
<1>20. Covers("exit", asked)' /\ Covers("purge", purge.asked)'
  <2>1. Covers("exit", asked)'
    BY <1>6 DEF SessInv, ExitInv, Covers
  <2>2. Covers("purge", purge.asked)'
    BY <1>6, <1>8 DEF SessInv, Covers
  <2>. QED
    BY <2>1, <2>2
<1>21. ClosedAreGone' /\ PurgedWereIdle'
  BY <1>6, <1>8 DEF SessInv, ClosedAreGone, PurgedWereIdle, IsLive, Live
<1>. QED
  BY <1>11, <1>12, <1>13, <1>14, <1>17, <1>18, <1>19, <1>20, <1>21 DEF SessInv

(* Closing rows changes nothing of them but that open ones tell the reason. *)
LEMMA Closed ==
    ASSUME SessTypes, NEW ids, NEW reason \in Reasons, Close(ids, reason)
    PROVE  /\ history' \in Seq(AuditRows) /\ DOMAIN history' = DOMAIN history /\ Told' = Told
           /\ \A k \in DOMAIN history :
                 /\ history'[k].id = history[k].id /\ history'[k].token = history[k].token
                 /\ \/ history'[k] = history[k]
                    \/ history[k].id \in ids /\ history[k].reason = "open"
                 /\ history'[k].reason = "open" /\ reason # "open" =>
                       history'[k] = history[k] /\ history[k].id \notin ids
<1>1. PICK n \in Nat : DOMAIN history = 1..n
  BY LenProperties DEF SessTypes
<1>2. \A k \in DOMAIN history : history[k] \in AuditRows
  BY LenProperties DEF SessTypes
<1>3. ASSUME NEW k \in DOMAIN history
      PROVE  /\ history'[k] \in AuditRows
             /\ history'[k].id = history[k].id /\ history'[k].token = history[k].token
             /\ \/ history'[k] = history[k]
                \/ history[k].id \in ids /\ history[k].reason = "open"
             /\ history'[k].reason = "open" /\ reason # "open" =>
                   history'[k] = history[k] /\ history[k].id \notin ids
  BY <1>2, <1>3 DEF Close, AuditRows
<1>4. DOMAIN history' = DOMAIN history /\ history' = [k \in 1..n |-> history'[k]]
  BY <1>1 DEF Close
<1>5. history' \in [1..n -> AuditRows]
  BY <1>1, <1>3, <1>4
<1>6. history' \in Seq(AuditRows)
  BY <1>5, SeqDef
<1>7. Told' = Told
  BY <1>3, <1>4 DEF Told
<1>. QED
  BY <1>3, <1>4, <1>6, <1>7

(* Sessions end: their rows go, and the open audit rows of their ids are   *)
(* closed, which are nobody's that lives on.                               *)
LEMMA RowsEnd ==
    ASSUME SessInv, SessionsAssumption, CanCommit,
           NEW ids \in SUBSET Ids, NEW gone \in SUBSET ids, NEW reason \in Reasons,
           Close(ids, reason), lost' = lost \ gone,
           table' = [i \in Ids |-> IF i \in gone THEN NoOne ELSE table[i]],
           \A i \in Live \cap ids : i \notin gone => Token(i) \in reused,
           UNCHANGED <<now, stamps, flush, writer, issued, reused, asked>>,
           \A g \in Handlers : handler'[g] = handler[g] \/ handler'[g] = NoHandler,
           handler' \in [Handlers -> HandlerRuns],
           purge' = purge \/ (purge' = NoPurge /\ purge.at = "delete"),
           PurgedWereIdle'
    PROVE  SessInv'
<1>1. /\ history' \in Seq(AuditRows) /\ DOMAIN history' = DOMAIN history /\ Told' = Told
      /\ \A k \in DOMAIN history :
            /\ history'[k].id = history[k].id /\ history'[k].token = history[k].token
            /\ \/ history'[k] = history[k]
               \/ history[k].id \in ids /\ history[k].reason = "open"
  BY Closed DEF SessInv
<1>2. /\ Live' = Live \ gone /\ \A i \in Live' : table'[i] = table[i] /\ Token(i)' = Token(i)
  BY DEF Live, Token
<1>3. \A f : Pending(f)' = Pending(f)
  BY DEF Pending
<1>4. NoPurge \in PurgeRuns
  BY SessionFacts DEF SessInv
<1>5. table' \in [Ids -> SessionRows \cup {NoOne}]
  BY DEF SessInv, SessTypes
<1>6. SessTypes'
  BY <1>1, <1>4, <1>5 DEF SessInv, SessTypes
<1>7. RowsInv'
  <2>1. \A i, j \in Live' : Token(i)' = Token(j)' => i = j
    BY <1>2 DEF SessInv, RowsInv
  <2>2. ASSUME NEW k \in DOMAIN history', NEW j \in Live', Token(j)' = history'[k].token
        PROVE  j = history'[k].id
    <3>1. k \in DOMAIN history /\ j \in Live /\ Token(j) = history[k].token
      BY <1>1, <1>2, <2>2
    <3>. QED
      BY <1>1, <3>1 DEF SessInv, RowsInv
  <2>3. issued' \subseteq Told'
    BY <1>1 DEF SessInv, RowsInv
  <2>. QED
    BY <2>1, <2>2, <2>3 DEF RowsInv
<1>8. RequestInv'
  <2>1. ASSUME NEW g \in Handlers
        PROVE  Names(handler[g])'
    <3>1. PICK r \in HandlerRuns : r = handler'[g] /\ Names(r)
      BY IdleNamesNobody DEF SessInv, SessTypes, RequestInv
    <3>2. Names(r)'
      BY <1>1, <1>2, <3>1 DEF Names
    <3>. QED
      BY <3>1, <3>2
  <2>. QED
    BY <2>1 DEF RequestInv
<1>9. \A u \in Tokens : NoPurge.asked[u] = 0
  BY DEF NoPurge
<1>10. ClockInv'
  <2>1. Asked(purge.asked)'
    <3>1. CASE purge' = purge
      BY <1>1, <3>1 DEF SessInv, ClockInv, Asked
    <3>2. CASE purge' = NoPurge
      BY <1>9, <3>2, SessionFacts DEF SessInv, Asked
    <3>. QED
      BY <3>1, <3>2
  <2>2. Asked(asked)'
    BY <1>1 DEF SessInv, ClockInv, Asked
  <2>. QED
    BY <1>2, <2>1, <2>2 DEF SessInv, ClockInv
<1>11. \A f \in Flushers : flush[f].written = {}
  BY SessionFacts DEF SessInv, CacheInv, FlushInv, CanCommit
<1>12. \A f \in Flushers : FlushInv(f)'
  BY <1>3, <1>11 DEF SessInv, CacheInv, FlushInv
<1>13. \A i \in Live' : StampInv(i)'
  BY <1>2, <1>3 DEF SessInv, CacheInv, StampInv
<1>14. ExitInv'
  <2>1. NoHandler.at = "idle"
    BY DEF NoHandler
  <2>. QED
    BY <2>1 DEF SessInv, ExitInv
<1>15. PurgeInv'
  <2>1. CASE purge' = purge
    BY <1>2, <2>1 DEF SessInv, PurgeInv
  <2>2. CASE purge' = NoPurge /\ purge.at = "delete"
    <3>1. purge'.at = "idle" /\ flush'["purge"].at = "idle"
      BY <2>2 DEF SessInv, PurgeInv, NoPurge
    <3>. QED
      BY <3>1 DEF PurgeInv
  <2>. QED
    BY <2>1, <2>2
<1>16. Covers("exit", asked)'
  BY <1>2, <1>3 DEF SessInv, Covers
<1>17. Covers("purge", purge.asked)'
  <2>1. CASE purge' = purge
    BY <1>2, <1>3, <2>1 DEF SessInv, Covers
  <2>2. CASE purge.at = "delete"
    BY <2>2 DEF SessInv, PurgeInv, Covers
  <2>. QED
    BY <2>1, <2>2
<1>18. ClosedAreGone'
  <2>1. ASSUME NEW k \in DOMAIN history', IsLive(history[k].token)', history'[k].token \notin reused'
        PROVE  history'[k].reason = "open"
    <3>1. PICK j \in Live' : Token(j)' = history'[k].token
      BY <2>1 DEF IsLive, Token
    <3>2. j \in Live /\ j \notin gone /\ Token(j) = history[k].token /\ k \in DOMAIN history
      BY <1>1, <1>2, <3>1
    <3>3. j = history[k].id
      BY <3>2 DEF SessInv, RowsInv
    <3>4. j \notin ids
      BY <1>1, <2>1, <3>2
    <3>5. history'[k] = history[k]
      BY <1>1, <3>2, <3>3, <3>4
    <3>6. IsLive(history[k].token) /\ history[k].token \notin reused
      BY <2>1, <3>2, <3>5 DEF IsLive, Token
    <3>. QED
      BY <3>2, <3>5, <3>6 DEF SessInv, ClosedAreGone
  <2>. QED
    BY <2>1 DEF ClosedAreGone
<1>. QED
  BY <1>6, <1>7, <1>8, <1>10, <1>12, <1>13, <1>14, <1>15, <1>16, <1>17, <1>18 DEF SessInv, CacheInv

LEMMA EndsKeep ==
    ASSUME SessInv, SessionsAssumption, NEW h \in Handlers,
           EndCommit(h) \/ DisconnectGone(h) \/ DisconnectCommit(h)
    PROVE  SessInv'
<1>1. PICK run \in HandlerRuns : run = handler[h] /\ Names(run)
  BY DEF SessInv, SessTypes, RequestInv
<1>2. NoHandler \in HandlerRuns
  BY IdleNamesNobody DEF SessInv
<1>3. ASSUME Done(h)
      PROVE  /\ handler' \in [Handlers -> HandlerRuns]
             /\ \A g \in Handlers : handler'[g] = handler[g] \/ handler'[g] = NoHandler
  BY <1>2, <1>3 DEF Done, SessInv, SessTypes
<1>4. {"logout", "admin_disconnect", "idle_purge"} \subseteq Reasons
  BY DEF Reasons
<1>. DEFINE ids == {run.id} \cap Ids
<1>5. ids \in SUBSET Ids /\ \A k \in DOMAIN history : history[k].id \in {run.id} <=> history[k].id \in ids
  <2>1. \A k \in DOMAIN history : history[k] \in AuditRows
    BY LenProperties DEF SessInv, SessTypes
  <2>. QED
    BY <2>1 DEF AuditRows
<1>6. ASSUME NEW reason, Close({handler[h].id}, reason)
      PROVE  Close(ids, reason)
  BY <1>1, <1>5, <1>6 DEF Close
<1>7. ASSUME RemoveRows({handler[h].id})
      PROVE  /\ lost' = lost \ ids
             /\ table' = [i \in Ids |-> IF i \in ids THEN NoOne ELSE table[i]]
  BY <1>1, <1>7 DEF RemoveRows, SessInv, SessTypes
<1>8. PurgedWereIdle
  BY DEF SessInv
<1>. HIDE DEF ids
<1>9. CASE EndCommit(h)
  <2>1. /\ CanCommit /\ Close(ids, "logout") /\ lost' = lost \ ids
        /\ table' = [i \in Ids |-> IF i \in ids THEN NoOne ELSE table[i]]
        /\ handler' \in [Handlers -> HandlerRuns]
        /\ \A g \in Handlers : handler'[g] = handler[g] \/ handler'[g] = NoHandler
        /\ UNCHANGED <<now, stamps, flush, writer, issued, reused, asked, purge>>
        /\ PurgedWereIdle'
    BY <1>3, <1>6, <1>7, <1>8, <1>9
       DEF EndCommit, flushVars, tokenVars, ghostVars, PurgedWereIdle
  <2>. QED
    BY <1>4, <1>5, <2>1, RowsEnd
<1>10. CASE DisconnectCommit(h)
  <2>1. /\ CanCommit /\ Close(ids, "admin_disconnect") /\ lost' = lost \ ids
        /\ table' = [i \in Ids |-> IF i \in ids THEN NoOne ELSE table[i]]
        /\ handler' \in [Handlers -> HandlerRuns]
        /\ \A g \in Handlers : handler'[g] = handler[g] \/ handler'[g] = NoHandler
        /\ UNCHANGED <<now, stamps, flush, writer, issued, reused, asked, purge>>
        /\ PurgedWereIdle'
    BY <1>3, <1>6, <1>7, <1>8, <1>10
       DEF DisconnectCommit, flushVars, tokenVars, ghostVars, PurgedWereIdle
  <2>. QED
    BY <1>4, <1>5, <2>1, RowsEnd
<1>11. CASE DisconnectGone(h)
  <2>1. /\ CanCommit /\ Close(ids, "admin_disconnect")
        /\ handler' \in [Handlers -> HandlerRuns]
        /\ \A g \in Handlers : handler'[g] = handler[g] \/ handler'[g] = NoHandler
        /\ UNCHANGED <<now, stamps, flush, writer, issued, reused, asked, purge>>
        /\ PurgedWereIdle' /\ run.at = "disconnect" /\ ~ run.found
        /\ table' = table /\ lost' = lost
    BY <1>1, <1>3, <1>6, <1>8, <1>11
       DEF DisconnectGone, rowVars, flushVars, tokenVars, ghostVars, PurgedWereIdle
  <2>2. table' = [i \in Ids |-> IF i \in {} THEN NoOne ELSE table[i]] /\ lost' = lost \ {}
    BY <2>1 DEF SessInv, SessTypes
  <2>3. \A i \in Live \cap ids : i \notin {} => Token(i) \in reused
    <3>1. \A i \in Live : Token(i) # 0
      BY SessionFacts DEF SessInv
    <3>. QED
      BY <1>1, <2>1, <3>1 DEF Names, ids
  <2>4. {} \in SUBSET ids
    OBVIOUS
  <2>. QED
    BY <1>4, <1>5, <2>1, <2>2, <2>3, <2>4, RowsEnd
<1>. QED
  BY <1>9, <1>10, <1>11

-----------------------------------------------------------------------------
(* Steps of the flush.                                                     *)

(* What a flush finds to write when it starts.                             *)
LEMMA FlushBegins ==
    ASSUME SessInv, SessionsAssumption, NEW f \in Flushers, FlushStart(f)
    PROVE  \E run \in FlushRuns :
              /\ flush' = [flush EXCEPT ![f] = run]
              /\ run.written = {} /\ (run.at # "write" => run.due = {})
              /\ run.start <= now + 1
              /\ \A d \in run.due : /\ d[1] \in Ids /\ stamps[d[1]] # NoOne
                                    /\ d[2] = stamps[d[1]].seen /\ d[2] <= run.start
              /\ f # "loop" =>
                    /\ run.alone => Undisturbed
                    /\ \A i \in Ids : stamps[i] # NoOne /\ stamps[i].seen > stamps[i].flushed
                                        => \E d \in run.due : d[1] = i
<1>1. PICK n \in Times : n = now + 1 /\ now' = n /\ now \in Nat
  <2>1. now \in Nat /\ MaxNow \in Nat /\ now < MaxNow /\ now' = now + 1
    BY SessionFacts DEF FlushStart, Tick, SessInv
  <2>. QED
    BY <2>1 DEF Times
<1>. DEFINE due == {<<i, stamps[i].seen>> : i \in {j \in Ids : Due(j, f # "loop", n)}}
<1>2. \A i \in Ids : Due(i, f # "loop", n) => stamps[i] # NoOne /\ stamps[i].seen \in Times
  BY DEF Due, SessInv, SessTypes, Stamps, Times
<1>3. \A d \in due : /\ d \in DueRows /\ d[1] \in Ids /\ stamps[d[1]] # NoOne
                     /\ d[2] = stamps[d[1]].seen
  BY <1>2 DEF DueRows
<1>4. \A d \in due : d[2] <= n
  <2>1. \A i \in Ids : stamps[i] # NoOne => stamps[i].seen <= n
    BY <1>1, SessionFacts DEF SessInv, ClockInv
  <2>. QED
    BY <1>3, <2>1
<1>5. f # "loop" => \A i \in Ids : stamps[i] # NoOne /\ stamps[i].seen > stamps[i].flushed
                                     => \E d \in due : d[1] = i
  <2>1. ASSUME f # "loop", NEW i \in Ids, stamps[i] # NoOne, stamps[i].seen > stamps[i].flushed
        PROVE  \E d \in due : d[1] = i
    <3>1. Due(i, f # "loop", n)
      BY <2>1 DEF Due
    <3>2. <<i, stamps[i].seen>> \in due
      BY <3>1
    <3>3. <<i, stamps[i].seen>>[1] = i
      OBVIOUS
    <3>. QED
      BY <3>2, <3>3
  <2>. QED
    BY <2>1
<1>6. Undisturbed \in BOOLEAN
  BY DEF Undisturbed
<1>7. IF due = {} THEN AfterFlush(f, Undisturbed)
      ELSE flush' = [flush EXCEPT ![f] = [at |-> "write", start |-> n, due |-> due,
                                          written |-> {}, alone |-> Undisturbed]]
  BY <1>1 DEF FlushStart
<1>. HIDE DEF due
<1>8. CASE due # {}
  <2>. DEFINE run == [at |-> "write", start |-> n, due |-> due, written |-> {},
                      alone |-> Undisturbed]
  <2>1. run \in FlushRuns
    BY <1>1, <1>3, <1>6 DEF FlushRuns
  <2>2. /\ run.written = {} /\ run.at = "write" /\ run.start = n /\ run.due = due
        /\ run.alone = Undisturbed
    OBVIOUS
  <2>3. flush' = [flush EXCEPT ![f] = run]
    BY <1>7, <1>8
  <2>. HIDE DEF run
  <2>. QED
    <3>1. run.start <= now + 1
      BY <1>1, <2>2
    <3>2. \A d \in run.due : /\ d[1] \in Ids /\ stamps[d[1]] # NoOne
                            /\ d[2] = stamps[d[1]].seen /\ d[2] <= run.start
      BY <1>3, <1>4, <2>2
    <3>3. f # "loop" =>
             /\ run.alone => Undisturbed
             /\ \A i \in Ids : stamps[i] # NoOne /\ stamps[i].seen > stamps[i].flushed
                                 => \E d \in run.due : d[1] = i
      BY <1>5, <2>2
    <3>. QED
      BY <2>1, <2>2, <2>3, <3>1, <3>2, <3>3
<1>9. CASE due = {}
  <2>. DEFINE run == IF f = "loop" THEN NoFlush
                     ELSE [NoFlush EXCEPT !.at = "done", !.alone = Undisturbed]
  <2>1. run \in FlushRuns
    BY <1>6, SessionFacts DEF SessInv, FlushRuns, NoFlush
  <2>2. /\ run.written = {} /\ run.at # "write" /\ run.start = 0 /\ run.due = {}
        /\ f # "loop" => run.alone = Undisturbed
    BY DEF NoFlush
  <2>3. flush' = [flush EXCEPT ![f] = run]
    BY <1>7, <1>9 DEF AfterFlush
  <2>. HIDE DEF run
  <2>. QED
    <3>1. run.start <= now + 1
      BY <1>1, <2>2
    <3>2. \A d \in run.due : /\ d[1] \in Ids /\ stamps[d[1]] # NoOne
                            /\ d[2] = stamps[d[1]].seen /\ d[2] <= run.start
      BY <2>2
    <3>3. f # "loop" =>
             /\ run.alone => Undisturbed
             /\ \A i \in Ids : stamps[i] # NoOne /\ stamps[i].seen > stamps[i].flushed
                                 => \E d \in run.due : d[1] = i
      BY <1>5, <1>9, <2>2
    <3>. QED
      BY <2>1, <2>2, <2>3, <3>1, <3>2, <3>3
<1>. QED
  BY <1>8, <1>9

(* The row carries what was asked with, unless the cache is to be flushed  *)
(* for it or somebody is disturbing.                                       *)
LEMMA RowsOrDue ==
    ASSUME SessInv, SessionsAssumption, NEW i \in Live
    PROVE  /\ stamps[i] # NoOne => stamps[i].seen >= asked[Token(i)]
           /\ Undisturbed => \/ table[i].seen >= asked[Token(i)]
                             \/ stamps[i] # NoOne /\ stamps[i].seen > stamps[i].flushed
<1>1. /\ i \in Ids /\ asked[Token(i)] \in Nat /\ table[i].seen \in Nat
      /\ stamps[i] # NoOne => stamps[i].seen \in Nat /\ stamps[i].flushed \in Int
  <2>1. i \in Ids /\ Token(i) \in Tokens /\ table[i].seen \in Times
    BY SessionFacts DEF SessInv
  <2>. QED
    BY <2>1, SessionFacts DEF SessInv, Times
<1>2. StampInv(i)
  BY DEF SessInv, CacheInv
<1>3. stamps[i] # NoOne => stamps[i].seen >= asked[Token(i)]
  BY <1>1, <1>2 DEF StampInv
<1>4. ASSUME Undisturbed, table[i].seen < asked[Token(i)]
      PROVE  stamps[i] # NoOne /\ stamps[i].seen > stamps[i].flushed
  <2>1. i \notin lost /\ \A f \in Flushers : flush[f].written = {}
    <3>1. \A f \in Flushers : Pending(f) = {}
      BY <1>4 DEF Undisturbed, SessInv, CacheInv, FlushInv
    <3>. QED
      BY <1>4, <3>1 DEF Undisturbed, Pending
  <2>2. asked[Token(i)] # 0
    BY <1>1, <1>4
  <2>3. stamps[i] # NoOne
    BY <1>1, <1>2, <1>4, <2>2 DEF StampInv
  <2>4. stamps[i].flushed < stamps[i].seen
    BY <1>2, <1>4, <2>1 DEF StampInv
  <2>. QED
    BY <1>1, <2>3, <2>4
<1>. QED
  BY <1>1, <1>3, <1>4

LEMMA StartKeeps ==
    ASSUME SessInv, SessionsAssumption, NEW f \in Flushers, FlushStart(f),
           UNCHANGED <<table, lost, history, stamps, writer, handler, issued, reused, asked,
                       purged>>,
           f # "purge" => purge' = purge,
           f = "purge" => /\ purge.at = "idle"
                          /\ purge' = [NoPurge EXCEPT !.at = "flush", !.asked = asked],
           f = "exit" => \A h \in Handlers : handler[h].at = "idle"
    PROVE  SessInv'
<1>0. {"loop", "purge", "exit"} \subseteq Flushers
  BY DEF Flushers
<1>1. PICK run \in FlushRuns :
              /\ flush' = [flush EXCEPT ![f] = run]
              /\ run.written = {} /\ (run.at # "write" => run.due = {})
              /\ run.start <= now + 1
              /\ \A d \in run.due : /\ d[1] \in Ids /\ stamps[d[1]] # NoOne
                                    /\ d[2] = stamps[d[1]].seen /\ d[2] <= run.start
              /\ f # "loop" =>
                    /\ run.alone => Undisturbed
                    /\ \A i \in Ids : stamps[i] # NoOne /\ stamps[i].seen > stamps[i].flushed
                                        => \E d \in run.due : d[1] = i
  BY FlushBegins
<1>2. /\ now' \in Times /\ now <= now' /\ run.start <= now' /\ now \in Nat /\ now' \in Nat
  <2>1. now \in Nat /\ MaxNow \in Nat /\ now < MaxNow /\ now' = now + 1
    BY SessionFacts DEF FlushStart, Tick, SessInv
  <2>2. run.start \in Nat
    BY <2>1 DEF FlushRuns, Times
  <2>. QED
    BY <1>1, <2>1, <2>2 DEF Times
<1>3. /\ Live' = Live /\ Told' = Told /\ (\A j : Token(j)' = Token(j))
      /\ flush[f].at = "idle" /\ flush'[f] = run
      /\ \A g \in Flushers : g # f => flush'[g] = flush[g] /\ Pending(g)' = Pending(g)
  BY <1>1 DEF Live, Told, Token, Pending, FlushStart, SessInv, SessTypes
<1>4. Pending(f)' = run.due
  BY <1>1, <1>3 DEF Pending
<1>5. /\ purge' \in PurgeRuns
      /\ f = "purge" => purge'.at = "flush" /\ purge'.asked = asked
  BY SessionFacts DEF SessInv, SessTypes, NoPurge, PurgeRuns
<1>6. SessTypes'
  BY <1>1, <1>2, <1>5 DEF SessInv, SessTypes
<1>7. RowsInv'
  BY <1>3 DEF SessInv, RowsInv
<1>8. RequestInv'
  <2>1. ASSUME NEW g \in Handlers
        PROVE  Names(handler[g])'
    <3>1. PICK r \in HandlerRuns : r = handler[g] /\ r = handler'[g] /\ Names(r)
      BY DEF SessInv, SessTypes, RequestInv
    <3>2. Names(r)'
      BY <1>3, <3>1 DEF Names
    <3>. QED
      BY <3>1, <3>2
  <2>. QED
    BY <2>1 DEF RequestInv
<1>9. ClockInv'
  <2>1. Asked(asked)'
    BY <1>2, <1>3, SessionFacts DEF SessInv, ClockInv, Asked
  <2>2. Asked(purge.asked)'
    BY <1>2, <1>3, <1>5, <2>1, SessionFacts DEF SessInv, ClockInv, Asked
  <2>3. \A j \in Ids : stamps'[j] # NoOne => stamps'[j].seen <= now' /\ stamps'[j].flushed <= now'
    BY <1>2, SessionFacts DEF SessInv, ClockInv
  <2>4. \A j \in Live' : table'[j].seen <= now'
    <3>1. ASSUME NEW j \in Live
          PROVE  table[j].seen <= now'
      <4>1. table[j].seen <= now /\ table[j].seen \in Nat
        BY SessionFacts DEF SessInv, ClockInv, Times
      <4>. QED
        BY <1>2, <4>1
    <3>. QED
      BY <1>3, <3>1
  <2>. QED
    BY <2>1, <2>2, <2>3, <2>4 DEF ClockInv
<1>10. ASSUME NEW g \in Flushers
       PROVE  FlushInv(g)'
  <2>1. CASE g # f
    <3>1. FlushInv(g) /\ flush[g].start \in Nat
      BY SessionFacts DEF SessInv, CacheInv
    <3>. QED
      BY <1>2, <1>3, <2>1, <3>1 DEF FlushInv
  <2>2. CASE g = f
    <3>1. \A d, e \in run.due : d[1] = e[1] => d = e
      <4>1. \A d \in run.due : d = <<d[1], d[2]>>
        BY DEF FlushRuns, DueRows
      <4>. QED
        BY <1>1, <4>1
    <3>. QED
      BY <1>1, <1>2, <1>3, <1>4, <2>2, <3>1 DEF FlushInv
  <2>. QED
    BY <2>1, <2>2
<1>11. flush[f].due = {} /\ flush[f].written = {} /\ run.written = {}
  BY <1>1, <1>3 DEF SessInv, CacheInv, FlushInv, Pending
<1>12. ASSUME NEW i \in Live
       PROVE  StampInv(i)'
  <2>1. StampInv(i)
    BY DEF SessInv, CacheInv
  <2>2. \A g \in Flushers : flush'[g].written = flush[g].written
    BY <1>3, <1>11
  <2>3. stamps[i] = NoOne /\ asked[Token(i)] # 0 =>
           \A g \in Flushers : \A d \in Pending(g)' : d[1] # i
    BY <1>1, <1>3, <1>4, <2>1 DEF StampInv
  <2>. QED
    BY <1>3, <2>1, <2>2, <2>3 DEF StampInv
<1>13. CacheInv'
  BY <1>3, <1>10, <1>12 DEF CacheInv
<1>14. ExitInv'
  BY <1>0, <1>3 DEF SessInv, ExitInv
<1>15. PurgeInv'
  <2>1. CASE f = "purge"
    <3>1. \A t \in Tokens : purge'.asked[t] <= asked'[t]
      BY <1>5, <2>1, SessionFacts DEF SessInv
    <3>. QED
      BY <1>5, <2>1, <3>1 DEF PurgeInv
  <2>2. CASE f # "purge"
    BY <1>0, <1>3, <2>2 DEF SessInv, PurgeInv
  <2>. QED
    BY <2>1, <2>2
<1>16. \A i \in Live : /\ Token(i) \in Tokens /\ i \in Ids /\ table[i].seen \in Nat
                       /\ asked[Token(i)] \in Nat /\ purge.asked[Token(i)] \in Nat
                       /\ stamps[i] # NoOne => stamps[i].seen >= asked[Token(i)]
                                               /\ stamps[i].seen \in Nat
  BY SessionFacts, RowsOrDue DEF SessInv, Times
<1>17. ASSUME NEW e \in {"exit", "purge"}, NEW want \in [Tokens -> Times],
              e # f => Covers(e, want), flush'[e].at # "idle",
              e = f => want = asked,
              \A t \in Tokens : want[t] <= asked[t]
       PROVE  Covers(e, want)'
  <2>. SUFFICES ASSUME flush'[e].alone
                PROVE  /\ \A g \in Flushers : \A d \in Pending(g)' :
                             d[1] \in Live => d[2] >= want[Token(d[1])]
                       /\ \A i \in Live : \/ table[i].seen >= want[Token(i)]
                                          \/ \E d \in Pending(e)' : d[1] = i
    BY <1>3 DEF Covers
  <2>0. \A i \in Live : want[Token(i)] \in Nat /\ want[Token(i)] <= asked[Token(i)]
    BY <1>16, <1>17, SessionFacts DEF SessInv, Times
  <2>1. ASSUME NEW d \in Pending(f)', d[1] \in Live
        PROVE  d[2] >= want[Token(d[1])]
    <3>1. d[2] = stamps[d[1]].seen /\ stamps[d[1]] # NoOne
      BY <1>1, <1>4, <2>1
    <3>. QED
      BY <1>16, <2>0, <2>1, <3>1
  <2>2. CASE e # f
    <3>1. Covers(e, want) /\ flush[e].at # "idle" /\ flush[e].alone
      BY <1>0, <1>3, <1>17, <2>2
    <3>2. \A i \in Live : table[i].seen >= want[Token(i)] \/ \E d \in Pending(e)' : d[1] = i
      BY <1>0, <1>3, <2>2, <3>1 DEF Covers
    <3>3. \A g \in Flushers : g # f => \A d \in Pending(g)' :
             d[1] \in Live => d[2] >= want[Token(d[1])]
      BY <1>3, <3>1 DEF Covers
    <3>. QED
      BY <2>1, <3>2, <3>3
  <2>3. CASE e = f
    <3>1. Undisturbed
      BY <1>1, <1>3, <2>3
    <3>2. \A g \in Flushers : g # f => Pending(g)' = {}
      BY <1>3, <3>1 DEF Undisturbed, SessInv, CacheInv, FlushInv
    <3>3. \A i \in Live : table[i].seen >= want[Token(i)] \/ \E d \in Pending(e)' : d[1] = i
      <4>1. ASSUME NEW i \in Live
            PROVE  table[i].seen >= want[Token(i)] \/ \E d \in run.due : d[1] = i
        BY <1>1, <1>16, <1>17, <2>3, <3>1, RowsOrDue
      <4>. QED
        BY <1>4, <2>3, <4>1
    <3>. QED
      BY <2>1, <3>2, <3>3
  <2>. QED
    BY <2>2, <2>3
<1>18. Covers("exit", asked)' /\ Covers("purge", purge.asked)'
  <2>1. PICK w \in [Tokens -> Times] : w = asked
    BY DEF SessInv, SessTypes
  <2>2. PICK v \in [Tokens -> Times] : v = purge'.asked
    BY <1>5 DEF PurgeRuns
  <2>3. \A t \in Tokens : asked[t] <= asked[t]
    BY SessionFacts DEF SessInv
  <2>4. ASSUME flush'["exit"].at # "idle"
        PROVE  Covers("exit", w)'
    BY <1>17, <2>1, <2>3, <2>4 DEF SessInv
  <2>5. ASSUME flush'["purge"].at # "idle"
        PROVE  Covers("purge", v)'
    <3>1. CASE f = "purge"
      BY <1>5, <1>17, <2>2, <2>3, <2>5, <3>1
    <3>2. CASE f # "purge"
      <4>1. v = purge.asked /\ flush["purge"].at # "idle"
        BY <1>0, <1>3, <2>2, <2>5, <3>2
      <4>2. \A t \in Tokens : v[t] <= asked[t]
        BY <4>1 DEF SessInv, PurgeInv
      <4>3. Covers("purge", v)
        BY <4>1 DEF SessInv, Covers
      <4>. QED
        BY <1>17, <2>5, <3>2, <4>2, <4>3
    <3>. QED
      BY <3>1, <3>2
  <2>6. Covers("exit", asked)'
    BY <2>1, <2>4 DEF Covers
  <2>7. Covers("purge", purge.asked)'
    BY <2>2, <2>5 DEF Covers
  <2>. QED
    BY <2>6, <2>7
<1>19. ClosedAreGone' /\ PurgedWereIdle'
  BY <1>3 DEF SessInv, ClosedAreGone, PurgedWereIdle, IsLive, Live
<1>. QED
  BY <1>6, <1>7, <1>8, <1>9, <1>13, <1>14, <1>15, <1>18, <1>19 DEF SessInv

LEMMA BeginsKeep ==
    ASSUME SessInv, SessionsAssumption, LoopFlush \/ PurgeFlush \/ BeginExit
    PROVE  SessInv'
<1>1. {"loop", "purge", "exit"} = Flushers
  BY DEF Flushers
<1>2. CASE LoopFlush
  BY <1>1, <1>2, StartKeeps DEF LoopFlush, rowVars, tokenVars, ghostVars
<1>3. CASE PurgeFlush
  BY <1>1, <1>3, StartKeeps DEF PurgeFlush, rowVars, tokenVars, ghostVars
<1>4. CASE BeginExit
  BY <1>1, <1>4, StartKeeps DEF BeginExit, rowVars, tokenVars, ghostVars
<1>. QED
  BY <1>2, <1>3, <1>4

(* The requests and the audit rows stay right while tokens keep their rows. *)
LEMMA RequestsRest ==
    ASSUME SessInv, UNCHANGED <<history, handler, issued, reused>>,
           Live' = Live, \A i \in Live : Token(i)' = Token(i)
    PROVE  RowsInv' /\ RequestInv' /\ ClosedAreGone' /\ Told' = Told
<1>1. Told' = Told
  BY DEF Told
<1>2. RowsInv'
  BY <1>1 DEF SessInv, RowsInv
<1>3. RequestInv'
  <2>1. ASSUME NEW g \in Handlers
        PROVE  Names(handler[g])'
    <3>1. PICK r \in HandlerRuns : r = handler[g] /\ r = handler'[g] /\ Names(r)
      BY DEF SessInv, SessTypes, RequestInv
    <3>2. Names(r)'
      BY <1>1, <3>1 DEF Names
    <3>. QED
      BY <3>1, <3>2
  <2>. QED
    BY <2>1 DEF RequestInv
<1>4. ClosedAreGone'
  BY DEF SessInv, ClosedAreGone, IsLive, Token
<1>. QED
  BY <1>1, <1>2, <1>3, <1>4

LEMMA FlushRowKeeps ==
    ASSUME SessInv, SessionsAssumption, NEW f \in Flushers, FlushRow(f)
    PROVE  SessInv'
<1>0. {"loop", "purge", "exit"} \subseteq Flushers
  BY DEF Flushers
<1>1. PICK d \in flush[f].due :
         /\ flush' = [flush EXCEPT ![f].due = @ \ {d},
                                   ![f].written = IF table[d[1]] = NoOne THEN @ ELSE @ \cup {d}]
         /\ stamps' = CASE stamps[d[1]] = NoOne -> stamps
                        [] table[d[1]] = NoOne /\ stamps[d[1]].seen = d[2]
                             -> [stamps EXCEPT ![d[1]] = NoOne]
                        [] table[d[1]] = NoOne /\ stamps[d[1]].seen # d[2] -> stamps
                        [] OTHER -> [stamps EXCEPT ![d[1]].flushed = Marked(f)]
  BY DEF FlushRow
<1>2. PICK i \in Ids : i = d[1]
  BY SessionFacts DEF SessInv, Pending
<1>3. PICK s \in Times : s = flush[f].start
  BY DEF SessInv, SessTypes, FlushRuns
<1>4. /\ d \in Pending(f) /\ d \in DueRows /\ d = <<i, d[2]>> /\ d[2] \in Nat /\ s \in Nat
  <2>1. d \in Pending(f)
    BY DEF Pending
  <2>. QED
    BY <1>2, <1>3, <2>1, SessionFacts DEF SessInv, DueRows
<1>5. /\ flush[f].at = "write" /\ writer \in {NoOne, f} /\ writer' = f
      /\ UNCHANGED <<now, table, lost, history, purge, handler, issued, reused, asked, purged>>
  BY DEF FlushRow, rowVars, tokenVars, ghostVars
<1>. DEFINE run == flush'[f]
<1>6. /\ flush' \in [Flushers -> FlushRuns]
      /\ \A g \in Flushers : g # f => flush'[g] = flush[g]
      /\ flush'[f].at = flush[f].at /\ flush'[f].start = s /\ flush'[f].alone = flush[f].alone
      /\ flush'[f].due = flush[f].due \ {d}
      /\ flush'[f].written = IF i \in Live THEN flush[f].written \cup {d} ELSE flush[f].written
  <2>1. flush \in [Flushers -> FlushRuns] /\ (table[i] = NoOne <=> i \notin Live)
    BY DEF SessInv, SessTypes, Live
  <2>2. PICK r : r = [flush[f] EXCEPT !.due = flush[f].due \ {d},
                        !.written = IF table[i] = NoOne THEN flush[f].written
                                    ELSE flush[f].written \cup {d}]
    OBVIOUS
  <2>3. /\ r \in FlushRuns /\ r.at = flush[f].at /\ r.start = s /\ r.alone = flush[f].alone
        /\ r.due = flush[f].due \ {d}
        /\ r.written = IF i \in Live THEN flush[f].written \cup {d} ELSE flush[f].written
    BY <1>3, <1>4, <2>1, <2>2 DEF FlushRuns
  <2>4. flush' = [flush EXCEPT ![f] = r]
    BY <1>1, <1>2, <2>1, <2>2
  <2>. QED
    BY <2>1, <2>3, <2>4
<1>7. /\ stamps' \in [Ids -> Stamps \cup {NoOne}]
      /\ \A j \in Ids : j # i => stamps'[j] = stamps[j]
      /\ stamps'[i] # NoOne =>
            /\ stamps[i] # NoOne /\ stamps'[i].seen = stamps[i].seen
            /\ stamps'[i].flushed = stamps[i].flushed \/ stamps'[i].flushed = s
      /\ i \in Live /\ stamps[i] # NoOne => stamps'[i] # NoOne /\ stamps'[i].flushed = s
  <2>1. stamps \in [Ids -> Stamps \cup {NoOne}] /\ (table[i] = NoOne <=> i \notin Live)
    BY DEF SessInv, SessTypes, Live
  <2>2. CASE stamps[i] = NoOne
    BY <1>1, <1>2, <2>1, <2>2
  <2>3. CASE stamps[i] # NoOne /\ i \notin Live
    BY <1>1, <1>2, <2>1, <2>3
  <2>4. CASE stamps[i] # NoOne /\ i \in Live
    <3>1. PICK r : r = [stamps[i] EXCEPT !.flushed = s]
      OBVIOUS
    <3>2. r \in Stamps /\ r.seen = stamps[i].seen /\ r.flushed = s /\ r # NoOne
      BY <2>1, <2>4, <3>1, SessionFacts DEF Stamps, Times, SessInv
    <3>3. stamps' = [stamps EXCEPT ![i].flushed = Marked(f)]
      BY <1>1, <1>2, <2>1, <2>4
    <3>4. stamps' = [stamps EXCEPT ![i] = r]
      BY <1>3, <2>1, <3>1, <3>3 DEF Marked
    <3>. QED
      BY <2>1, <2>4, <3>2, <3>4
  <2>. QED
    BY <2>2, <2>3, <2>4
<1>8. SessTypes'
  BY <1>5, <1>6, <1>7 DEF SessInv, SessTypes
<1>9. /\ Live' = Live /\ \A j : Token(j)' = Token(j)
  BY <1>5 DEF Live, Token
<1>10. RowsInv' /\ RequestInv' /\ ClosedAreGone' /\ Told' = Told
  BY <1>5, <1>9, RequestsRest
<1>11. /\ \A g \in Flushers : g # f => Pending(g)' = Pending(g)
       /\ \A g \in Flushers : Pending(g)' \subseteq Pending(g)
       /\ \A g \in Flushers : g # f => flush[g].written = {}
       /\ \A e \in Pending(f) : e[1] \in Live => e \in Pending(f)'
  <2>1. \A g \in Flushers : g # f => Pending(g)' = Pending(g)
    BY <1>6 DEF Pending
  <2>2. Pending(f)' \subseteq Pending(f)
    BY <1>4, <1>6 DEF Pending
  <2>3. \A g \in Flushers : g # f => flush[g].written = {}
    BY <1>5, SessionFacts DEF SessInv, CacheInv, FlushInv
  <2>4. \A e \in Pending(f) : e[1] \in Live => e \in Pending(f)'
    BY <1>2, <1>6 DEF Pending
  <2>. QED
    BY <2>1, <2>2, <2>3, <2>4
<1>12. ASSUME NEW g \in Flushers
       PROVE  FlushInv(g)'
  <2>0. FlushInv(g) /\ flush'[g].start = flush[g].start /\ flush'[g].at = flush[g].at
    BY <1>3, <1>6 DEF SessInv, CacheInv
  <2>1. ASSUME NEW e \in Pending(g)'
        PROVE  /\ e[2] <= flush[g].start
               /\ stamps'[e[1]] # NoOne =>
                     stamps'[e[1]].seen = e[2] \/ stamps'[e[1]].seen > flush[g].start
    <3>1. e \in Pending(g) /\ e[1] \in Ids
      BY <1>11, <2>1, SessionFacts DEF SessInv
    <3>2. stamps'[e[1]] # NoOne => stamps[e[1]] # NoOne /\ stamps'[e[1]].seen = stamps[e[1]].seen
      BY <1>7, <3>1
    <3>. QED
      BY <2>0, <3>1, <3>2 DEF FlushInv
  <2>2. CASE g # f
    <3>1. flush'[g].written = {}
      BY <1>6, <1>11, <2>2
    <3>. QED
      BY <1>5, <1>6, <1>11, <2>0, <2>1, <2>2, <3>1 DEF FlushInv
  <2>3. CASE g = f
    <3>1. ASSUME NEW e \in flush'[f].written
          PROVE  /\ e[1] \in Live
                 /\ stamps'[e[1]] # NoOne =>
                       stamps'[e[1]].seen = e[2] \/ stamps'[e[1]].flushed < stamps'[e[1]].seen
      <4>1. e \in Pending(f) /\ e[1] \in Ids /\ (e \in flush[f].written \/ (e = d /\ i \in Live))
        BY <1>4, <1>6, <3>1, SessionFacts DEF Pending, SessInv
      <4>2. CASE e[1] = i
        <5>1. e = d
          BY <1>2, <1>4, <2>0, <2>3, <4>1, <4>2 DEF FlushInv
        <5>2. i \in Live
          BY <2>0, <2>3, <4>1, <4>2 DEF FlushInv
        <5>3. stamps[i] # NoOne => stamps[i].seen = d[2] \/ stamps[i].seen > s
          BY <1>2, <1>3, <1>4, <2>0, <2>3 DEF FlushInv
        <5>4. stamps'[i] # NoOne => stamps'[i].seen = d[2] \/ stamps'[i].flushed < stamps'[i].seen
          <6>1. stamps[i] # NoOne => stamps[i].seen \in Nat
            BY SessionFacts DEF SessInv
          <6>. QED
            BY <1>4, <1>7, <5>2, <5>3, <6>1
        <5>. QED
          BY <4>2, <5>1, <5>2, <5>4
      <4>3. CASE e[1] # i
        <5>1. e \in flush[f].written
          BY <1>2, <4>1, <4>3
        <5>2. stamps'[e[1]] = stamps[e[1]]
          BY <1>7, <4>1, <4>3
        <5>. QED
          BY <2>0, <2>3, <5>1, <5>2 DEF FlushInv
      <4>. QED
        BY <4>2, <4>3
    <3>2. flush'[f].at = "write" /\ writer' = f
      BY <1>5, <1>6
    <3>3. \A e1, e2 \in Pending(f)' : e1[1] = e2[1] => e1 = e2
      BY <1>11, <2>0, <2>3 DEF FlushInv
    <3>4. flush'[f].start <= now'
      BY <1>5, <2>0, <2>3 DEF FlushInv
    <3>. QED
      BY <1>9, <2>0, <2>1, <2>3, <3>1, <3>2, <3>3, <3>4 DEF FlushInv
  <2>. QED
    BY <2>2, <2>3
<1>13. ASSUME NEW j \in Live
       PROVE  StampInv(j)'
  <2>0. StampInv(j) /\ j \in Ids /\ asked[Token(j)] \in Nat /\ table[j].seen \in Nat
    <3>1. Token(j) \in Tokens /\ table[j].seen \in Times
      BY SessionFacts DEF SessInv
    <3>. QED
      BY <3>1, SessionFacts DEF SessInv, CacheInv, Live, Times
  <2>1. CASE j # i
    <3>1. stamps'[j] = stamps[j]
      BY <1>7, <2>0, <2>1
    <3>2. \A g \in Flushers : <<j, stamps[j].seen>> \in flush[g].written
                                => <<j, stamps[j].seen>> \in flush'[g].written
      BY <1>6
    <3>3. asked[Token(j)] # 0 /\ stamps[j] = NoOne =>
             /\ table[j].seen >= asked[Token(j)]
             /\ \A g \in Flushers : \A e \in Pending(g)' : e[1] # j
      BY <1>11, <2>0 DEF StampInv
    <3>. QED
      BY <1>5, <1>9, <2>0, <3>1, <3>2, <3>3 DEF StampInv
  <2>2. CASE j = i
    <3>1. CASE stamps[i] = NoOne
      <4>1. asked[Token(j)] = 0
        BY <1>2, <1>4, <2>0, <2>2, <3>1 DEF StampInv
      <4>2. ~ (table[j].seen < 0)
        BY <2>0
      <4>. QED
        BY <1>5, <1>9, <4>1, <4>2 DEF StampInv
    <3>2. CASE stamps[i] # NoOne
      <4>1. stamps'[j] # NoOne /\ stamps'[j].seen = stamps[j].seen /\ stamps'[j].flushed = s
        BY <1>7, <2>2, <3>2
      <4>2. stamps[j].seen = d[2] \/ stamps[j].seen > s
        BY <1>2, <1>3, <1>4, <2>2, <3>2 DEF SessInv, CacheInv, FlushInv
      <4>3. d \in flush'[f].written
        BY <1>6, <2>2
      <4>4. stamps[j].seen \in Nat
        BY <2>0, <2>2, <3>2, SessionFacts DEF SessInv
      <4>5. \/ stamps'[j].flushed < stamps'[j].seen
            \/ \E g \in Flushers : <<j, stamps'[j].seen>> \in flush'[g].written
        BY <1>4, <2>2, <4>1, <4>2, <4>3, <4>4
      <4>. QED
        BY <1>5, <1>9, <2>0, <2>2, <3>2, <4>1, <4>5 DEF StampInv
    <3>. QED
      BY <3>1, <3>2
  <2>. QED
    BY <2>1, <2>2
<1>14. CacheInv'
  BY <1>9, <1>12, <1>13 DEF CacheInv
<1>15. ClockInv'
  <2>1. \A j \in Ids : stamps'[j] # NoOne => stamps'[j].seen <= now' /\ stamps'[j].flushed <= now'
    <3>1. s <= now
      BY <1>3 DEF SessInv, CacheInv, FlushInv
    <3>. QED
      BY <1>5, <1>7, <3>1 DEF SessInv, ClockInv
  <2>2. Asked(asked)' /\ Asked(purge.asked)'
    BY <1>5, <1>10 DEF SessInv, ClockInv, Asked
  <2>. QED
    BY <1>5, <1>9, <2>1, <2>2 DEF SessInv, ClockInv
<1>16. \A g \in Flushers : flush'[g].at = flush[g].at /\ flush'[g].alone = flush[g].alone
  BY <1>6
<1>17. ExitInv' /\ PurgeInv'
  BY <1>0, <1>5, <1>9, <1>16 DEF SessInv, ExitInv, PurgeInv
<1>18. ASSUME NEW g \in Flushers, NEW want, Covers(g, want)
       PROVE  Covers(g, want)'
  <2>1. \A j \in Live : (\E e \in Pending(g) : e[1] = j) => \E e \in Pending(g)' : e[1] = j
    BY <1>11
  <2>. QED
    BY <1>5, <1>9, <1>11, <1>16, <1>18, <2>1 DEF Covers
<1>19. Covers("exit", asked)' /\ Covers("purge", purge.asked)'
  <2>1. PICK w, v : w = asked /\ v = purge.asked
    OBVIOUS
  <2>2. Covers("exit", w)' /\ Covers("purge", v)'
    BY <1>0, <1>18, <2>1 DEF SessInv
  <2>. QED
    BY <1>5, <2>1, <2>2 DEF Covers
<1>. QED
  BY <1>5, <1>8, <1>10, <1>14, <1>15, <1>17, <1>19 DEF SessInv, PurgedWereIdle

(* A flush that is through leaves the others as they are.                  *)
LEMMA FlushEnds ==
    ASSUME SessInv, SessionsAssumption, NEW f \in Flushers, NEW alone \in BOOLEAN,
           \/ AfterFlush(f, alone)
           \/ f = "purge" /\ flush' = [flush EXCEPT ![f] = NoFlush]
    PROVE  /\ flush' \in [Flushers -> FlushRuns] /\ Pending(f)' = {} /\ flush'[f].written = {}
           /\ flush'[f].start = 0 /\ flush'[f].at # "write"
           /\ f = "exit" \/ flush'[f].at = "idle" \/ flush'[f].alone = alone
           /\ \A g \in Flushers : g # f => flush'[g] = flush[g] /\ Pending(g)' = Pending(g)
<1>. DEFINE over == [NoFlush EXCEPT !.at = "done", !.alone = alone]
<1>1. NoFlush \in FlushRuns
  BY SessionFacts DEF SessInv
<1>2. /\ over \in FlushRuns /\ over.due = {} /\ over.written = {} /\ over.start = 0
      /\ over.at = "done" /\ over.alone = alone
  BY <1>1 DEF NoFlush, FlushRuns
<1>3. /\ NoFlush.due = {} /\ NoFlush.written = {} /\ NoFlush.start = 0 /\ NoFlush.at = "idle"
  BY DEF NoFlush
<1>4. \/ flush' = [flush EXCEPT ![f] = NoFlush]
      \/ flush' = [flush EXCEPT ![f] = over]
  BY DEF AfterFlush
<1>. HIDE DEF over
<1>5. /\ flush' \in [Flushers -> FlushRuns]
      /\ flush'[f] = NoFlush \/ flush'[f] = over
      /\ \A g \in Flushers : g # f => flush'[g] = flush[g]
  BY <1>1, <1>2, <1>4 DEF SessInv, SessTypes
<1>. QED
  BY <1>2, <1>3, <1>5 DEF Pending

LEMMA FlushCommitKeeps ==
    ASSUME SessInv, SessionsAssumption, NEW f \in Flushers, FlushCommit(f)
    PROVE  SessInv'
<1>0. {"loop", "purge", "exit"} \subseteq Flushers
  BY DEF Flushers
<1>1. PICK W \in SUBSET DueRows, b \in BOOLEAN :
         W = flush[f].written /\ b = flush[f].alone
  BY DEF SessInv, SessTypes, FlushRuns
<1>2. /\ flush[f].at = "write" /\ writer = f /\ writer' = NoOne /\ Pending(f) = W
      /\ lost' = lost \ {d[1] : d \in W} /\ AfterFlush(f, b)
      /\ table' = [i \in Ids |-> IF \E d \in W : d[1] = i
                                 THEN [table[i] EXCEPT !.seen = (CHOOSE d \in W : d[1] = i)[2]]
                                 ELSE table[i]]
      /\ UNCHANGED <<now, history, stamps, purge, handler, issued, reused, asked, purged>>
  BY <1>1 DEF FlushCommit, tokenVars, ghostVars, Pending
<1>3. /\ flush' \in [Flushers -> FlushRuns] /\ Pending(f)' = {} /\ flush'[f].written = {}
      /\ flush'[f].start = 0 /\ flush'[f].at # "write"
      /\ \A g \in Flushers : g # f => flush'[g] = flush[g] /\ Pending(g)' = Pending(g)
  BY <1>2, FlushEnds
<1>4. f \in {"exit", "purge"} => flush'[f].alone = b
  BY <1>2 DEF AfterFlush, SessInv, SessTypes, NoFlush
<1>5. \A d \in W : /\ d[1] \in Live /\ d[1] \in Ids /\ d[2] \in Times /\ d[2] \in Nat
                   /\ d[2] <= flush[f].start /\ d[2] <= now
                   /\ \A e \in W : d[1] = e[1] => d = e
                   /\ stamps[d[1]] # NoOne =>
                         stamps[d[1]].seen = d[2] \/ stamps[d[1]].flushed < stamps[d[1]].seen
  <2>1. FlushInv(f) /\ flush[f].start \in Nat /\ now \in Nat /\ flush[f].start <= now
    BY SessionFacts DEF SessInv, CacheInv, FlushInv
  <2>2. \A d \in W : d[1] \in Ids /\ d[2] \in Times /\ d[2] \in Nat
    BY <1>2, SessionFacts DEF SessInv, DueRows
  <2>3. \A d \in W : d[2] <= flush[f].start
    BY <1>2, <2>1 DEF FlushInv
  <2>4. \A d \in W : d[2] <= now
    BY <2>1, <2>2, <2>3
  <2>. QED
    BY <1>1, <1>2, <2>1, <2>2, <2>3, <2>4 DEF FlushInv
<1>6. \A d \in W : table'[d[1]] = [table[d[1]] EXCEPT !.seen = d[2]]
  <2>1. ASSUME NEW d \in W
        PROVE  (CHOOSE e \in W : e[1] = d[1]) = d
    <3>1. PICK c : c = CHOOSE e \in W : e[1] = d[1]
      OBVIOUS
    <3>2. c \in W /\ c[1] = d[1]
      BY <3>1
    <3>. QED
      BY <1>5, <3>1, <3>2
  <2>. QED
    BY <1>2, <1>5, <2>1
<1>7. \A d \in W : /\ table'[d[1]] \in SessionRows /\ table'[d[1]].seen = d[2]
                   /\ table'[d[1]].token = table[d[1]].token
  <2>1. \A d \in W : table[d[1]] \in SessionRows
    BY <1>5, SessionFacts DEF SessInv
  <2>2. \A d \in W : d[2] \in 0..MaxNow
    BY <1>5 DEF Times
  <2>. QED
    BY <1>6, <2>1, <2>2 DEF SessionRows
<1>8. \A i \in Ids : i \notin {d[1] : d \in W} => table'[i] = table[i]
  BY <1>2
<1>9. table' \in [Ids -> SessionRows \cup {NoOne}]
  <2>1. \A i \in Ids : table'[i] \in SessionRows \cup {NoOne}
    <3>1. ASSUME NEW i \in Ids, i \in {d[1] : d \in W}
          PROVE  table'[i] \in SessionRows
      BY <1>7, <3>1
    <3>. QED
      BY <1>8, <3>1 DEF SessInv, SessTypes
  <2>2. table' = [i \in Ids |-> table'[i]]
    BY <1>2
  <2>. QED
    BY <2>1, <2>2
<1>10. Live' = Live /\ \A i \in Live : Token(i)' = Token(i)
  <2>1. \A i \in Ids : table'[i] = NoOne <=> table[i] = NoOne
    <3>1. ASSUME NEW i \in Ids, i \in {d[1] : d \in W}
          PROVE  table'[i] # NoOne /\ table[i] # NoOne
      BY <1>5, <1>7, <3>1, SessionFacts DEF SessInv, Live
    <3>. QED
      BY <1>8, <3>1
  <2>2. \A i \in Live : Token(i)' = Token(i)
    <3>1. ASSUME NEW i \in Live, i \in {d[1] : d \in W}
          PROVE  Token(i)' = Token(i)
      BY <1>7, <3>1 DEF Token
    <3>. QED
      BY <1>8, <3>1 DEF Live, Token
  <2>. QED
    BY <2>1, <2>2 DEF Live
<1>11. RowsInv' /\ RequestInv' /\ ClosedAreGone' /\ Told' = Told
  BY <1>2, <1>10, RequestsRest
<1>12. SessTypes'
  BY <1>2, <1>3, <1>9 DEF SessInv, SessTypes
<1>13. now \in Nat /\ \A g \in Flushers : g # f => flush[g].written = {}
  BY <1>2, SessionFacts DEF SessInv, CacheInv, FlushInv
<1>14. ASSUME NEW g \in Flushers
       PROVE  FlushInv(g)'
  <2>1. CASE g # f
    <3>1. FlushInv(g) /\ flush'[g].written = {}
      BY <1>3, <1>13, <2>1 DEF SessInv, CacheInv
    <3>. QED
      BY <1>2, <1>3, <1>10, <2>1, <3>1 DEF FlushInv
  <2>2. CASE g = f
    BY <1>2, <1>3, <1>13, <2>2 DEF FlushInv
  <2>. QED
    BY <2>1, <2>2
<1>15. ASSUME NEW i \in Live
       PROVE  StampInv(i)'
  <2>0. /\ StampInv(i) /\ i \in Ids /\ asked[Token(i)] \in Nat
        /\ stamps[i] # NoOne => stamps[i].seen \in Nat /\ stamps[i].flushed \in Int
    BY SessionFacts DEF SessInv, CacheInv
  <2>1. \A g \in Flushers : Pending(g)' \subseteq Pending(g)
    BY <1>3
  <2>2. CASE i \in {d[1] : d \in W}
    <3>1. PICK d \in W : d[1] = i
      BY <2>2
    <3>2. table'[i].seen = d[2] /\ d[2] \in Nat /\ d \in Pending(f)
      BY <1>2, <1>5, <1>7, <3>1
    <3>3. asked[Token(i)] # 0 => stamps[i] # NoOne
      BY <2>0, <3>1, <3>2 DEF StampInv
    <3>4. table'[i].seen < asked[Token(i)] => stamps[i].flushed < stamps[i].seen
      <4>1. ASSUME table'[i].seen < asked[Token(i)]
            PROVE  stamps[i].flushed < stamps[i].seen
        <5>1. asked[Token(i)] # 0 /\ stamps[i] # NoOne
          BY <2>0, <3>2, <3>3, <4>1
        <5>2. stamps[i].seen >= asked[Token(i)]
          BY <2>0, <5>1 DEF StampInv
        <5>3. stamps[i].seen # d[2]
          BY <2>0, <3>2, <4>1, <5>1, <5>2
        <5>. QED
          BY <1>5, <3>1, <5>1, <5>3
      <4>. QED
        BY <4>1
    <3>. QED
      BY <1>2, <1>10, <2>0, <2>1, <3>3, <3>4 DEF StampInv
  <2>3. CASE i \notin {d[1] : d \in W}
    <3>1. table'[i] = table[i] /\ (i \notin lost' => i \notin lost)
      BY <1>2, <1>8, <2>0, <2>3
    <3>2. \A g \in Flushers : <<i, stamps[i].seen>> \notin flush[g].written
      <4>1. <<i, stamps[i].seen>> \notin W
        <5>1. <<i, stamps[i].seen>>[1] = i
          OBVIOUS
        <5>. QED
          BY <2>3, <5>1
      <4>. QED
        BY <1>1, <1>13, <4>1
    <3>. QED
      BY <1>2, <1>10, <2>0, <2>1, <3>1, <3>2 DEF StampInv
  <2>. QED
    BY <2>2, <2>3
<1>16. CacheInv'
  BY <1>10, <1>14, <1>15 DEF CacheInv
<1>17. ClockInv'
  <2>1. Asked(asked)' /\ Asked(purge.asked)'
    BY <1>2, <1>11 DEF SessInv, ClockInv, Asked
  <2>2. ASSUME NEW i \in Live
        PROVE  table'[i].seen <= now
    <3>1. CASE i \in {d[1] : d \in W}
      BY <1>5, <1>7, <3>1
    <3>2. CASE i \notin {d[1] : d \in W}
      BY <1>8, <3>2 DEF SessInv, ClockInv, Live
    <3>. QED
      BY <3>1, <3>2
  <2>3. \A i \in Ids : stamps'[i] # NoOne => stamps'[i].seen <= now' /\ stamps'[i].flushed <= now'
    BY <1>2 DEF SessInv, ClockInv
  <2>4. \A i \in Live' : table'[i].seen <= now'
    BY <1>2, <1>10, <2>2
  <2>. QED
    BY <2>1, <2>3, <2>4 DEF ClockInv
<1>18. ExitInv'
  <2>1. f = "exit" => flush[f].at # "idle"
    BY <1>2
  <2>. QED
    BY <1>0, <1>2, <1>3, <2>1 DEF SessInv, ExitInv
<1>19. PurgeInv'
  <2>1. purge.at = "flush" \/ flush'["purge"].at = "idle"
    BY <1>0, <1>2, <1>3 DEF SessInv, PurgeInv
  <2>. QED
    BY <1>2, <1>10, <2>1 DEF SessInv, PurgeInv
<1>20. ASSUME NEW g \in {"exit", "purge"}, NEW want \in [Tokens -> Times], Covers(g, want)
       PROVE  Covers(g, want)'
  <2>. SUFFICES ASSUME flush'[g].at # "idle", flush'[g].alone
                PROVE  /\ \A e \in Flushers : \A d \in Pending(e)' :
                             d[1] \in Live => d[2] >= want[Token(d[1])]
                       /\ \A i \in Live : \/ table'[i].seen >= want[Token(i)]
                                          \/ \E d \in Pending(g)' : d[1] = i
    <3>1. \A e \in Flushers : \A d \in Pending(e)' : d[1] \in Live => Token(d[1])' = Token(d[1])
      BY <1>10
    <3>. QED
      BY <1>10, <3>1 DEF Covers
  <2>1. flush[g].at # "idle" /\ flush[g].alone
    BY <1>0, <1>1, <1>2, <1>3, <1>4
  <2>2. /\ \A e \in Flushers : \A d \in Pending(e) : d[1] \in Live => d[2] >= want[Token(d[1])]
        /\ \A i \in Live : table[i].seen >= want[Token(i)] \/ \E d \in Pending(g) : d[1] = i
    BY <1>20, <2>1 DEF Covers
  <2>3. ASSUME NEW i \in Live
        PROVE  table'[i].seen >= want[Token(i)] \/ \E d \in Pending(g)' : d[1] = i
    <3>1. CASE i \in {d[1] : d \in W}
      <4>1. PICK d \in W : d[1] = i
        BY <3>1
      <4>2. d \in Pending(f) /\ table'[i].seen = d[2]
        <5>1. d \in Pending(f)
          BY <1>2
        <5>2. table'[d[1]].seen = d[2]
          BY <1>7
        <5>. QED
          BY <4>1, <5>1, <5>2
      <4>3. d[2] >= want[Token(i)]
        <5>1. \A e \in Pending(f) : e[1] \in Live => e[2] >= want[Token(e[1])]
          BY <2>2
        <5>2. d[1] \in Live => d[2] >= want[Token(d[1])]
          BY <4>2, <5>1
        <5>3. Token(d[1]) = Token(i)
          BY <4>1
        <5>. QED
          BY <4>1, <5>2, <5>3
      <4>. QED
        BY <4>2, <4>3
    <3>2. CASE i \notin {d[1] : d \in W}
      <4>1. table'[i] = table[i]
        BY <1>8, <3>2 DEF Live
      <4>2. \A d \in W : d[1] # i
        BY <3>2
      <4>3. (\E d \in Pending(g) : d[1] = i) => \E d \in Pending(g)' : d[1] = i
        BY <1>0, <1>2, <1>3, <4>2
      <4>. QED
        BY <2>2, <4>1, <4>3
    <3>. QED
      BY <3>1, <3>2
  <2>4. \A e \in Flushers : Pending(e)' \subseteq Pending(e)
    BY <1>3
  <2>. QED
    BY <2>2, <2>3, <2>4
<1>21. Covers("exit", asked)' /\ Covers("purge", purge.asked)'
  <2>1. PICK w \in [Tokens -> Times], v \in [Tokens -> Times] : w = asked /\ v = purge.asked
    BY DEF SessInv, SessTypes, PurgeRuns
  <2>2. Covers("exit", w)' /\ Covers("purge", v)'
    BY <1>20, <2>1 DEF SessInv
  <2>. QED
    BY <1>2, <2>1, <2>2 DEF Covers
<1>. QED
  BY <1>2, <1>11, <1>12, <1>16, <1>17, <1>18, <1>19, <1>21 DEF SessInv, PurgedWereIdle

LEMMA FlushFailsKeeps ==
    ASSUME SessInv, SessionsAssumption, NEW f \in Flushers, FlushFails(f)
    PROVE  SessInv'
<1>0. {"loop", "purge", "exit"} \subseteq Flushers
  BY DEF Flushers
<1>1. PICK W \in SUBSET DueRows : W = flush[f].written
  BY DEF SessInv, SessTypes, FlushRuns
<1>2. /\ flush[f].at = "write" /\ writer = f /\ writer' = NoOne
      /\ lost' = lost \cup {d[1] : d \in W}
      /\ \/ f # "purge" /\ AfterFlush(f, FALSE)
         \/ f = "purge" /\ flush' = [flush EXCEPT ![f] = NoFlush]
      /\ f = "purge" => purge' = NoPurge
      /\ f # "purge" => purge' = purge
      /\ UNCHANGED <<now, table, history, stamps, handler, issued, reused, asked, purged>>
  BY <1>1 DEF FlushFails, tokenVars, ghostVars
<1>3. /\ flush' \in [Flushers -> FlushRuns] /\ Pending(f)' = {} /\ flush'[f].written = {}
      /\ flush'[f].start = 0 /\ flush'[f].at # "write"
      /\ \A g \in Flushers : g # f => flush'[g] = flush[g] /\ Pending(g)' = Pending(g)
  BY <1>2, FlushEnds
<1>4. /\ f = "purge" => flush'[f].at = "idle"
      /\ f # "purge" => flush'[f].at = "idle" \/ flush'[f].alone = FALSE
  <2>1. CASE f = "purge" \/ f = "loop"
    BY <1>2, <2>1 DEF AfterFlush, SessInv, SessTypes, NoFlush
  <2>2. CASE f \notin {"purge", "loop"}
    <3>1. flush' = [flush EXCEPT ![f] = [NoFlush EXCEPT !.at = "done", !.alone = FALSE]]
      BY <1>2, <2>2 DEF AfterFlush
    <3>. QED
      BY <2>2, <3>1 DEF SessInv, SessTypes, NoFlush
  <2>. QED
    BY <2>1, <2>2
<1>5. \A d \in W : d[1] \in Ids
  BY DEF DueRows
<1>6. Live' = Live /\ \A i : Token(i)' = Token(i)
  BY <1>2 DEF Live, Token
<1>7. RowsInv' /\ RequestInv' /\ ClosedAreGone' /\ Told' = Told
  BY <1>2, <1>6, RequestsRest
<1>8. /\ NoPurge \in PurgeRuns /\ NoPurge.at = "idle" /\ \A t \in Tokens : NoPurge.asked[t] = 0
  BY SessionFacts DEF SessInv, NoPurge
<1>9. SessTypes'
  <2>1. purge' \in PurgeRuns
    BY <1>2, <1>8 DEF SessInv, SessTypes
  <2>2. lost' \in SUBSET Ids
    BY <1>2, <1>5 DEF SessInv, SessTypes
  <2>. QED
    BY <1>2, <1>3, <2>1, <2>2 DEF SessInv, SessTypes
<1>10. now \in Nat /\ \A g \in Flushers : g # f => flush[g].written = {}
  BY <1>2, SessionFacts DEF SessInv, CacheInv, FlushInv
<1>11. ASSUME NEW g \in Flushers
       PROVE  FlushInv(g)'
  <2>1. CASE g # f
    <3>1. FlushInv(g) /\ flush'[g].written = {}
      BY <1>3, <1>10, <2>1 DEF SessInv, CacheInv
    <3>. QED
      BY <1>2, <1>3, <1>6, <2>1, <3>1 DEF FlushInv
  <2>2. CASE g = f
    BY <1>2, <1>3, <1>10, <2>2 DEF FlushInv
  <2>. QED
    BY <2>1, <2>2
<1>12. ASSUME NEW i \in Live
       PROVE  StampInv(i)'
  <2>1. StampInv(i) /\ \A g \in Flushers : Pending(g)' \subseteq Pending(g)
    BY <1>3 DEF SessInv, CacheInv
  <2>2. i \notin lost' =>
           /\ i \notin lost
           /\ \A g \in Flushers : <<i, stamps[i].seen>> \notin flush[g].written
    <3>1. ASSUME i \notin lost'
          PROVE  <<i, stamps[i].seen>> \notin W
      <4>1. <<i, stamps[i].seen>>[1] = i
        OBVIOUS
      <4>. QED
        BY <1>2, <3>1, <4>1
    <3>. QED
      BY <1>1, <1>2, <1>10, <3>1
  <2>. QED
    BY <1>2, <1>6, <2>1, <2>2 DEF StampInv
<1>13. CacheInv'
  BY <1>6, <1>11, <1>12 DEF CacheInv
<1>14. ClockInv'
  <2>1. Asked(asked)'
    BY <1>2, <1>7 DEF SessInv, ClockInv, Asked
  <2>2. Asked(purge.asked)'
    BY <1>2, <1>7, <1>8, <1>10 DEF SessInv, ClockInv, Asked
  <2>. QED
    BY <1>2, <1>6, <2>1, <2>2 DEF SessInv, ClockInv
<1>15. ExitInv'
  BY <1>0, <1>2, <1>3 DEF SessInv, ExitInv
<1>16. PurgeInv'
  <2>1. CASE f = "purge"
    BY <1>2, <1>4, <1>8, <2>1 DEF PurgeInv
  <2>2. CASE f # "purge"
    BY <1>0, <1>2, <1>3, <1>6, <2>2 DEF SessInv, PurgeInv
  <2>. QED
    BY <2>1, <2>2
<1>17. ASSUME NEW g \in {"exit", "purge"}, NEW want, Covers(g, want)
       PROVE  Covers(g, want)'
  <2>1. CASE g = f
    BY <1>4, <2>1 DEF Covers
  <2>2. CASE g # f
    <3>1. flush'[g] = flush[g] /\ Pending(g)' = Pending(g)
      BY <1>0, <1>3, <2>2
    <3>2. \A e \in Flushers : Pending(e)' \subseteq Pending(e)
      BY <1>3
    <3>. QED
      BY <1>2, <1>6, <1>17, <3>1, <3>2 DEF Covers
  <2>. QED
    BY <2>1, <2>2
<1>18. Covers("exit", asked)' /\ Covers("purge", purge.asked)'
  <2>1. PICK w, v : w = asked /\ v = purge.asked
    OBVIOUS
  <2>2. Covers("exit", w)' /\ Covers("purge", v)'
    BY <1>17, <2>1 DEF SessInv
  <2>3. f = "purge" => Covers("purge", purge.asked)'
    BY <1>4 DEF Covers
  <2>. QED
    BY <1>2, <2>1, <2>2, <2>3 DEF Covers
<1>. QED
  BY <1>2, <1>7, <1>9, <1>13, <1>14, <1>15, <1>16, <1>18 DEF SessInv, PurgedWereIdle

-----------------------------------------------------------------------------
(* Steps of the purge and of the process.                                  *)

LEMMA PurgeSelectKeeps ==
    ASSUME SessInv, SessionsAssumption, PurgeSelect
    PROVE  SessInv'
<1>0. {"loop", "purge", "exit"} \subseteq Flushers
  BY DEF Flushers
<1>1. PICK n \in Times : n = now + 1 /\ now' = n /\ now \in Nat /\ n \in Nat
  <2>1. now \in Nat /\ MaxNow \in Nat /\ now < MaxNow /\ now' = now + 1
    BY SessionFacts DEF PurgeSelect, Tick, SessInv
  <2>. QED
    BY <2>1 DEF Times
<1>2. PICK ids \in SUBSET Ids, cutoff \in Int :
         cutoff = n - Ttl /\ ids = {i \in Live : table[i].seen < cutoff}
  <2>1. n - Ttl \in Int
    BY <1>1, SessionFacts DEF SessInv
  <2>. QED
    BY <2>1 DEF Live
<1>3. PICK b \in BOOLEAN, v \in [Tokens -> Times] : b = flush["purge"].alone /\ v = purge.asked
  BY <1>0 DEF SessInv, SessTypes, FlushRuns, PurgeRuns
<1>4. /\ purge.at = "flush" /\ flush["purge"].at = "done"
      /\ flush' = [flush EXCEPT !["purge"] = NoFlush]
      /\ UNCHANGED <<table, lost, history, stamps, writer, handler, issued, reused, asked, purged>>
  BY DEF PurgeSelect, rowVars, tokenVars, ghostVars
<1>5. purge' = IF ids = {} THEN NoPurge
               ELSE [purge EXCEPT !.at = "delete", !.cutoff = cutoff, !.ids = ids, !.alone = b]
  BY <1>1, <1>2, <1>3 DEF PurgeSelect
<1>6. NoFlush \in FlushRuns /\ NoPurge \in PurgeRuns /\ NoFlush.due = {} /\ NoFlush.written = {}
      /\ NoFlush.start = 0 /\ NoFlush.at = "idle"
  BY SessionFacts DEF SessInv, NoFlush
<1>7. /\ flush' \in [Flushers -> FlushRuns] /\ flush'["purge"] = NoFlush
      /\ \A g \in Flushers : g # "purge" => flush'[g] = flush[g] /\ Pending(g)' = Pending(g)
      /\ \A g \in Flushers : Pending(g)' = Pending(g)
      /\ flush["purge"].written = {}
  <2>1. /\ flush' \in [Flushers -> FlushRuns] /\ flush'["purge"] = NoFlush
        /\ \A g \in Flushers : g # "purge" => flush'[g] = flush[g]
    BY <1>0, <1>4, <1>6 DEF SessInv, SessTypes
  <2>2. Pending("purge") = {}
    BY <1>0, <1>4 DEF SessInv, CacheInv, FlushInv
  <2>. QED
    BY <1>6, <2>1, <2>2 DEF Pending
<1>8. /\ purge' \in PurgeRuns
      /\ \/ purge'.at = "idle" /\ \A t \in Tokens : purge'.asked[t] = 0
         \/ /\ purge'.at = "delete" /\ purge'.cutoff = cutoff /\ purge'.ids = ids /\ ids # {}
            /\ purge'.alone = b /\ purge'.asked = v
  <2>1. CASE ids = {}
    <3>1. NoPurge.at = "idle" /\ \A t \in Tokens : NoPurge.asked[t] = 0
      BY DEF NoPurge
    <3>. QED
      BY <1>5, <1>6, <2>1, <3>1
  <2>2. CASE ids # {}
    <3>1. purge \in PurgeRuns
      BY DEF SessInv, SessTypes
    <3>. QED
      BY <1>3, <1>5, <2>2, <3>1 DEF PurgeRuns
  <2>. QED
    BY <2>1, <2>2
<1>9. SessTypes'
  BY <1>1, <1>4, <1>7, <1>8 DEF SessInv, SessTypes
<1>10. Live' = Live /\ \A i : Token(i)' = Token(i)
  BY <1>4 DEF Live, Token
<1>11. RowsInv' /\ RequestInv' /\ ClosedAreGone' /\ Told' = Told
  BY <1>4, <1>10, RequestsRest
<1>12. ASSUME NEW g \in Flushers
       PROVE  FlushInv(g)'
  <2>1. CASE g # "purge"
    <3>1. FlushInv(g) /\ flush[g].start \in Nat
      BY SessionFacts DEF SessInv, CacheInv
    <3>. QED
      BY <1>1, <1>4, <1>7, <1>10, <2>1, <3>1 DEF FlushInv
  <2>2. CASE g = "purge"
    <3>1. Pending(g)' = {}
      BY <1>0, <1>4, <1>7, <2>2 DEF SessInv, CacheInv, FlushInv
    <3>. QED
      BY <1>1, <1>6, <1>7, <2>2, <3>1 DEF FlushInv
  <2>. QED
    BY <2>1, <2>2
<1>13. ASSUME NEW i \in Live
       PROVE  StampInv(i)'
  <2>1. StampInv(i) /\ \A g \in Flushers : flush'[g].written = flush[g].written
    BY <1>6, <1>7 DEF SessInv, CacheInv
  <2>. QED
    BY <1>4, <1>7, <1>10, <2>1 DEF StampInv
<1>14. CacheInv'
  BY <1>10, <1>12, <1>13 DEF CacheInv
<1>15. ClockInv'
  <2>1. Asked(asked)'
    BY <1>1, <1>4, <1>11, SessionFacts DEF SessInv, ClockInv, Asked
  <2>2. Asked(v)'
    BY <1>1, <1>3, <1>11, SessionFacts DEF SessInv, ClockInv, Asked
  <2>3. Asked(purge.asked)'
    <3>1. CASE purge'.asked = v
      BY <2>2, <3>1 DEF Asked
    <3>2. CASE \A t \in Tokens : purge'.asked[t] = 0
      BY <1>1, <3>2 DEF Asked
    <3>. QED
      BY <1>8, <3>1, <3>2
  <2>4. \A j \in Ids : stamps'[j] # NoOne => stamps'[j].seen <= now' /\ stamps'[j].flushed <= now'
    BY <1>1, <1>4, SessionFacts DEF SessInv, ClockInv
  <2>5. \A j \in Live' : table'[j].seen <= now'
    <3>1. ASSUME NEW j \in Live
          PROVE  table[j].seen <= n
      <4>1. table[j].seen <= now /\ table[j].seen \in Nat
        BY SessionFacts DEF SessInv, ClockInv, Times
      <4>. QED
        BY <1>1, <4>1
    <3>. QED
      BY <1>1, <1>4, <1>10, <3>1
  <2>. QED
    BY <2>1, <2>3, <2>4, <2>5 DEF ClockInv
<1>16. ExitInv'
  BY <1>0, <1>4, <1>7 DEF SessInv, ExitInv
<1>17. PurgeInv'
  <2>1. flush'["purge"].at = "idle"
    BY <1>6, <1>7
  <2>2. CASE purge'.at = "idle"
    BY <2>1, <2>2 DEF PurgeInv
  <2>3. CASE /\ purge'.at = "delete" /\ purge'.cutoff = cutoff /\ purge'.ids = ids /\ ids # {}
             /\ purge'.alone = b /\ purge'.asked = v
    <3>1. \A t \in Tokens : v[t] <= asked'[t]
      BY <1>3, <1>4 DEF SessInv, PurgeInv
    <3>2. \A i \in ids : i \in Live /\ table[i].seen < cutoff /\ table[i].seen \in Nat
      BY <1>2, SessionFacts DEF SessInv, Times
    <3>3. cutoff > 0
      BY <2>3, <3>2
    <3>4. ASSUME b, NEW i \in ids
          PROVE  v[Token(i)] < cutoff
      <4>1. Pending("purge") = {}
        BY <1>0, <1>4 DEF SessInv, CacheInv, FlushInv
      <4>2. table[i].seen >= v[Token(i)]
        BY <1>3, <1>4, <3>2, <3>4, <4>1 DEF SessInv, Covers
      <4>3. v[Token(i)] \in Nat
        BY <1>3, <3>2, SessionFacts DEF SessInv
      <4>. QED
        BY <3>2, <4>2, <4>3
    <3>. QED
      BY <1>10, <2>1, <2>3, <3>1, <3>3, <3>4 DEF PurgeInv
  <2>. QED
    BY <1>8, <2>2, <2>3
<1>18. Covers("exit", asked)'
  BY <1>0, <1>4, <1>7, <1>10 DEF SessInv, Covers
<1>19. Covers("purge", purge.asked)'
  BY <1>6, <1>7 DEF Covers
<1>. QED
  BY <1>4, <1>9, <1>11, <1>14, <1>15, <1>16, <1>17, <1>18, <1>19 DEF SessInv, PurgedWereIdle

LEMMA PurgeCommitKeeps ==
    ASSUME SessInv, SessionsAssumption, PurgeCommit
    PROVE  SessInv'
<1>1. PICK ids \in SUBSET Ids : ids = purge.ids
  BY DEF SessInv, SessTypes, PurgeRuns
<1>2. /\ purge.at = "delete" /\ CanCommit /\ Close(ids, "idle_purge") /\ purge' = NoPurge
      /\ lost' = lost \ ids
      /\ table' = [i \in Ids |-> IF i \in ids THEN NoOne ELSE table[i]]
      /\ UNCHANGED <<now, stamps, flush, writer, issued, reused, asked, handler>>
  BY <1>1 DEF PurgeCommit, RemoveRows, flushVars, tokenVars
<1>3. PurgedWereIdle'
  <2>1. purged' = {[asked |-> purge.asked[table[i].token], cutoff |-> purge.cutoff,
                    alone |-> purge.alone] : i \in purge.ids \cap Live}
    BY DEF PurgeCommit
  <2>2. purge.alone => \A i \in purge.ids \cap Live : purge.asked[table[i].token] < purge.cutoff
    BY <1>2 DEF SessInv, PurgeInv, Token
  <2>3. ASSUME NEW p \in purged', p.alone
        PROVE  p.asked < p.cutoff
    <3>1. PICK i \in purge.ids \cap Live :
             p = [asked |-> purge.asked[table[i].token], cutoff |-> purge.cutoff,
                  alone |-> purge.alone]
      BY <2>1
    <3>2. p.alone = purge.alone /\ p.asked = purge.asked[table[i].token] /\ p.cutoff = purge.cutoff
      BY <3>1
    <3>. QED
      BY <2>2, <2>3, <3>2
  <2>. QED
    BY <2>3 DEF PurgedWereIdle
<1>4. "idle_purge" \in Reasons /\ ids \in SUBSET ids
  BY DEF Reasons
<1>5. \A i \in Live \cap ids : i \notin ids => Token(i) \in reused
  OBVIOUS
<1>6. /\ handler' \in [Handlers -> HandlerRuns]
      /\ \A g \in Handlers : handler'[g] = handler[g] \/ handler'[g] = NoHandler
  BY <1>2 DEF SessInv, SessTypes
<1>. QED
  BY <1>2, <1>3, <1>4, <1>5, <1>6, RowsEnd

LEMMA PurgeFailsKeeps ==
    ASSUME SessInv, SessionsAssumption, PurgeFails
    PROVE  SessInv'
<1>1. /\ purge.at = "delete" /\ purge' = NoPurge
      /\ UNCHANGED <<now, table, lost, history, stamps, flush, writer, handler, issued, reused,
                     asked, purged>>
  BY DEF PurgeFails, rowVars, flushVars, tokenVars, ghostVars
<1>2. NoPurge \in PurgeRuns /\ NoPurge.at = "idle" /\ \A t \in Tokens : NoPurge.asked[t] = 0
  BY SessionFacts DEF SessInv, NoPurge
<1>3. SessTypes'
  BY <1>1, <1>2 DEF SessInv, SessTypes
<1>4. /\ Live' = Live /\ (\A i : Token(i)' = Token(i)) /\ \A f : Pending(f)' = Pending(f)
  BY <1>1 DEF Live, Token, Pending
<1>5. RowsInv' /\ RequestInv' /\ ClosedAreGone' /\ Told' = Told
  BY <1>1, <1>4, RequestsRest
<1>6. \A f \in Flushers : FlushInv(f)'
  BY <1>1, <1>4 DEF SessInv, CacheInv, FlushInv
<1>7. \A i \in Live' : StampInv(i)'
  BY <1>1, <1>4 DEF SessInv, CacheInv, StampInv
<1>8. ClockInv'
  <2>1. Asked(asked)'
    BY <1>1, <1>5 DEF SessInv, ClockInv, Asked
  <2>2. Asked(purge.asked)'
    BY <1>1, <1>2, SessionFacts DEF SessInv, Asked
  <2>. QED
    BY <1>1, <1>4, <2>1, <2>2 DEF SessInv, ClockInv
<1>9. ExitInv' /\ PurgeInv' /\ flush["purge"].at = "idle"
  BY <1>1, <1>2 DEF SessInv, ExitInv, PurgeInv
<1>10. Covers("exit", asked)' /\ Covers("purge", purge.asked)'
  BY <1>1, <1>4, <1>9 DEF SessInv, Covers
<1>. QED
  BY <1>1, <1>3, <1>5, <1>6, <1>7, <1>8, <1>9, <1>10 DEF SessInv, CacheInv, PurgedWereIdle

LEMMA ClockKeeps ==
    ASSUME SessInv, SessionsAssumption, TimePasses
    PROVE  SessInv'
<1>1. /\ now' \in Times /\ now <= now'
      /\ UNCHANGED <<table, lost, history, stamps, flush, writer, handler, issued, reused,
                     asked, purged, purge>>
  <2>1. now \in Nat /\ MaxNow \in Nat /\ now < MaxNow /\ now' = now + 1
    BY SessionFacts DEF TimePasses, Tick, SessInv
  <2>2. now' \in Times /\ now <= now'
    BY <2>1 DEF Times
  <2>. QED
    BY <2>2 DEF TimePasses, rowVars, flushVars, tokenVars, ghostVars
<1>2. Live' = Live /\ Told' = Told /\ \A i : Token(i)' = Token(i)
  BY <1>1 DEF Live, Told, Token
<1>3. SessTypes'
  BY <1>1 DEF SessInv, SessTypes
<1>4. RowsInv' /\ RequestInv' /\ ClosedAreGone'
  BY <1>1, <1>2, RequestsRest
<1>5. CacheInv' /\ ClockInv' /\ Covers("exit", asked)' /\ Covers("purge", purge.asked)'
  BY <1>1, <1>2, CacheRests
<1>6. ExitInv' /\ PurgeInv'
  BY <1>1, <1>2 DEF SessInv, ExitInv, PurgeInv
<1>. QED
  BY <1>1, <1>3, <1>4, <1>5, <1>6 DEF SessInv, PurgedWereIdle

(* After a restart a token is asked with only what its row says.           *)
LEMMA ExitKeeps ==
    ASSUME SessInv, SessionsAssumption, Exit \/ Crash
    PROVE  SessInv'
<1>0. {"loop", "purge", "exit"} \subseteq Flushers
  BY DEF Flushers
<1>1. /\ asked' = asked \/ asked' = [t \in Tokens |-> 0]
      /\ asked' = asked => \/ asked = [t \in Tokens |-> 0]
                           \/ flush["exit"].at = "done" /\ flush["exit"].alone
      /\ stamps' = [i \in Ids |-> NoOne] /\ flush' = [f \in Flushers |-> NoFlush]
      /\ writer' = NoOne /\ purge' = NoPurge /\ handler' = [h \in Handlers |-> NoHandler]
      /\ lost' = {} /\ UNCHANGED <<now, table, history, issued, reused, purged>>
  BY DEF Exit, Crash, Restart, tokenVars
<1>2. /\ NoFlush.due = {} /\ NoFlush.written = {} /\ NoFlush.start = 0 /\ NoFlush.at = "idle"
      /\ NoPurge.at = "idle" /\ NoHandler.at = "idle" /\ \A t \in Tokens : NoPurge.asked[t] = 0
      /\ NoPurge \in PurgeRuns /\ NoFlush \in FlushRuns /\ NoHandler \in HandlerRuns
  BY SessionFacts DEF SessInv, NoFlush, NoPurge, NoHandler
<1>3. now \in Nat /\ [t \in Tokens |-> 0] \in [Tokens -> Times]
  BY SessionFacts DEF SessInv, Times
<1>4. SessTypes'
  BY <1>1, <1>2, <1>3 DEF SessInv, SessTypes
<1>5. Live' = Live /\ Told' = Told /\ \A i : Token(i)' = Token(i)
  BY <1>1 DEF Live, Told, Token
<1>6. RowsInv' /\ ClosedAreGone'
  BY <1>1, <1>5 DEF SessInv, RowsInv, ClosedAreGone, IsLive, Live
<1>7. RequestInv'
  <2>1. PICK r \in HandlerRuns : r = NoHandler /\ Names(r)
    BY IdleNamesNobody DEF SessInv
  <2>2. Names(r)'
    BY <1>1, <1>5, <2>1 DEF Names
  <2>3. \A g \in Handlers : handler'[g] = r
    BY <1>1, <2>1
  <2>. QED
    BY <2>2, <2>3 DEF RequestInv
<1>8. ClockInv'
  <2>1. Asked(asked)'
    BY <1>1, <1>3, <1>5 DEF SessInv, ClockInv, Asked
  <2>2. Asked(purge.asked)'
    BY <1>1, <1>2, <1>3 DEF Asked
  <2>. QED
    BY <1>1, <1>5, <2>1, <2>2 DEF SessInv, ClockInv
<1>9. \A f \in Flushers : flush'[f] = NoFlush /\ Pending(f)' = {}
  BY <1>1, <1>2 DEF Pending
<1>10. \A f \in Flushers : FlushInv(f)'
  BY <1>1, <1>2, <1>3, <1>9 DEF FlushInv
<1>11. ASSUME NEW i \in Live
       PROVE  StampInv(i)'
  <2>1. /\ i \in Ids /\ Token(i) \in Tokens /\ table[i].seen \in Nat /\ asked'[Token(i)] \in Nat
    <3>1. i \in Ids /\ Token(i) \in Tokens /\ table[i].seen \in Times
      BY SessionFacts DEF SessInv
    <3>. QED
      BY <1>1, <3>1, SessionFacts DEF SessInv, Times
  <2>2. table[i].seen >= asked'[Token(i)]
    <3>1. CASE flush["exit"].at = "done" /\ flush["exit"].alone /\ asked' = asked
      <4>1. Pending("exit") = {}
        BY <1>0, <3>1 DEF SessInv, CacheInv, FlushInv
      <4>. QED
        BY <3>1, <4>1 DEF SessInv, Covers
    <3>2. CASE asked' = [t \in Tokens |-> 0]
      BY <2>1, <3>2
    <3>. QED
      BY <1>1, <3>1, <3>2
  <2>3. stamps'[i] = NoOne /\ ~ (table'[i].seen < asked'[Token(i)'])
    BY <1>1, <1>5, <2>1, <2>2
  <2>. QED
    BY <1>1, <1>5, <1>9, <2>2, <2>3 DEF StampInv
<1>12. CacheInv'
  BY <1>5, <1>10, <1>11 DEF CacheInv
<1>13. ExitInv' /\ PurgeInv' /\ Covers("exit", asked)' /\ Covers("purge", purge.asked)'
  BY <1>0, <1>1, <1>2, <1>9 DEF ExitInv, PurgeInv, Covers
<1>. QED
  BY <1>1, <1>4, <1>6, <1>7, <1>8, <1>12, <1>13 DEF SessInv, PurgedWereIdle

-----------------------------------------------------------------------------
(* What the sessions promise.                                              *)

LEMMA InitSessions ==
    ASSUME SessionsInit, SessionsAssumption
    PROVE  SessInv
<1>0. /\ {Ttl, Interval, MaxTokens, MaxNow} \subseteq Nat
      /\ NoOne \notin Flushers /\ NoOne \notin SessionRows /\ NoOne \notin Stamps
  BY DEF SessionsAssumption
<1>1. 0 \in Times /\ now = 0 /\ Live = {} /\ Told = {} /\ DOMAIN history = {}
  <2>1. 0 \in Times
    BY <1>0 DEF Times
  <2>2. history = <<>>
    BY DEF SessionsInit
  <2>3. DOMAIN history = {}
    BY <2>2
  <2>4. Told = {}
    BY <2>3 DEF Told
  <2>. QED
    BY <2>1, <2>3, <2>4 DEF SessionsInit, Live
<1>2. /\ NoFlush.due = {} /\ NoFlush.written = {} /\ NoFlush.start = 0 /\ NoFlush.at = "idle"
      /\ NoPurge.at = "idle" /\ NoHandler.at = "idle" /\ \A t \in Tokens : NoPurge.asked[t] = 0
  BY DEF NoFlush, NoPurge, NoHandler
<1>3. NoFlush \in FlushRuns
  BY <1>1 DEF NoFlush, FlushRuns
<1>4. NoHandler \in HandlerRuns
  BY <1>0 DEF NoHandler, HandlerRuns
<1>5. NoPurge \in PurgeRuns
  BY <1>1 DEF NoPurge, PurgeRuns
<1>6. SessTypes
  <2>1. history \in Seq(AuditRows)
    BY EmptySeq DEF SessionsInit
  <2>. QED
    BY <1>1, <1>3, <1>4, <1>5, <2>1 DEF SessionsInit, SessTypes
<1>7. RowsInv /\ ClosedAreGone /\ PurgedWereIdle
  BY <1>1 DEF SessionsInit, RowsInv, ClosedAreGone, PurgedWereIdle
<1>8. RequestInv
  <2>1. Names(NoHandler)
    BY <1>6, NobodyNames
  <2>. QED
    BY <2>1 DEF SessionsInit, RequestInv
<1>9. ClockInv
  BY <1>1, <1>2 DEF SessionsInit, ClockInv, Asked
<1>10. \A f \in Flushers : flush[f] = NoFlush /\ Pending(f) = {}
  BY <1>2 DEF SessionsInit, Pending
<1>11. CacheInv
  BY <1>1, <1>2, <1>10 DEF CacheInv, FlushInv
<1>12. {"loop", "purge", "exit"} \subseteq Flushers
  BY DEF Flushers
<1>13. ExitInv /\ PurgeInv /\ Covers("exit", asked) /\ Covers("purge", purge.asked)
  BY <1>2, <1>10, <1>12 DEF SessionsInit, ExitInv, PurgeInv, Covers
<1>. QED
  BY <1>6, <1>7, <1>8, <1>9, <1>11, <1>13 DEF SessInv

LEMMA SessionSteps ==
    ASSUME SessInv, SessionsAssumption, SessionsNext
    PROVE  SessInv'
<1>1. ASSUME NEW h \in Handlers,
             \/ \E t \in Tokens : CreateSession(h, t) \/ Resolve(h, t) \/ EndSelect(h, t)
             \/ \E k \in DOMAIN history : DisconnectSelect(h, k)
             \/ CreateAudit(h) \/ Stamp(h) \/ EndCommit(h)
             \/ DisconnectGone(h) \/ DisconnectCommit(h) \/ HandlerFails(h)
      PROVE  SessInv'
  <2>1. CASE \E t \in Tokens : CreateSession(h, t)
    BY <2>1, CreateKeeps
  <2>2. CASE \/ \E t \in Tokens : Resolve(h, t) \/ EndSelect(h, t)
             \/ \E k \in DOMAIN history : DisconnectSelect(h, k)
             \/ HandlerFails(h)
    BY <2>2, RequestsKeep
  <2>3. CASE CreateAudit(h)
    BY <2>3, AuditKeeps
  <2>4. CASE Stamp(h)
    BY <2>4, StampKeeps
  <2>5. CASE EndCommit(h) \/ DisconnectGone(h) \/ DisconnectCommit(h)
    BY <2>5, EndsKeep
  <2>. QED
    BY <1>1, <2>1, <2>2, <2>3, <2>4, <2>5
<1>2. CASE \E t \in Tokens : CreateLinked(t)
  BY <1>2, CreateKeeps
<1>3. ASSUME NEW f \in Flushers, FlushRow(f) \/ FlushCommit(f) \/ FlushFails(f)
      PROVE  SessInv'
  BY <1>3, FlushRowKeeps, FlushCommitKeeps, FlushFailsKeeps
<1>4. CASE LoopFlush \/ PurgeFlush \/ BeginExit
  BY <1>4, BeginsKeep
<1>5. CASE PurgeSelect \/ PurgeCommit \/ PurgeFails
  BY <1>5, PurgeSelectKeeps, PurgeCommitKeeps, PurgeFailsKeeps
<1>6. CASE TimePasses \/ Exit \/ Crash
  BY <1>6, ClockKeeps, ExitKeeps
<1>. QED
  BY <1>1, <1>2, <1>3, <1>4, <1>5, <1>6 DEF SessionsNext

LEMMA SessionsStill ==
    ASSUME SessInv, SessionsAssumption, UNCHANGED sessionVars
    PROVE  SessInv'
<1>1. /\ UNCHANGED <<table, lost, history, stamps, flush, writer, handler, issued, reused,
                     asked, purged, purge, now>>
  BY DEF sessionVars
<1>2. now' \in Times /\ now <= now'
  BY <1>1, SessionFacts DEF SessInv, SessTypes
<1>3. Live' = Live /\ Told' = Told /\ \A i : Token(i)' = Token(i)
  BY <1>1 DEF Live, Told, Token
<1>4. SessTypes'
  BY <1>1 DEF SessInv, SessTypes
<1>5. RowsInv' /\ RequestInv' /\ ClosedAreGone'
  BY <1>1, <1>3, RequestsRest
<1>6. CacheInv' /\ ClockInv' /\ Covers("exit", asked)' /\ Covers("purge", purge.asked)'
  BY <1>1, <1>2, <1>3, CacheRests
<1>7. ExitInv' /\ PurgeInv'
  BY <1>1, <1>3 DEF SessInv, ExitInv, PurgeInv
<1>. QED
  BY <1>1, <1>4, <1>5, <1>6, <1>7 DEF SessInv, PurgedWereIdle

LEMMA SessionsInvariance == SessionsSpec => []SessInv
<1>1. SessionsInit => SessInv
  BY InitSessions, SessionsAssumption
<1>2. SessInv /\ [SessionsNext]_sessionVars => SessInv'
  BY SessionSteps, SessionsStill, SessionsAssumption
<1>. QED
  BY <1>1, <1>2, PTL DEF SessionsSpec

(* Rows, audit rows, stamps and the holder of the write lock keep their    *)
(* types, whatever the flushes and the purge do.                           *)
THEOREM SessionsTypeCorrect == SessionsSpec => []SessionsTypeOK
<1>1. SessInv => SessionsTypeOK
  <2>. SUFFICES ASSUME SessInv
                PROVE  SessionsTypeOK
    OBVIOUS
  <2>1. \A k \in DOMAIN history : history[k] \in AuditRows
    BY LenProperties DEF SessInv, SessTypes
  <2>. QED
    BY <2>1 DEF SessInv, SessTypes, SessionsTypeOK, AuditRows, Times
<1>. QED
  BY <1>1, SessionsInvariance, PTL

(* A last-seen stamp reaches its row or stays due, although the flushes of *)
(* the loop, the purge and the shutdown overlap and ids are used again.    *)
THEOREM StampsAreKept == SessionsSpec => []StampsKept
<1>1. SessInv => StampsKept
  <2>. SUFFICES ASSUME SessInv, NEW i \in Live, i \notin lost, Token(i) \notin reused,
                       table[i].seen < asked[Token(i)]
                PROVE  /\ stamps[i] # NoOne /\ stamps[i].seen = asked[Token(i)]
                       /\ \/ stamps[i].flushed < asked[Token(i)]
                          \/ \E f \in Flushers : <<i, asked[Token(i)]>> \in flush[f].written
    BY DEF StampsKept, Token
  <2>1. StampInv(i)
    BY DEF SessInv, CacheInv
  <2>2. asked[Token(i)] \in Nat /\ table[i].seen \in Nat
    <3>1. Token(i) \in Tokens /\ table[i].seen \in Times
      BY SessionFacts, SessionsAssumption DEF SessInv
    <3>. QED
      BY <3>1, SessionFacts, SessionsAssumption DEF SessInv, Times
  <2>3. asked[Token(i)] # 0 /\ stamps[i] # NoOne
    BY <2>1, <2>2 DEF StampInv
  <2>4. stamps[i].seen = asked[Token(i)]
    BY <2>1, <2>3 DEF StampInv
  <2>. QED
    BY <2>1, <2>3, <2>4 DEF StampInv
<1>. QED
  BY <1>1, SessionsInvariance, PTL

(* The purge deletes idle sessions only, if its flush was undisturbed, and *)
(* no audit row tells the end of a session that lives on.                  *)
THEOREM SessionsEndRightly == SessionsSpec => []EndedRightly
<1>1. SessInv => EndedRightly
  BY DEF SessInv, EndedRightly
<1>. QED
  BY <1>1, SessionsInvariance, PTL

-----------------------------------------------------------------------------
(* The log of logins.                                                      *)

(* A session is logged once, by the request that made it, which nobody     *)
(* else helps; and a row stays open as long as its session is there.       *)
Logging(h) == handler[h].at = "audit"
LogInv ==
    /\ \A k, m \in DOMAIN history : history[k].token = history[m].token => k = m
    /\ \A h \in Handlers : Logging(h) => handler[h].token \notin Told
    /\ \A g, h \in Handlers :
          Logging(g) /\ Logging(h) /\ handler[g].token = handler[h].token => g = h
    /\ \A k \in OpenLogins : history[k].orphan \/ IsLive(history[k].token)

(* Sessions stay, nobody logs one and at most the logging is given up.     *)
LEMMA LogRests ==
    ASSUME LogInv, history' = history,
           \A i \in Live : i \in Live' /\ Token(i)' = Token(i),
           \A h \in Handlers : Logging(h)' => handler'[h] = handler[h]
    PROVE  LogInv'
<1>1. \A h \in Handlers : Logging(h)' => Logging(h)
  BY DEF Logging
<1>2. Told' = Told /\ OpenLogins' = OpenLogins
  BY DEF Told, OpenLogins
<1>3. \A k \in OpenLogins : history'[k].orphan \/ IsLive(history[k].token)'
  <2>. SUFFICES ASSUME NEW k \in OpenLogins, ~ history[k].orphan
                PROVE  IsLive(history[k].token)'
    OBVIOUS
  <2>1. PICK i \in Live : Token(i) = history[k].token
    BY DEF LogInv, IsLive, Token
  <2>. QED
    BY <2>1 DEF IsLive, Token
<1>. QED
  BY <1>1, <1>2, <1>3 DEF LogInv

(* A new session is logged, under a token that stands nowhere yet.         *)
LEMMA LogGrows ==
    ASSUME SessInv, LogInv, NEW i \in Ids, NEW t \in Tokens, NEW b \in BOOLEAN, Audit(i, t, b),
           t \notin Told, b \/ \E j \in Live' : Token(j)' = t,
           \A j \in Live : j \in Live' /\ Token(j)' = Token(j),
           \A h \in Handlers : Logging(h)' => handler'[h] = handler[h] /\ handler[h].token # t
    PROVE  LogInv'
<1>1. /\ Told' = Told \cup {t}
      /\ \A k \in DOMAIN history : k \in DOMAIN history' /\ history'[k] = history[k]
      /\ \A k \in DOMAIN history' :
            \/ k \in DOMAIN history
            \/ /\ history'[k].token = t /\ history'[k].orphan = b /\ k = Len(history) + 1
  BY Audited DEF SessInv
<1>2. \A k \in DOMAIN history : history[k].token # t
  BY DEF Told
<1>3. \A k, m \in DOMAIN history' : history'[k].token = history'[m].token => k = m
  BY <1>1, <1>2 DEF LogInv
<1>4. ASSUME NEW k \in OpenLogins', ~ history'[k].orphan
      PROVE  IsLive(history[k].token)'
  <2>1. CASE k \in DOMAIN history
    <3>1. k \in OpenLogins /\ ~ history[k].orphan
      BY <1>1, <1>4, <2>1 DEF OpenLogins
    <3>2. PICK j \in Live : Token(j) = history[k].token
      BY <3>1 DEF LogInv, IsLive, Token
    <3>. QED
      BY <1>1, <2>1, <3>2 DEF IsLive, Token
  <2>2. CASE k \notin DOMAIN history
    <3>1. k \in DOMAIN history'
      BY DEF OpenLogins
    <3>2. history'[k].token = t /\ history'[k].orphan = b
      BY <1>1, <2>2, <3>1
    <3>3. PICK j \in Live' : Token(j)' = t
      BY <1>4, <3>2
    <3>. QED
      BY <3>2, <3>3 DEF IsLive, Token
  <2>. QED
    BY <2>1, <2>2
<1>5. \A h \in Handlers : Logging(h)' => /\ Logging(h) /\ handler'[h] = handler[h]
                                         /\ handler[h].token # t
  BY DEF Logging
<1>. QED
  BY <1>1, <1>3, <1>4, <1>5 DEF LogInv

(* Sessions end, and with them the open rows of their ids.                 *)
LEMMA LogCloses ==
    ASSUME SessInv, SessionsAssumption, LogInv, NEW ids, NEW gone \in SUBSET ids,
           NEW reason \in Reasons \ {"open"}, Close(ids, reason),
           table' = [i \in Ids |-> IF i \in gone THEN NoOne ELSE table[i]],
           \A h \in Handlers : handler'[h] = handler[h] \/ handler'[h] = NoHandler
    PROVE  LogInv'
<1>1. /\ DOMAIN history' = DOMAIN history /\ Told' = Told
      /\ \A k \in DOMAIN history :
            /\ history'[k].token = history[k].token
            /\ history'[k].reason = "open" =>
                  history'[k] = history[k] /\ history[k].id \notin ids
  BY Closed DEF SessInv
<1>2. Live' = Live \ gone /\ \A i \in Live' : Token(i)' = Token(i)
  BY DEF Live, Token
<1>3. \A h \in Handlers : Logging(h)' => Logging(h) /\ handler'[h] = handler[h]
  BY DEF Logging, NoHandler
<1>4. ASSUME NEW k \in OpenLogins', ~ history'[k].orphan
      PROVE  IsLive(history[k].token)'
  <2>1. k \in DOMAIN history /\ history'[k] = history[k] /\ history[k].id \notin ids
    BY <1>1 DEF OpenLogins
  <2>2. k \in OpenLogins
    BY <2>1 DEF OpenLogins
  <2>3. PICK i \in Live : Token(i) = history[k].token
    BY <1>4, <2>1, <2>2 DEF LogInv, IsLive, Token
  <2>4. i \notin gone
    BY <2>1, <2>3 DEF SessInv, RowsInv
  <2>. QED
    BY <1>2, <2>1, <2>3, <2>4 DEF IsLive, Token
<1>. QED
  BY <1>1, <1>3, <1>4 DEF LogInv

(* A flush writes when a session was seen, and no more of it.              *)
LEMMA FlushMovesNobody ==
    ASSUME SessInv, SessionsAssumption, NEW f \in Flushers, FlushCommit(f)
    PROVE  \A i \in Live : i \in Live' /\ Token(i)' = Token(i)
<1>1. PICK W \in SUBSET DueRows : W = flush[f].written
  BY DEF SessInv, SessTypes, FlushRuns
<1>2. table' = [i \in Ids |-> IF \E d \in W : d[1] = i
                              THEN [table[i] EXCEPT !.seen = (CHOOSE d \in W : d[1] = i)[2]]
                              ELSE table[i]]
  BY <1>1 DEF FlushCommit
<1>. SUFFICES ASSUME NEW i \in Live
              PROVE  i \in Live' /\ Token(i)' = Token(i)
  OBVIOUS
<1>3. i \in Ids /\ table[i] \in SessionRows /\ table[i] # NoOne /\ NoOne \notin SessionRows
  BY SessionFacts DEF SessInv, Live
<1>4. CASE \E d \in W : d[1] = i
  <2>1. PICK n \in 0..MaxNow : table'[i] = [table[i] EXCEPT !.seen = n]
    <3>1. PICK c : c = CHOOSE d \in W : d[1] = i
      OBVIOUS
    <3>2. c \in W
      BY <1>4, <3>1
    <3>3. c[2] \in 0..MaxNow
      BY <3>2 DEF DueRows, Times
    <3>. QED
      BY <1>2, <1>3, <1>4, <3>1, <3>3
  <2>2. table'[i] \in SessionRows /\ table'[i].token = table[i].token
    BY <1>3, <2>1 DEF SessionRows
  <2>. QED
    BY <1>3, <2>2 DEF Live, Token
<1>5. CASE ~ \E d \in W : d[1] = i
  BY <1>2, <1>3, <1>5 DEF Live, Token
<1>. QED
  BY <1>4, <1>5

LEMMA LoginsKeep ==
    ASSUME SessInv, SessionsAssumption, LogInv, NEW t \in Tokens,
           (\E h \in Handlers : CreateSession(h, t)) \/ CreateLinked(t)
    PROVE  LogInv'
<1>1. PICK i : i = NewId
  OBVIOUS
<1>2. ASSUME NewRow(t)
      PROVE  /\ i \in Ids /\ i \in Live' /\ Token(i)' = t /\ t \notin Told
             /\ \A j \in Live : j \in Live' /\ Token(j)' = Token(j)
             /\ \A h \in Handlers : handler[h].token # t
  <2>1. /\ i \in Ids /\ i \notin Live /\ t \notin Told
        /\ \A h \in Handlers : handler[h].token # t
    BY <1>1, <1>2, FreshId, FreshToken DEF NewRow, SessInv
  <2>2. PICK n \in 0..MaxNow : n = now
    BY DEF SessInv, SessTypes, Times
  <2>3. PICK row \in SessionRows : row.token = t /\ table' = [table EXCEPT ![i] = row]
    BY <1>1, <1>2, <2>2 DEF NewRow, Created, SessionRows
  <2>4. row # NoOne
    BY SessionFacts DEF SessInv
  <2>. QED
    BY <2>1, <2>3, <2>4 DEF SessInv, SessTypes, Live, Token
<1>3. ASSUME NEW h \in Handlers, CreateSession(h, t)
      PROVE  LogInv'
  <2>1. /\ i \in Ids /\ i \in Live' /\ Token(i)' = t /\ t \notin Told
        /\ \A j \in Live : j \in Live' /\ Token(j)' = Token(j)
        /\ \A g \in Handlers : handler[g].token # t
        /\ history' = history
    BY <1>2, <1>3 DEF CreateSession
  <2>2. /\ handler'[h].token = t
        /\ \A g \in Handlers : g # h => handler'[g] = handler[g]
    BY <1>1, <1>3 DEF CreateSession, Goto, SessInv, SessTypes
  <2>3. Told' = Told /\ OpenLogins' = OpenLogins
    BY <2>1 DEF Told, OpenLogins
  <2>4. \A g \in Handlers : Logging(g)' => handler'[g].token \notin Told
    BY <2>1, <2>2 DEF Logging, LogInv
  <2>5. \A g, e \in Handlers :
           Logging(g)' /\ Logging(e)' /\ handler'[g].token = handler'[e].token => g = e
    BY <2>1, <2>2 DEF Logging, LogInv
  <2>6. ASSUME NEW k \in OpenLogins, ~ history[k].orphan
        PROVE  IsLive(history[k].token)'
    <3>1. PICK j \in Live : Token(j) = history[k].token
      BY <2>6 DEF LogInv, IsLive, Token
    <3>. QED
      BY <2>1, <3>1 DEF IsLive, Token
  <2>. QED
    BY <2>1, <2>3, <2>4, <2>5, <2>6 DEF LogInv
<1>4. CASE CreateLinked(t)
  <2>1. NewRow(t) /\ Audit(i, t, FALSE) /\ handler' = handler
    BY <1>1, <1>4 DEF CreateLinked
  <2>2. PICK b \in BOOLEAN : b = FALSE
    OBVIOUS
  <2>3. Audit(i, t, b)
    BY <2>1, <2>2
  <2>. QED
    BY <1>2, <2>1, <2>3, LogGrows
<1>. QED
  BY <1>3, <1>4

LEMMA LoggedKeeps ==
    ASSUME SessInv, SessionsAssumption, LogInv, NEW h \in Handlers, CreateAudit(h)
    PROVE  LogInv'
<1>1. PICK run \in HandlerRuns : /\ run = handler[h] /\ run.at = "audit"
                                 /\ run.id \in Ids /\ run.token \in Tokens
  <2>1. PICK r \in HandlerRuns : r = handler[h] /\ Names(r) /\ r.at = "audit"
    BY DEF CreateAudit, SessInv, SessTypes, RequestInv
  <2>. QED
    BY <2>1 DEF Names
<1>2. /\ Audit(run.id, run.token, ~IsLive(run.token)) /\ table' = table
      /\ handler' = [handler EXCEPT ![h] = NoHandler]
  BY <1>1 DEF CreateAudit, Done, rowVars
<1>3. PICK i \in Ids, t \in Tokens, b \in BOOLEAN :
         i = run.id /\ t = run.token /\ b = ~IsLive(run.token)
  BY <1>1 DEF IsLive
<1>4. Audit(i, t, b)
  BY <1>2, <1>3, Zenon
<1>5. Live' = Live /\ \A j : Token(j)' = Token(j)
  BY <1>2 DEF Live, Token
<1>6. b \/ \E j \in Live' : Token(j)' = t
  BY <1>3, <1>5 DEF IsLive, Token
<1>7. t \notin Told
  BY <1>1, <1>3 DEF LogInv, Logging
<1>8. ASSUME NEW g \in Handlers, Logging(g)'
      PROVE  handler'[g] = handler[g] /\ handler[g].token # t
  <2>1. g # h /\ handler'[g] = handler[g]
    BY <1>2, <1>8 DEF SessInv, SessTypes, Logging, NoHandler
  <2>. QED
    BY <1>1, <1>3, <1>8, <2>1 DEF LogInv, Logging
<1>. QED
  BY <1>4, <1>5, <1>6, <1>7, <1>8, LogGrows

LEMMA EndingsKeep ==
    ASSUME SessInv, SessionsAssumption, LogInv,
           \/ \E h \in Handlers : EndCommit(h) \/ DisconnectGone(h) \/ DisconnectCommit(h)
           \/ PurgeCommit
    PROVE  LogInv'
<1>1. {"logout", "admin_disconnect", "idle_purge"} \subseteq Reasons \ {"open"}
  BY DEF Reasons
<1>2. ASSUME NEW h \in Handlers, Done(h)
      PROVE  \A g \in Handlers : handler'[g] = handler[g] \/ handler'[g] = NoHandler
  BY <1>2 DEF Done, SessInv, SessTypes
<1>3. ASSUME NEW h \in Handlers, EndCommit(h) \/ DisconnectCommit(h)
      PROVE  LogInv'
  <2>1. PICK ids : ids = {handler[h].id}
    OBVIOUS
  <2>2. PICK reason \in Reasons \ {"open"} : Close(ids, reason)
    BY <1>1, <1>3, <2>1 DEF EndCommit, DisconnectCommit
  <2>3. table' = [i \in Ids |-> IF i \in ids THEN NoOne ELSE table[i]] /\ Done(h)
    BY <1>3, <2>1 DEF EndCommit, DisconnectCommit, RemoveRows
  <2>4. ids \in SUBSET ids
    OBVIOUS
  <2>. QED
    BY <1>2, <2>2, <2>3, <2>4, LogCloses
<1>4. ASSUME NEW h \in Handlers, DisconnectGone(h)
      PROVE  LogInv'
  <2>1. PICK ids : ids = {handler[h].id}
    OBVIOUS
  <2>2. PICK reason \in Reasons \ {"open"} : Close(ids, reason)
    BY <1>1, <1>4, <2>1 DEF DisconnectGone
  <2>3. table' = [i \in Ids |-> IF i \in {} THEN NoOne ELSE table[i]] /\ Done(h)
    BY <1>4 DEF DisconnectGone, rowVars, SessInv, SessTypes
  <2>4. {} \in SUBSET ids
    OBVIOUS
  <2>. QED
    BY <1>2, <2>2, <2>3, <2>4, LogCloses
<1>5. CASE PurgeCommit
  <2>1. PICK ids : ids = purge.ids
    OBVIOUS
  <2>2. PICK reason \in Reasons \ {"open"} : Close(ids, reason)
    BY <1>1, <1>5, <2>1 DEF PurgeCommit
  <2>3. table' = [i \in Ids |-> IF i \in ids THEN NoOne ELSE table[i]] /\ handler' = handler
    BY <1>5, <2>1 DEF PurgeCommit, RemoveRows
  <2>4. ids \in SUBSET ids
    OBVIOUS
  <2>. QED
    BY <2>2, <2>3, <2>4, LogCloses
<1>. QED
  BY <1>3, <1>4, <1>5

(* Every other step leaves the log alone and every session its token.      *)
LEMMA RequestsLeave ==
    ASSUME SessInv, LogInv, NEW h \in Handlers,
           \/ \E t \in Tokens : Resolve(h, t) \/ EndSelect(h, t)
           \/ \E k \in DOMAIN history : DisconnectSelect(h, k)
           \/ Stamp(h) \/ HandlerFails(h)
    PROVE  LogInv'
<1>1. NoHandler.at # "audit"
  BY DEF NoHandler
<1>2. table' = table /\ history' = history
  BY DEF Resolve, EndSelect, DisconnectSelect, Stamp, HandlerFails, rowVars
<1>3. \/ \E at \in {"stamp", "end", "disconnect"} : \E i, t : Goto(h, at, i, t)
      \/ Done(h)
  BY DEF Resolve, EndSelect, DisconnectSelect, Stamp, HandlerFails
<1>4. ASSUME NEW at \in {"stamp", "end", "disconnect"}, NEW i, NEW t, Goto(h, at, i, t)
      PROVE  \A g \in Handlers : Logging(g)' => handler'[g] = handler[g]
  BY <1>4 DEF Goto, Logging, SessInv, SessTypes
<1>5. ASSUME Done(h)
      PROVE  \A g \in Handlers : Logging(g)' => handler'[g] = handler[g]
  BY <1>1, <1>5 DEF Done, Logging, SessInv, SessTypes
<1>6. \A g \in Handlers : Logging(g)' => handler'[g] = handler[g]
  BY <1>3, <1>4, <1>5
<1>. QED
  BY <1>2, <1>6, LogRests DEF Live, Token

LEMMA OthersLeave ==
    ASSUME SessInv, SessionsAssumption, LogInv,
           \/ \E f \in Flushers : FlushRow(f) \/ FlushCommit(f) \/ FlushFails(f)
           \/ LoopFlush \/ PurgeFlush \/ PurgeSelect \/ PurgeFails
           \/ TimePasses \/ BeginExit \/ Exit \/ Crash
    PROVE  LogInv'
<1>1. ASSUME table' = table, history' = history,
             \A h \in Handlers : Logging(h)' => handler'[h] = handler[h]
      PROVE  LogInv'
  BY <1>1, LogRests DEF Live, Token
<1>2. NoHandler.at # "audit"
  BY DEF NoHandler
<1>3. ASSUME NEW f \in Flushers, FlushRow(f) \/ FlushFails(f)
      PROVE  LogInv'
  <2>1. table' = table /\ history' = history /\ handler' = handler
    BY <1>3 DEF FlushRow, FlushFails, rowVars
  <2>. QED
    BY <1>1, <2>1
<1>4. ASSUME NEW f \in Flushers, FlushCommit(f)
      PROVE  LogInv'
  <2>1. history' = history /\ handler' = handler
    BY <1>4 DEF FlushCommit
  <2>2. \A i \in Live : i \in Live' /\ Token(i)' = Token(i)
    BY <1>4, FlushMovesNobody
  <2>. QED
    BY <2>1, <2>2, LogRests
<1>5. CASE LoopFlush \/ PurgeFlush \/ PurgeSelect \/ PurgeFails \/ TimePasses \/ BeginExit
  <2>1. table' = table /\ history' = history /\ handler' = handler
    BY <1>5 DEF LoopFlush, PurgeFlush, PurgeSelect, PurgeFails, TimePasses, BeginExit, rowVars
  <2>. QED
    BY <1>1, <2>1
<1>6. CASE Exit \/ Crash
  <2>1. table' = table /\ history' = history /\ handler' = [h \in Handlers |-> NoHandler]
    BY <1>6 DEF Exit, Crash, Restart
  <2>2. \A h \in Handlers : ~ Logging(h)'
    BY <1>2, <2>1 DEF Logging
  <2>. QED
    BY <1>1, <2>1, <2>2
<1>. QED
  BY <1>3, <1>4, <1>5, <1>6

LEMMA LogInvariance == SessionsSpec => []LogInv
<1>1. SessionsInit => LogInv
  <2>. SUFFICES ASSUME SessionsInit
                PROVE  LogInv
    OBVIOUS
  <2>1. history = <<>>
    BY DEF SessionsInit
  <2>2. DOMAIN history = {}
    BY <2>1
  <2>3. \A h \in Handlers : handler[h].at = "idle"
    BY DEF SessionsInit, NoHandler
  <2>. QED
    BY <2>2, <2>3 DEF LogInv, OpenLogins, Logging
<1>2. SessInv /\ LogInv /\ [SessionsNext]_sessionVars => LogInv'
  <2>1. ASSUME SessInv, LogInv, SessionsNext
        PROVE  LogInv'
    <3>1. ASSUME NEW h \in Handlers,
                 \/ \E t \in Tokens : CreateSession(h, t) \/ Resolve(h, t) \/ EndSelect(h, t)
                 \/ \E k \in DOMAIN history : DisconnectSelect(h, k)
                 \/ CreateAudit(h) \/ Stamp(h) \/ EndCommit(h)
                 \/ DisconnectGone(h) \/ DisconnectCommit(h) \/ HandlerFails(h)
          PROVE  LogInv'
      <4>1. CASE \E t \in Tokens : CreateSession(h, t)
        BY <2>1, <4>1, SessionsAssumption, LoginsKeep
      <4>2. CASE CreateAudit(h)
        BY <2>1, <4>2, SessionsAssumption, LoggedKeeps
      <4>3. CASE EndCommit(h) \/ DisconnectGone(h) \/ DisconnectCommit(h)
        BY <2>1, <4>3, SessionsAssumption, EndingsKeep
      <4>4. CASE \/ \E t \in Tokens : Resolve(h, t) \/ EndSelect(h, t)
                 \/ \E k \in DOMAIN history : DisconnectSelect(h, k)
                 \/ Stamp(h) \/ HandlerFails(h)
        BY <2>1, <4>4, SessionsAssumption, RequestsLeave
      <4>. QED
        BY <3>1, <4>1, <4>2, <4>3, <4>4
    <3>2. CASE \E t \in Tokens : CreateLinked(t)
      BY <2>1, <3>2, SessionsAssumption, LoginsKeep
    <3>3. CASE PurgeCommit
      BY <2>1, <3>3, SessionsAssumption, EndingsKeep
    <3>4. CASE \/ \E f \in Flushers : FlushRow(f) \/ FlushCommit(f) \/ FlushFails(f)
               \/ LoopFlush \/ PurgeFlush \/ PurgeSelect \/ PurgeFails
               \/ TimePasses \/ BeginExit \/ Exit \/ Crash
      BY <2>1, <3>4, SessionsAssumption, OthersLeave
    <3>. QED
      BY <2>1, <3>1, <3>2, <3>3, <3>4 DEF SessionsNext
  <2>2. ASSUME LogInv, UNCHANGED sessionVars
        PROVE  LogInv'
    <3>1. history' = history /\ table' = table /\ handler' = handler
      BY <2>2 DEF sessionVars
    <3>. QED
      BY <2>2, <3>1, LogRests DEF Live, Token
  <2>. QED
    BY <2>1, <2>2
<1>. QED
  BY <1>1, <1>2, SessionsInvariance, PTL DEF SessionsSpec

(* However logout, purge, administrator, crashes and failed requests       *)
(* interleave, the log shows exactly those as signed in who are, but for   *)
(* sessions gone before they were logged and ids used again too early.     *)
THEOREM LogIsTold == SessionsSpec => []LogTellsWhoIsIn
<1>1. SessInv /\ LogInv => LogTellsWhoIsIn
  <2>. SUFFICES ASSUME SessInv, LogInv, NEW i \in Live, Token(i) \in issued \ reused
                PROVE  \E k \in OpenLogins :
                          {m \in DOMAIN history : history[m].token = Token(i)} = {k}
    BY DEF LogTellsWhoIsIn, LogInv, Token
  <2>1. PICK k \in DOMAIN history : history[k].token = Token(i)
    BY DEF SessInv, RowsInv, Told
  <2>2. k \in OpenLogins
    BY <2>1 DEF SessInv, ClosedAreGone, IsLive, Token, OpenLogins
  <2>3. {m \in DOMAIN history : history[m].token = Token(i)} = {k}
    BY <2>1 DEF LogInv
  <2>. QED
    BY <2>2, <2>3
<1>. QED
  BY <1>1, SessionsInvariance, LogInvariance, PTL

-----------------------------------------------------------------------------
(* The five components side by side.                                       *)

(* A behaviour of the five is one of each, so all five keep their types.   *)
THEOREM AccountsTypes == AccountsSpec => []AccountsTypeOK
<1>1. AccountsInit => /\ SessionsInit /\ OwnershipInit /\ LimiterInit /\ VisitsInit
                      /\ ReportsInit
  BY DEF AccountsInit
<1>2. [AccountsNext]_<<part, sessionVars, ownVars, limitVars, visitVars, reportVars>>
        => /\ [SessionsNext]_sessionVars /\ [OwnershipNext]_ownVars
           /\ [LimiterNext]_limitVars /\ [VisitsNext]_visitVars /\ [ReportsNext]_reportVars
  BY DEF AccountsNext
<1>3. AccountsSpec => /\ SessionsSpec /\ OwnershipSpec /\ LimiterSpec /\ VisitsSpec
                      /\ ReportsSpec
  BY <1>1, <1>2, PTL DEF AccountsSpec, SessionsSpec, OwnershipSpec, LimiterSpec, VisitsSpec,
                         ReportsSpec
<1>4. VisitInv => VisitsTypeOK
  BY DEF VisitInv, VisitTypes, VisitsTypeOK
<1>5. ReportInv => ReportsTypeOK
  BY ReportsTypes, ReportsAssumption, NoRowAssumption
<1>6. SessionsTypeOK /\ OwnershipTypeOK /\ LimiterTypeOK /\ VisitsTypeOK /\ ReportsTypeOK
        => AccountsTypeOK
  BY DEF AccountsTypeOK
<1>. QED
  BY <1>3, <1>4, <1>5, <1>6, SessionsTypeCorrect, OwnershipTypeCorrect, LimiterTypeCorrect,
     VisitsInvariance, ReportsInvariance, PTL

=============================================================================
