---------------------------- MODULE ReportsProofs ----------------------------
(* The reports to the administrator, the players and the spectators, for   *)
(* any nicknames, sessions and games, and any requests under way while     *)
(* sessions end and their ids are given out again.                         *)
EXTENDS Reports, FiniteSetTheorems, SequenceTheorems, NaturalsInduction,
        WellFoundedInduction, TLAPS

-----------------------------------------------------------------------------
(* The largest of the ids there are.                                       *)
LEMMA MaxOfIds ==
    ASSUME NEW bound \in Nat, NEW S, S \subseteq 1..bound
    PROVE  /\ Max({0} \cup S) \in {0} \cup S
           /\ \A x \in {0} \cup S : x \in Nat /\ x <= bound /\ x <= Max({0} \cup S)
<1>. DEFINE T == {0} \cup S
            P(n) == \A x \in T : x <= n
<1>1. \A x \in T : x \in Nat /\ x <= bound
  OBVIOUS
<1>2. PICK n \in Nat : P(n) /\ \A k \in Nat : k < n => ~P(k)
  <2>. DEFINE B == {k \in Nat : P(k)}
  <2>1. B \subseteq Nat /\ B # {}
    BY <1>1
  <2>2. \A x, y \in Nat : <<y, x>> \in OpToRel(<, Nat) <=> y < x
    BY DEF OpToRel
  <2>3. PICK R : IsWellFoundedOn(R, Nat) /\ \A x, y \in Nat : <<y, x>> \in R <=> y < x
    BY <2>2, NatLessThanWellFounded, Zenon
  <2>4. PICK n \in B : \A y \in B : ~ (<<y, n>> \in R)
    BY <2>1, <2>3, WFMin
  <2>. QED
    BY <2>3, <2>4
<1>3. n \in T
  <2>1. SUFFICES ASSUME n \notin T
                 PROVE  FALSE
    OBVIOUS
  <2>2. 0 \in T /\ n # 0 /\ n >= 1 /\ n - 1 \in Nat /\ n - 1 < n
    BY <1>2, <2>1
  <2>3. \A x \in T : x <= n /\ x # n /\ x \in Nat
    BY <1>1, <1>2, <2>1
  <2>4. P(n - 1)
    BY <2>2, <2>3
  <2>. QED
    BY <1>2, <2>2, <2>4
<1>4. \E x \in T : \A y \in T : x >= y
  BY <1>1, <1>2, <1>3
<1>5. Max(T) \in T /\ \A y \in T : Max(T) >= y
  BY <1>4 DEF Max
<1>. QED
  BY <1>1, <1>5

-----------------------------------------------------------------------------
(* The reports.                                                            *)

Enterings == [does: {"enter"}, name: Nicknames]
Creations == [does: {"create"}, session: SessionIds, name: Nicknames, login: 1..MaxSessions]
CallRows == {NoCall} \cup Enterings \cup Creations

ReportTypes ==
    /\ utc \in 0..LastDay /\ entered \in 0..MaxSessions
    /\ signed \in [SessionIds -> SignedEntries \cup {NoRow}]
    /\ games \in [GameIds -> GameEntries \cup {NoRow}]
    /\ call \in [Calls -> CallRows]
    /\ sockets \in SUBSET GameIds

(* Ids are never larger than the number of logins, logins never repeat.    *)
SignedInv(i) ==
    /\ i <= entered /\ signed[i].login <= entered
    /\ \A j \in Signed : signed[j].login = signed[i].login => j = i

(* A game's session is the login it was stored under, and a game without   *)
(* one was stored under nobody who is signed in.  Who asked for the game   *)
(* is that login, or is gone.                                              *)
RowRight(row) ==
    /\ row.login <= entered /\ row.under <= entered
    /\ row.session = NoRow => ~Lasts(row.under)
    /\ row.session # NoRow =>
          /\ row.session \in Signed /\ signed[row.session].login = row.under
          /\ row.under = row.login => signed[row.session].name = row.name
    /\ row.under # row.login => ~Lasts(row.login)
    /\ (row.winner = NoRow) <=> (row.status = "active")
MadeBy(g) == RowRight(games[g])

(* A request goes by the row it loaded: the login it holds, if it lasts,   *)
(* has that id and that nickname.                                          *)
AskedBy(k) ==
    k.does = "create" =>
        /\ k.login <= entered
        /\ \A i \in Signed : signed[i].login = k.login => i = k.session /\ signed[i].name = k.name

ReportInv ==
    /\ ReportTypes
    /\ \A i \in Signed : SignedInv(i)
    /\ \A g \in Extant : MadeBy(g)
    /\ \A c \in Calls : AskedBy(call[c])

LEMMA NextRowIsNew ==
    ASSUME NEW bound \in Nat, NEW S, S \subseteq 1..bound
    PROVE  /\ Next1(S) \in Nat \ {0} /\ Next1(S) \notin S
           /\ \A m \in Nat : (\A i \in S : i <= m) => Next1(S) <= m + 1
<1>. PICK n \in Nat : n = Max({0} \cup S) /\ n \in {0} \cup S /\ \A x \in S : x \in Nat /\ x <= n
  BY MaxOfIds
<1>. QED
  BY DEF Next1

-----------------------------------------------------------------------------
(* Every step keeps the invariant.                                         *)

LEMMA InitReports ==
    ASSUME ReportsInit, ReportsAssumption
    PROVE  ReportInv
<1>1. /\ utc = 0 /\ signed = [i \in SessionIds |-> NoRow] /\ entered = 0
      /\ games = [g \in GameIds |-> NoRow] /\ sockets = {} /\ MaxSessions \in Nat /\ LastDay \in Nat
      /\ call = [c \in Calls |-> NoCall]
  BY DEF ReportsInit, ReportsAssumption
<1>2. ReportTypes
  BY <1>1 DEF ReportTypes, CallRows
<1>3. Signed = {} /\ Extant = {}
  BY <1>1 DEF Signed, Extant
<1>4. \A c \in Calls : AskedBy(call[c])
  BY <1>1 DEF AskedBy, NoCall
<1>. QED
  BY <1>2, <1>3, <1>4 DEF ReportInv

LEMMA RowFacts ==
    ASSUME ReportInv, NoRowAssumption, ReportsAssumption
    PROVE  /\ NoRow \notin SessionIds /\ NoRow \notin SignedEntries /\ NoRow \notin GameEntries
           /\ NoRow \notin {"user", "ai"} /\ \A n \in 0..MaxLength : [moves |-> n] # NoRow
           /\ \A i \in Signed : i \in SessionIds /\ i \in Nat /\ signed[i] \in SignedEntries
                                /\ signed[i].login \in Nat
           /\ \A g \in Extant : g \in GameIds /\ games[g] \in GameEntries /\ games[g].login \in Nat
                                /\ games[g].under \in Nat
           /\ entered \in Nat /\ entered <= MaxSessions /\ MaxSessions \in Nat /\ MaxGames \in Nat
           /\ Signed \subseteq 1..MaxSessions /\ Extant \subseteq 1..MaxGames
<1>1. MaxSessions \in Nat /\ MaxGames \in Nat
  BY DEF ReportsAssumption
<1>2. entered \in Nat /\ entered <= MaxSessions
  BY <1>1 DEF ReportInv, ReportTypes
<1>3. \A n \in 0..MaxLength : [moves |-> n] # NoRow
  BY DEF NoRowAssumption
<1>4. /\ NoRow \notin SessionIds /\ NoRow \notin SignedEntries /\ NoRow \notin GameEntries
      /\ NoRow \notin {"user", "ai"}
  BY DEF NoRowAssumption, SessionIds
<1>5. \A i \in Signed : i \in SessionIds /\ i \in Nat /\ signed[i] \in SignedEntries
                        /\ signed[i].login \in Nat
  BY <1>1 DEF Signed, ReportInv, ReportTypes, SignedEntries, SessionIds
<1>6. \A g \in Extant : g \in GameIds /\ games[g] \in GameEntries /\ games[g].login \in Nat
                        /\ games[g].under \in Nat
  BY <1>1 DEF Extant, ReportInv, ReportTypes, GameEntries
<1>. QED
  BY <1>1, <1>2, <1>3, <1>4, <1>5, <1>6 DEF Signed, Extant, SessionIds, GameIds

(* What a handler holds, by what it does.                                  *)
LEMMA CallFacts ==
    ASSUME ReportTypes, ReportsAssumption, NEW c \in Calls
    PROVE  /\ NoCall \in CallRows /\ NoCall.does = "nothing" /\ call[c] \in CallRows
           /\ call[c].does = "enter" => call[c].name \in Nicknames
           /\ call[c].does = "create" => /\ call[c].session \in SessionIds /\ call[c].name \in Nicknames
                                         /\ call[c].login \in 1..MaxSessions /\ call[c].login \in Nat
<1>1. call[c] \in CallRows
  BY DEF ReportTypes
<1>2. MaxSessions \in Nat
  BY DEF ReportsAssumption
<1>. QED
  BY <1>1, <1>2 DEF CallRows, NoCall, Enterings, Creations

(* A session begins.                                                       *)
LEMMA EnterKeeps ==
    ASSUME ReportInv, NoRowAssumption, ReportsAssumption, NEW name \in Nicknames, Enter(name),
           call' \in [Calls -> CallRows], \A c \in Calls : call'[c] \in {call[c], NoCall}
    PROVE  ReportInv'
<1>. DEFINE new == Next1(Signed)
            fresh == [name |-> name, login |-> entered + 1]
<1>1. /\ entered < MaxSessions /\ entered' = entered + 1 /\ signed' = [signed EXCEPT ![new] = fresh]
      /\ UNCHANGED <<utc, games, sockets>> /\ entered \in Nat /\ MaxSessions \in Nat
  BY RowFacts DEF Enter
<1>2. new \in Nat /\ new >= 1 /\ new \notin Signed /\ new <= entered + 1
  BY NextRowIsNew, RowFacts DEF ReportInv, SignedInv
<1>3. new \in SessionIds /\ fresh \in SignedEntries
  <2>1. new \in SessionIds /\ entered + 1 \in 1..MaxSessions
    BY <1>1, <1>2 DEF SessionIds
  <2>. HIDE DEF new
  <2>. QED
    BY <2>1 DEF SignedEntries
<1>. HIDE DEF new
<1>4. /\ \A i \in SessionIds : signed'[i] = IF i = new THEN fresh ELSE signed[i]
      /\ signed[new] = NoRow /\ fresh # NoRow /\ fresh.login = entered + 1
  BY <1>1, <1>2, <1>3, RowFacts DEF ReportInv, ReportTypes, Signed
<1>5. Signed' = Signed \cup {new} /\ Extant' = Extant
  BY <1>1, <1>3, <1>4 DEF Signed, Extant
<1>6. ReportTypes'
  BY <1>1, <1>3 DEF ReportInv, ReportTypes
<1>. HIDE DEF fresh
<1>7. \A j \in Signed : /\ signed'[j] = signed[j] /\ j <= entered /\ j \in Nat /\ j # new
                        /\ signed[j].login <= entered /\ signed[j].login \in Nat
  BY <1>2, <1>4, RowFacts DEF ReportInv, SignedInv
<1>8. signed'[new].login = entered + 1
  BY <1>3, <1>4
<1>9. ASSUME NEW i \in Signed'
      PROVE  SignedInv(i)'
  <2>1. \A j, k \in Signed : signed[j].login = signed[k].login => j = k
    BY DEF ReportInv, SignedInv
  <2>2. \A j \in Signed' : signed'[j].login = signed'[i].login => j = i
    BY <1>1, <1>5, <1>7, <1>8, <2>1
  <2>3. i <= entered' /\ signed'[i].login <= entered'
    BY <1>1, <1>2, <1>5, <1>7, <1>8
  <2>. QED
    BY <2>2, <2>3 DEF SignedInv
<1>10. ASSUME NEW n \in Nat, n <= entered
       PROVE  /\ n <= entered' /\ (Lasts(n)' <=> Lasts(n))
              /\ \A i \in Signed' : signed'[i].login = n => i \in Signed
  BY <1>1, <1>5, <1>7, <1>8, <1>10 DEF Lasts
<1>11. ASSUME NEW g \in Extant'
       PROVE  MadeBy(g)'
  <2>1. MadeBy(g) /\ games' = games /\ games[g].login \in Nat /\ games[g].under \in Nat
    BY <1>1, <1>5, RowFacts DEF ReportInv
  <2>2. PICK row : row = games[g]
    OBVIOUS
  <2>3. RowRight(row) /\ row.login \in Nat /\ row.under \in Nat
    BY <2>1, <2>2 DEF MadeBy
  <2>4. /\ row.login <= entered' /\ row.under <= entered'
        /\ Lasts(row.login)' <=> Lasts(row.login)
        /\ Lasts(row.under)' <=> Lasts(row.under)
    BY <1>10, <2>3 DEF RowRight
  <2>5. row.session # NoRow => row.session \in Signed' /\ signed'[row.session] = signed[row.session]
    BY <1>5, <1>7, <2>3 DEF RowRight
  <2>6. RowRight(row)'
    BY <2>3, <2>4, <2>5 DEF RowRight
  <2>. QED
    BY <2>1, <2>2, <2>6 DEF MadeBy
<1>12. ASSUME NEW c \in Calls
       PROVE  AskedBy(call[c])'
  <2>1. CASE call'[c] = NoCall
    BY <2>1 DEF AskedBy, NoCall
  <2>2. CASE call'[c] = call[c] /\ call[c].does # "create"
    BY <2>2 DEF AskedBy
  <2>3. CASE call'[c] = call[c] /\ call[c].does = "create"
    <3>1. AskedBy(call[c]) /\ call[c].login \in Nat
      BY <2>3, CallFacts DEF ReportInv
    <3>2. PICK n \in Nat : n = call[c].login
      BY <3>1
    <3>3. /\ n <= entered
          /\ \A i \in Signed : signed[i].login = n => i = call[c].session /\ signed[i].name = call[c].name
      BY <2>3, <3>1, <3>2 DEF AskedBy
    <3>4. /\ n <= entered'
          /\ \A i \in Signed' : signed'[i].login = n => i = call[c].session /\ signed'[i].name = call[c].name
      BY <1>7, <1>10, <3>3
    <3>. QED
      BY <2>3, <3>2, <3>4 DEF AskedBy
  <2>. QED
    BY <2>1, <2>2, <2>3
<1>. QED
  BY <1>6, <1>9, <1>11, <1>12 DEF ReportInv

LEMMA SignInKeeps ==
    ASSUME ReportInv, NoRowAssumption, ReportsAssumption,
           \/ \E name \in Nicknames : SignIn(name)
           \/ \E c \in Calls : SignInReserved(c)
    PROVE  ReportInv'
<1>1. CASE \E name \in Nicknames : SignIn(name)
  <2>1. PICK name \in Nicknames : SignIn(name)
    BY <1>1
  <2>2. Enter(name) /\ call' = call
    BY <2>1 DEF SignIn
  <2>3. call' \in [Calls -> CallRows]
    BY <2>2 DEF ReportInv, ReportTypes
  <2>. QED
    BY <2>2, <2>3, EnterKeeps
<1>2. CASE \E c \in Calls : SignInReserved(c)
  <2>1. PICK c \in Calls : SignInReserved(c)
    BY <1>2
  <2>2. PICK name : name = call[c].name
    OBVIOUS
  <2>3. name \in Nicknames /\ Enter(name)
    BY <2>1, <2>2, CallFacts DEF SignInReserved, ReportInv
  <2>4. call' = [call EXCEPT ![c] = NoCall] /\ NoCall \in CallRows
    BY <2>1, CallFacts DEF SignInReserved, ReportInv
  <2>5. call' \in [Calls -> CallRows] /\ \A d \in Calls : call'[d] \in {call[d], NoCall}
    BY <2>4 DEF ReportInv, ReportTypes
  <2>. QED
    BY <2>3, <2>5, EnterKeeps
<1>. QED
  BY <1>1, <1>2

(* Requests move on while sessions and games stay as they are.             *)
LEMMA CallsKeep ==
    ASSUME ReportInv, NoRowAssumption, ReportsAssumption, NEW c \in Calls,
           \/ \E name \in Nicknames : FindFree(c, name)
           \/ \E i \in SessionIds : LoadSession(c, i)
           \/ CallFails(c)
    PROVE  ReportInv'
<1>1. \E k \in CallRows : /\ call' = [call EXCEPT ![c] = k] /\ AskedBy(k)
                          /\ UNCHANGED <<utc, signed, entered, games, sockets>>
  <2>1. CASE \E name \in Nicknames : FindFree(c, name)
    <3>1. PICK name \in Nicknames : FindFree(c, name)
      BY <2>1
    <3>2. PICK k : k = [does |-> "enter", name |-> name]
      OBVIOUS
    <3>3. k \in CallRows /\ k.does = "enter"
      BY <3>2 DEF CallRows, Enterings
    <3>. QED
      BY <3>1, <3>2, <3>3 DEF FindFree, AskedBy
  <2>2. CASE \E i \in SessionIds : LoadSession(c, i)
    <3>1. PICK i \in SessionIds : LoadSession(c, i)
      BY <2>2
    <3>2. PICK k : k = [does |-> "create", session |-> i, name |-> signed[i].name,
                        login |-> signed[i].login]
      OBVIOUS
    <3>3. i \in Signed /\ call' = [call EXCEPT ![c] = k]
          /\ UNCHANGED <<utc, signed, entered, games, sockets>>
      BY <3>1, <3>2 DEF LoadSession
    <3>4. signed[i] \in SignedEntries /\ signed[i].name \in Nicknames /\ signed[i].login \in 1..MaxSessions
      BY <3>3, RowFacts DEF SignedEntries
    <3>5. k \in CallRows
      BY <3>2, <3>4 DEF CallRows, Creations
    <3>6. SignedInv(i) /\ \A j \in Signed : signed[j].login = signed[i].login => j = i
      BY <3>3 DEF ReportInv, SignedInv
    <3>7. AskedBy(k)
      BY <3>2, <3>6 DEF AskedBy, SignedInv
    <3>. QED
      BY <3>3, <3>5, <3>7
  <2>3. CASE CallFails(c)
    <3>1. PICK k : k = NoCall
      OBVIOUS
    <3>2. k \in CallRows /\ AskedBy(k)
      BY <3>1 DEF CallRows, AskedBy, NoCall
    <3>. QED
      BY <2>3, <3>1, <3>2 DEF CallFails
  <2>. QED
    BY <2>1, <2>2, <2>3
<1>2. PICK k \in CallRows : /\ call' = [call EXCEPT ![c] = k] /\ AskedBy(k)
                           /\ UNCHANGED <<utc, signed, entered, games, sockets>>
  BY <1>1
<1>3. /\ call' \in [Calls -> CallRows]
      /\ \A d \in Calls : call'[d] = IF d = c THEN k ELSE call[d]
  BY <1>2 DEF ReportInv, ReportTypes
<1>4. \A x : AskedBy(x) => AskedBy(x)'
  BY <1>2 DEF AskedBy, Signed
<1>5. ASSUME NEW d \in Calls
      PROVE  AskedBy(call[d])'
  <2>1. PICK x : x = call'[d]
    OBVIOUS
  <2>2. AskedBy(x)
    BY <1>2, <1>3, <2>1 DEF ReportInv
  <2>3. AskedBy(x)'
    BY <1>4, <2>2
  <2>. QED
    BY <2>1, <2>3 DEF AskedBy
<1>6. Signed' = Signed /\ Extant' = Extant
  BY <1>2 DEF Signed, Extant
<1>7. \A i \in Signed' : SignedInv(i)'
  BY <1>2, <1>6 DEF ReportInv, SignedInv
<1>8. \A g \in Extant' : MadeBy(g)'
  BY <1>2, <1>6 DEF ReportInv, MadeBy, RowRight, Lasts
<1>9. ReportTypes'
  BY <1>2, <1>3 DEF ReportInv, ReportTypes
<1>. QED
  BY <1>5, <1>7, <1>8, <1>9 DEF ReportInv

(* A game without its session is still a row of the table of games.        *)
LEMMA DetachedRowIsARow ==
    \A entry \in GameEntries : [entry EXCEPT !.session = NoRow] \in GameEntries
BY DEF GameEntries

LEMMA SignOutKeeps ==
    ASSUME ReportInv, NoRowAssumption, ReportsAssumption, NEW i \in SessionIds, SignOut(i)
    PROVE  ReportInv'
<1>1. /\ i \in Signed /\ signed' = [signed EXCEPT ![i] = NoRow] /\ games' = Detached(i)
      /\ UNCHANGED <<utc, entered, call, sockets>>
  BY DEF SignOut
<1>2. /\ \A j \in SessionIds : signed'[j] = IF j = i THEN NoRow ELSE signed[j]
      /\ Signed' = Signed \ {i} /\ \A j \in Signed' : signed'[j] = signed[j]
  BY <1>1 DEF ReportInv, ReportTypes, Signed
<1>3. /\ Extant' = Extant
      /\ \A g \in Extant : games'[g] =
                              IF games[g].session = i THEN [games[g] EXCEPT !.session = NoRow]
                                       ELSE games[g]
      /\ games' \in [GameIds -> GameEntries \cup {NoRow}]
  <2>1. \A g \in GameIds : games'[g] = IF g \in Extant /\ games[g].session = i
                                       THEN [games[g] EXCEPT !.session = NoRow] ELSE games[g]
    BY <1>1 DEF Detached
  <2>2. \A g \in Extant : [games[g] EXCEPT !.session = NoRow] \in GameEntries
    BY DetachedRowIsARow, RowFacts
  <2>3. games' \in [GameIds -> GameEntries \cup {NoRow}]
    <3>1. ASSUME NEW g \in GameIds
          PROVE  (IF g \in Extant /\ games[g].session = i
                  THEN [games[g] EXCEPT !.session = NoRow] ELSE games[g])
                 \in GameEntries \cup {NoRow}
      BY <2>2 DEF ReportInv, ReportTypes
    <3>. QED
      BY <1>1, <3>1 DEF Detached
  <2>4. Extant' = Extant
    BY <2>1, <2>2, RowFacts DEF Extant
  <2>. QED
    BY <2>1, <2>3, <2>4, RowFacts
<1>4. ReportTypes'
  BY <1>1, <1>3 DEF ReportInv, ReportTypes
<1>5. \A j \in Signed' : SignedInv(j)'
  BY <1>1, <1>2 DEF ReportInv, SignedInv
<1>6. \A c \in Calls : AskedBy(call[c])'
  BY <1>1, <1>2 DEF ReportInv, AskedBy
<1>7. \A n : Lasts(n)' => Lasts(n)
  BY <1>2 DEF Lasts
<1>8. PICK n : n = signed[i].login
  OBVIOUS
<1>9. ~Lasts(n)'
  <2>1. \A j \in Signed : signed[j].login = n => j = i
    BY <1>1, <1>8 DEF ReportInv, SignedInv
  <2>. QED
    BY <1>2, <2>1 DEF Lasts
<1>10. ASSUME NEW g \in Extant'
       PROVE  MadeBy(g)'
  <2>1. PICK old : old = games[g]
    OBVIOUS
  <2>2. PICK new : new = games'[g]
    OBVIOUS
  <2>3. RowRight(old) /\ old \in GameEntries /\ NoRow \notin SessionIds
    BY <1>3, <2>1, RowFacts DEF ReportInv, MadeBy
  <2>4. /\ new.login = old.login /\ new.under = old.under /\ new.name = old.name
        /\ new.winner = old.winner /\ new.status = old.status
        /\ new.session = IF old.session = i THEN NoRow ELSE old.session
    <3>1. new = IF old.session = i THEN [old EXCEPT !.session = NoRow] ELSE old
      BY <1>3, <2>1, <2>2
    <3>2. CASE old.session = i
      BY <2>3, <3>1, <3>2 DEF GameEntries
    <3>3. CASE old.session # i
      BY <3>1, <3>3
    <3>. QED
      BY <3>2, <3>3
  <2>5. CASE old.session = i
    <3>1. new.session = NoRow /\ new.under = n
      BY <1>8, <2>3, <2>4, <2>5 DEF RowRight
    <3>2. RowRight(new)'
      BY <1>1, <1>7, <1>9, <2>3, <2>4, <3>1 DEF RowRight
    <3>. QED
      BY <2>2, <3>2 DEF MadeBy, RowRight, Lasts, Signed
  <2>6. CASE old.session # i
    <3>1. new.session # NoRow => new.session \in Signed' /\ signed'[new.session] = signed[new.session]
      BY <1>2, <2>3, <2>4, <2>6 DEF RowRight
    <3>2. RowRight(new)'
      BY <1>1, <1>7, <2>3, <2>4, <2>6, <3>1 DEF RowRight
    <3>. QED
      BY <2>2, <3>2 DEF MadeBy, RowRight, Lasts, Signed
  <2>. QED
    BY <2>5, <2>6
<1>. QED
  BY <1>4, <1>5, <1>6, <1>10 DEF ReportInv

(* A step that changes one game and keeps it right.                        *)
LEMMA GameChanges ==
    ASSUME ReportInv, NoRowAssumption, ReportsAssumption, NEW g \in GameIds,
           NEW row \in GameEntries, RowRight(row),
           games' = [games EXCEPT ![g] = row], UNCHANGED <<utc, signed, entered, sockets>>,
           call' \in [Calls -> CallRows], \A c \in Calls : call'[c] \in {call[c], NoCall}
    PROVE  ReportInv'
<1>1. /\ \A h \in GameIds : games'[h] = IF h = g THEN row ELSE games[h]
      /\ Extant' = Extant \cup {g} /\ Signed' = Signed /\ row # NoRow
  BY RowFacts DEF ReportInv, ReportTypes, Extant, Signed
<1>2. ReportTypes'
  BY DEF ReportInv, ReportTypes
<1>3. \A i \in Signed' : SignedInv(i)'
  BY <1>1 DEF ReportInv, SignedInv
<1>4. \A k : RowRight(k) => RowRight(k)'
  BY <1>1 DEF RowRight, Lasts
<1>5. ASSUME NEW h \in Extant'
      PROVE  MadeBy(h)'
  <2>1. PICK k : k = games'[h]
    OBVIOUS
  <2>2. RowRight(k)
    BY <1>1, <1>5, <2>1, RowFacts DEF ReportInv, MadeBy
  <2>3. RowRight(k)'
    BY <1>4, <2>2
  <2>. QED
    BY <2>1, <2>3 DEF MadeBy, RowRight
<1>6. \A c \in Calls : AskedBy(call[c])'
  <2>1. NoCall.does # "create"
    BY DEF NoCall
  <2>. QED
    BY <1>1, <2>1 DEF ReportInv, AskedBy
<1>. QED
  BY <1>2, <1>3, <1>5, <1>6 DEF ReportInv

LEMMA NewGameKeeps ==
    ASSUME ReportInv, NoRowAssumption, ReportsAssumption, NEW c \in Calls,
           NEW setup \in UNION {Setups[n] : n \in Nicknames}, NewGame(c, setup)
    PROVE  ReportInv'
<1>1. PICK k, i : k = call[c] /\ i = call[c].session
  OBVIOUS
<1>. DEFINE row == [session |-> i, name |-> k.name, login |-> k.login,
                    under |-> signed[i].login, setup |-> setup, status |-> "active",
                    winner |-> NoRow, moves |-> 0, started |-> utc, finished |-> NoRow]
<1>2. /\ k.does = "create" /\ i = k.session /\ i \in Signed
      /\ \E g \in GameIds : games' = [games EXCEPT ![g] = row]
      /\ UNCHANGED <<utc, signed, entered, sockets>> /\ call' = [call EXCEPT ![c] = NoCall]
  BY <1>1 DEF NewGame
<1>3. /\ k.name \in Nicknames /\ k.login \in 1..MaxSessions /\ AskedBy(k)
      /\ i \in SessionIds /\ i # NoRow /\ NoCall \in CallRows
  BY <1>1, <1>2, CallFacts, RowFacts DEF ReportInv
<1>4. signed[i].login \in 1..MaxSessions /\ signed[i].login <= entered
  BY <1>2, RowFacts DEF SignedEntries, ReportInv, SignedInv
<1>5. 0 \in 0..MaxLength /\ utc \in 0..LastDay
  BY DEF ReportsAssumption, ReportInv, ReportTypes
<1>6. row \in GameEntries
  BY <1>3, <1>4, <1>5 DEF GameEntries
<1>7. /\ row.session = i /\ row.name = k.name /\ row.login = k.login
      /\ row.under = signed[i].login /\ row.winner = NoRow /\ row.status = "active"
  OBVIOUS
<1>. HIDE DEF row
<1>8. signed[i].login # k.login => ~Lasts(k.login)
  BY <1>2, <1>3 DEF AskedBy, Lasts
<1>9. RowRight(row)
  BY <1>2, <1>3, <1>4, <1>7, <1>8 DEF RowRight, AskedBy
<1>10. call' \in [Calls -> CallRows] /\ \A d \in Calls : call'[d] \in {call[d], NoCall}
  BY <1>2, <1>3 DEF ReportInv, ReportTypes
<1>11. PICK g \in GameIds : games' = [games EXCEPT ![g] = row]
  BY <1>2
<1>. QED
  BY <1>2, <1>6, <1>9, <1>10, <1>11, GameChanges

(* Every step of the reports is one of these, however games are seen to    *)
(* end.                                                                    *)
LEMMA StepsOfReports ==
    ASSUME ReportsAssumption, ReportsNext
    PROVE  \/ \E name \in Nicknames : SignIn(name)
           \/ \E c \in Calls : SignInReserved(c)
           \/ \E c \in Calls : \/ \E name \in Nicknames : FindFree(c, name)
                               \/ \E i \in SessionIds : LoadSession(c, i)
                               \/ CallFails(c)
           \/ \E i \in SessionIds : SignOut(i)
           \/ \E c \in Calls : \E setup \in UNION {Setups[n] : n \in Nicknames} : NewGame(c, setup)
           \/ \E g \in GameIds :
                \/ \E n \in 0..MaxLength : RecordLength(g, n)
                \/ \E status \in {"finished", "resigned"}, winner \in {"user", "ai"} :
                      EndGame(g, status, winner)
                \/ EngineResigns(g)
           \/ \E g \in GameIds : Erase(g) \/ Connect(g) \/ HangUp(g)
           \/ NewDay
<1>1. \A end \in Endings : end[1] \in {"finished", "resigned"} /\ end[2] \in {"user", "ai"}
  BY DEF ReportsAssumption
<1>2. ASSUME NEW g \in GameIds, NEW end \in Endings, EndGame(g, end[1], end[2])
      PROVE  \E status \in {"finished", "resigned"}, winner \in {"user", "ai"} :
                EndGame(g, status, winner)
  BY <1>1, <1>2
<1>3. CASE \E c \in Calls :
             \/ \E name \in Nicknames : FindFree(c, name)
             \/ \E i \in SessionIds : LoadSession(c, i)
             \/ SignInReserved(c) \/ CallFails(c)
             \/ \E setup \in UNION {Setups[n] : n \in Nicknames} :
                   call[c].does = "create" /\ setup \in Setups[call[c].name] /\ NewGame(c, setup)
  BY <1>3
<1>4. CASE \E g \in GameIds :
             \/ \E n \in 0..MaxLength : RecordLength(g, n)
             \/ \E end \in Endings : EndGame(g, end[1], end[2])
             \/ EngineResigns(g) \/ Erase(g) \/ Connect(g) \/ HangUp(g)
  BY <1>2, <1>4
<1>. QED
  BY <1>3, <1>4 DEF ReportsNext

LEMMA MovesKeep ==
    ASSUME ReportInv, NoRowAssumption, ReportsAssumption, NEW g \in GameIds,
           \/ \E n \in 0..MaxLength : RecordLength(g, n)
           \/ \E status \in {"finished", "resigned"}, winner \in {"user", "ai"} :
                 EndGame(g, status, winner)
           \/ EngineResigns(g)
    PROVE  ReportInv'
<1>1. g \in Extant /\ games[g] \in GameEntries /\ games[g].status = "active" /\ MadeBy(g)
  BY RowFacts DEF RecordLength, EndGame, EngineResigns, ReportInv
<1>2. \E row \in GameEntries :
         /\ games' = [games EXCEPT ![g] = row] /\ UNCHANGED <<utc, signed, entered, call, sockets>>
         /\ row.login = games[g].login /\ row.session = games[g].session
         /\ row.under = games[g].under
         /\ row.name = games[g].name
         /\ (row.winner = NoRow) <=> (row.status = "active")
  <2>1. CASE \E n \in 0..MaxLength : RecordLength(g, n)
    <3>1. PICK n \in 0..MaxLength : RecordLength(g, n)
      BY <2>1
    <3>. DEFINE row == [games[g] EXCEPT !.moves = n]
    <3>2. games' = [games EXCEPT ![g] = row] /\ UNCHANGED <<utc, signed, entered, call, sockets>>
      BY <3>1 DEF RecordLength
    <3>3. /\ row \in GameEntries /\ row.login = games[g].login /\ row.session = games[g].session
                                 /\ row.under = games[g].under
          /\ row.name = games[g].name /\ row.winner = games[g].winner
          /\ row.status = games[g].status
      BY <1>1 DEF GameEntries
    <3>. HIDE DEF row
    <3>. QED
      BY <1>1, <3>2, <3>3 DEF MadeBy, RowRight
  <2>2. CASE \E status \in {"finished", "resigned"}, winner \in {"user", "ai"} :
                EndGame(g, status, winner)
    <3>1. PICK status \in {"finished", "resigned"}, winner \in {"user", "ai"} :
                  EndGame(g, status, winner)
      BY <2>2
    <3>. DEFINE row == [games[g] EXCEPT !.status = status, !.winner = winner, !.finished = utc]
    <3>2. games' = [games EXCEPT ![g] = row] /\ UNCHANGED <<utc, signed, entered, call, sockets>>
      BY <3>1 DEF EndGame, ReportInv, ReportTypes
    <3>3. /\ row \in GameEntries /\ row.login = games[g].login /\ row.session = games[g].session
                                 /\ row.under = games[g].under
          /\ row.name = games[g].name /\ row.winner # NoRow /\ row.status # "active"
      BY <1>1, RowFacts DEF GameEntries, ReportInv, ReportTypes
    <3>. HIDE DEF row
    <3>. QED
      BY <3>2, <3>3
  <2>3. CASE EngineResigns(g)
    <3>. DEFINE row == [games[g] EXCEPT !.status = "resigned", !.winner = "user"]
    <3>2. games' = [games EXCEPT ![g] = row] /\ UNCHANGED <<utc, signed, entered, call, sockets>>
      BY <2>3 DEF EngineResigns, ReportInv, ReportTypes
    <3>3. /\ row \in GameEntries /\ row.login = games[g].login /\ row.session = games[g].session
                                 /\ row.under = games[g].under
          /\ row.name = games[g].name /\ row.winner # NoRow /\ row.status # "active"
      BY <1>1, RowFacts DEF GameEntries
    <3>. HIDE DEF row
    <3>. QED
      BY <3>2, <3>3
  <2>. QED
    BY <2>1, <2>2, <2>3
<1>3. PICK row \in GameEntries :
         /\ games' = [games EXCEPT ![g] = row] /\ UNCHANGED <<utc, signed, entered, call, sockets>>
         /\ row.login = games[g].login /\ row.session = games[g].session
         /\ row.under = games[g].under
         /\ row.name = games[g].name
         /\ (row.winner = NoRow) <=> (row.status = "active")
  BY <1>2
<1>4. RowRight(row)
  BY <1>1, <1>3 DEF MadeBy, RowRight
<1>5. call' \in [Calls -> CallRows]
  BY <1>3 DEF ReportInv, ReportTypes
<1>. QED
  BY <1>3, <1>4, <1>5, GameChanges

LEMMA OthersKeep ==
    ASSUME ReportInv, NoRowAssumption, ReportsAssumption,
           \/ \E g \in GameIds : Erase(g) \/ Connect(g) \/ HangUp(g)
           \/ NewDay \/ UNCHANGED reportVars
    PROVE  ReportInv'
<1>1. /\ \A g \in GameIds : games'[g] \in {games[g], NoRow}
      /\ games' \in [GameIds -> GameEntries \cup {NoRow}]
      /\ sockets' \in SUBSET GameIds /\ utc' \in 0..LastDay /\ UNCHANGED <<signed, entered, call>>
  <2>1. CASE \E g \in GameIds : Erase(g)
    BY <2>1 DEF Erase, ReportInv, ReportTypes
  <2>2. CASE \E g \in GameIds : Connect(g) \/ HangUp(g)
    BY <2>2 DEF Connect, HangUp, ReportInv, ReportTypes
  <2>3. CASE NewDay
    BY <2>3 DEF NewDay, ReportInv, ReportTypes, ReportsAssumption
  <2>4. CASE UNCHANGED reportVars
    BY <2>4 DEF reportVars, ReportInv, ReportTypes
  <2>. QED
    BY <2>1, <2>2, <2>3, <2>4
<1>2. Signed' = Signed /\ Extant' \subseteq Extant /\ \A g \in Extant' : games'[g] = games[g]
  BY <1>1 DEF Signed, Extant
<1>3. ReportTypes'
  BY <1>1 DEF ReportInv, ReportTypes
<1>4. \A i \in Signed' : SignedInv(i)'
  BY <1>1, <1>2 DEF ReportInv, SignedInv
<1>5. \A g \in Extant' : MadeBy(g)'
  BY <1>1, <1>2 DEF ReportInv, MadeBy, RowRight, Lasts
<1>6. \A c \in Calls : AskedBy(call[c])'
  BY <1>1, <1>2 DEF ReportInv, AskedBy
<1>. QED
  BY <1>1, <1>3, <1>4, <1>5, <1>6 DEF ReportInv

LEMMA ReportsInvariance == ReportsSpec => []ReportInv
<1>1. ReportsInit => ReportInv
  BY InitReports, ReportsAssumption
<1>2. ReportInv /\ [ReportsNext]_reportVars => ReportInv'
  <2>. SUFFICES ASSUME ReportInv, [ReportsNext]_reportVars
                PROVE  ReportInv'
    OBVIOUS
  <2>. USE ReportsAssumption, NoRowAssumption
  <2>1. CASE \/ \E name \in Nicknames : SignIn(name)
             \/ \E c \in Calls : SignInReserved(c)
    BY <2>1, SignInKeeps
  <2>2. CASE \E i \in SessionIds : SignOut(i)
    BY <2>2, SignOutKeeps
  <2>3. CASE \E c \in Calls : \E setup \in UNION {Setups[n] : n \in Nicknames} : NewGame(c, setup)
    BY <2>3, NewGameKeeps
  <2>6. CASE \E c \in Calls : \/ \E name \in Nicknames : FindFree(c, name)
                              \/ \E i \in SessionIds : LoadSession(c, i)
                              \/ CallFails(c)
    BY <2>6, CallsKeep
  <2>4. CASE \E g \in GameIds :
                \/ \E n \in 0..MaxLength : RecordLength(g, n)
                \/ \E status \in {"finished", "resigned"}, winner \in {"user", "ai"} :
                      EndGame(g, status, winner)
                \/ EngineResigns(g)
    BY <2>4, MovesKeep
  <2>5. CASE \/ \E g \in GameIds : Erase(g) \/ Connect(g) \/ HangUp(g)
             \/ NewDay \/ UNCHANGED reportVars
    BY <2>5, OthersKeep
  <2>. QED
    BY <2>1, <2>2, <2>3, <2>4, <2>5, <2>6, StepsOfReports
<1>. QED
  BY <1>1, <1>2, PTL DEF ReportsSpec

(* However ids of sessions are given out again, also while a game is being *)
(* created, spectators see a running game exactly while the login that     *)
(* asked for it lasts, or the one with its id when it was stored, and      *)
(* never one of an administrator's or of the test harness.                 *)
THEOREM SpectatorsSeeTheirs == ReportsSpec => []SpectatorsSee
<1>1. ReportInv => SpectatorsSee
  <2>. SUFFICES ASSUME ReportInv, NEW g \in Extant
                PROVE  /\ ~Adopted(g) =>
                             (g \in Spectatable <=>
                                 /\ games[g].name \notin Admins \cup Testers
                                 /\ IF games[g].status = "active" THEN Lasts(games[g].login)
                                    ELSE games[g].moves >= MinExposed)
                       /\ Adopted(g) /\ g \in Spectatable =>
                             /\ games[g].name \notin Admins \cup Testers
                             /\ games[g].status = "active" => Lasts(games[g].under)
    BY DEF SpectatorsSee
  <2>. USE ReportsAssumption, NoRowAssumption
  <2>1. RowRight(games[g]) /\ games[g] \in GameEntries
    BY RowFacts DEF ReportInv, MadeBy
  <2>2. \A names : games[g].name \in names => Hidden(g, names)
    BY DEF Hidden
  <2>3. ~Adopted(g) => \A names : Hidden(g, names) => games[g].name \in names
    BY <2>1, RowFacts DEF Hidden, RowRight, Adopted
  <2>4. g \in Decided <=> games[g].status # "active"
    BY <2>1 DEF Decided, Of, GameEntries
  <2>5. games[g].session \in Signed <=> Lasts(games[g].under)
    BY <2>1, RowFacts DEF RowRight, Lasts
  <2>6. CASE Adopted(g)
    BY <2>2, <2>4, <2>5, <2>6 DEF Spectatable, Exposed, Running
  <2>7. CASE ~Adopted(g)
    <3>1. games[g].under = games[g].login
      BY <2>7 DEF Adopted
    <3>. QED
      BY <2>2, <2>3, <2>4, <2>5, <2>7, <3>1 DEF Spectatable, Exposed, Running
  <2>. QED
    BY <2>6, <2>7
<1>. QED
  BY <1>1, ReportsInvariance, PTL

(* The games the console counts for a session row are those stored under   *)
(* the login that has the row, whoever had its id before; and who asked    *)
(* for a game stored under another login has gone.                         *)
LEMMA RowsCountTheirs == ReportsSpec => []FiguresAreOwn
<1>1. ReportInv => FiguresAreOwn
  <2>. SUFFICES ASSUME ReportInv
                PROVE  FiguresAreOwn
    OBVIOUS
  <2>. USE ReportsAssumption, NoRowAssumption
  <2>1. ASSUME NEW i \in Signed
        PROVE  SessionRow(i).games = Cardinality({g \in Extant : games[g].under = signed[i].login})
    <3>1. SessionRow(i).games = Cardinality({g \in Extant : games[g].session = i})
      BY DEF SessionRow
    <3>2. ASSUME NEW g \in Extant
          PROVE  games[g].session = i <=> games[g].under = signed[i].login
      BY RowFacts DEF ReportInv, MadeBy, RowRight, SignedInv, Lasts
    <3>3. {g \in Extant : games[g].session = i} = {g \in Extant : games[g].under = signed[i].login}
      BY <3>2
    <3>. QED
      BY <3>1, <3>3
  <2>2. \A g \in Extant : Adopted(g) => ~Lasts(games[g].login)
    BY DEF ReportInv, MadeBy, RowRight, Adopted
  <2>. QED
    BY <2>1, <2>2 DEF FiguresAreOwn
<1>. QED
  BY <1>1, ReportsInvariance, PTL

-----------------------------------------------------------------------------
(* The figures of one page are those of another.                           *)

(* A game's days lie behind; the only decided games without a last day are *)
(* those the engine resigned out of hand.                                  *)
Dated(g) ==
    /\ games[g].started <= utc
    /\ games[g].finished # NoRow => games[g].finished <= utc
    /\ games[g].status = "active" => games[g].finished = NoRow
    /\ games[g].status # "active" /\ games[g].finished = NoRow =>
          games[g].status = "resigned" /\ games[g].winner = "user"

FigureInv == \A g \in Extant : Dated(g)

LEMMA DatesStay ==
    ASSUME ReportInv, FigureInv, NoRowAssumption, ReportsAssumption, [ReportsNext]_reportVars
    PROVE  FigureInv'
<1>1. utc \in Int /\ NoRow \notin Int
  BY DEF ReportInv, ReportTypes, NoRowAssumption
<1>2. ASSUME \A g \in Extant' : g \in Extant, \A g \in Extant' : /\ games'[g].started = games[g].started
                                     /\ games'[g].finished = games[g].finished
                                     /\ games'[g].status = games[g].status
                                     /\ games'[g].winner = games[g].winner,
             utc' \in Int, utc <= utc'
      PROVE  \A g \in Extant' : Dated(g)'
  <2>1. \A g \in Extant : games[g].started \in Int /\ (games[g].finished # NoRow => games[g].finished \in Int)
    BY RowFacts DEF GameEntries
  <2>. QED
    BY <1>1, <1>2, <2>1 DEF Dated, FigureInv
<1>3. CASE \/ \E name \in Nicknames : SignIn(name)
           \/ \E c \in Calls : \/ SignInReserved(c) \/ CallFails(c)
                               \/ \E name \in Nicknames : FindFree(c, name)
                               \/ \E i \in SessionIds : LoadSession(c, i)
           \/ \E g \in GameIds : Erase(g) \/ Connect(g) \/ HangUp(g)
           \/ NewDay \/ UNCHANGED reportVars
  <2>1. \A g \in GameIds : games'[g] = games[g] \/ games'[g] = NoRow
    BY <1>3 DEF SignIn, SignInReserved, Enter, CallFails, FindFree, LoadSession, Erase,
                  Connect, HangUp, NewDay, reportVars, ReportInv, ReportTypes
  <2>2. utc' = utc \/ utc' = utc + 1
    BY <1>3 DEF SignIn, SignInReserved, Enter, CallFails, FindFree, LoadSession, Erase,
                  Connect, HangUp, NewDay, reportVars
  <2>3. \A g \in Extant' : g \in Extant /\ games'[g] = games[g]
    BY <2>1 DEF Extant
  <2>4. utc' \in Int /\ utc <= utc'
    BY <1>1, <2>2
  <2>. QED
    BY <1>2, <2>3, <2>4 DEF FigureInv
<1>4. ASSUME NEW i \in SessionIds, SignOut(i)
      PROVE  \A g \in Extant' : Dated(g)'
  <2>1. games' = Detached(i) /\ utc' = utc
    BY <1>4 DEF SignOut
  <2>2. ASSUME NEW g \in Extant'
        PROVE  /\ g \in Extant /\ games'[g].started = games[g].started
               /\ games'[g].finished = games[g].finished
               /\ games'[g].status = games[g].status /\ games'[g].winner = games[g].winner
    <3>1. g \in GameIds /\ games'[g] = IF g \in Extant /\ games[g].session = i
                                       THEN [games[g] EXCEPT !.session = NoRow] ELSE games[g]
      BY <2>1 DEF Extant, Detached
    <3>2. g \in Extant /\ games[g] \in GameEntries
      BY <3>1, RowFacts DEF Extant
    <3>3. CASE games[g].session = i
      BY <3>1, <3>2, <3>3 DEF GameEntries
    <3>4. CASE games[g].session # i
      BY <3>1, <3>2, <3>4
    <3>. QED
      BY <3>3, <3>4
  <2>. QED
    BY <1>1, <1>2, <2>1, <2>2
<1>5. ASSUME NEW c \in Calls, NEW setup, NewGame(c, setup)
      PROVE  \A g \in Extant' : Dated(g)'
  <2>. DEFINE row == [session |-> call[c].session, name |-> call[c].name, login |-> call[c].login,
                      under |-> signed[call[c].session].login, setup |-> setup,
                      status |-> "active", winner |-> NoRow, moves |-> 0,
                      started |-> utc, finished |-> NoRow]
  <2>1. PICK g \in GameIds : games' = [games EXCEPT ![g] = row] /\ utc' = utc
    BY <1>5 DEF NewGame
  <2>2. row.started = utc /\ row.finished = NoRow /\ row.status = "active"
    OBVIOUS
  <2>. HIDE DEF row
  <2>3. \A h \in GameIds : games'[h] = IF h = g THEN row ELSE games[h]
    BY <2>1 DEF ReportInv, ReportTypes
  <2>4. Dated(g)'
    BY <1>1, <2>1, <2>2, <2>3 DEF Dated
  <2>5. \A h \in Extant' : h # g => Dated(h)'
    BY <2>1, <2>3 DEF Extant, Dated, FigureInv
  <2>. QED
    BY <2>4, <2>5
<1>6. ASSUME NEW g \in GameIds,
             \/ \E n \in 0..MaxLength : RecordLength(g, n)
             \/ \E status \in {"finished", "resigned"}, winner \in {"user", "ai"} :
                   EndGame(g, status, winner)
             \/ EngineResigns(g)
      PROVE  \A h \in Extant' : Dated(h)'
  <2>1. /\ g \in Extant /\ games[g] \in GameEntries /\ games[g].status = "active" /\ Dated(g)
        /\ UNCHANGED utc
    BY <1>6, RowFacts DEF RecordLength, EndGame, EngineResigns, FigureInv
  <2>2. /\ \A h \in GameIds : h # g => games'[h] = games[h]
        /\ games'[g].started = games[g].started
        /\ \/ games'[g].status = games[g].status /\ games'[g].finished = games[g].finished
           \/ games'[g].status # "active" /\ games'[g].finished = utc
           \/ /\ games'[g].status = "resigned" /\ games'[g].winner = "user"
              /\ games'[g].finished = games[g].finished
    <3>1. CASE \E n \in 0..MaxLength : RecordLength(g, n)
      BY <2>1, <3>1 DEF RecordLength, GameEntries, ReportInv, ReportTypes
    <3>2. CASE \E status \in {"finished", "resigned"}, winner \in {"user", "ai"} :
                  EndGame(g, status, winner)
      BY <2>1, <3>2 DEF EndGame, GameEntries, ReportInv, ReportTypes
    <3>3. CASE EngineResigns(g)
      BY <2>1, <3>3 DEF EngineResigns, GameEntries, ReportInv, ReportTypes
    <3>. QED
      BY <1>6, <3>1, <3>2, <3>3
  <2>3. Dated(g)'
    BY <1>1, <2>1, <2>2 DEF Dated
  <2>4. \A h \in Extant' : h # g => Dated(h)'
    BY <2>1, <2>2 DEF Extant, Dated, FigureInv
  <2>. QED
    BY <2>3, <2>4
<1>. QED
  <2>1. CASE UNCHANGED reportVars
    BY <1>3, <2>1 DEF FigureInv
  <2>2. CASE ReportsNext
    <3>. SUFFICES \A g \in Extant' : Dated(g)'
      BY DEF FigureInv
    <3>1. CASE \E c \in Calls : \/ \E name \in Nicknames : FindFree(c, name)
                                \/ \E i \in SessionIds : LoadSession(c, i)
                                \/ CallFails(c)
      BY <1>3, <3>1 DEF FigureInv
    <3>2. CASE \E c \in Calls : \E setup \in UNION {Setups[n] : n \in Nicknames} : NewGame(c, setup)
      BY <1>5, <3>2
    <3>3. CASE \/ \E name \in Nicknames : SignIn(name)
               \/ \E c \in Calls : SignInReserved(c)
               \/ \E g \in GameIds : Erase(g) \/ Connect(g) \/ HangUp(g)
               \/ NewDay
      BY <1>3, <3>3 DEF FigureInv
    <3>4. CASE \E g \in GameIds :
                \/ \E n \in 0..MaxLength : RecordLength(g, n)
                \/ \E status \in {"finished", "resigned"}, winner \in {"user", "ai"} :
                      EndGame(g, status, winner)
                \/ EngineResigns(g)
      BY <1>6, <3>4
    <3>. QED
      BY <1>4, <2>2, <3>1, <3>2, <3>3, <3>4, StepsOfReports
  <2>. QED
    BY <2>1, <2>2

LEMMA FiguresInvariance == ReportsSpec => [](ReportInv /\ FigureInv)
<1>1. ReportsInit => FigureInv
  BY DEF ReportsInit, Extant, FigureInv
<1>2. ReportInv /\ FigureInv /\ [ReportsNext]_reportVars => FigureInv'
  BY DatesStay, NoRowAssumption, ReportsAssumption
<1>. QED
  BY <1>1, <1>2, ReportsInvariance, PTL DEF ReportsSpec

(* What is counted by a key and added up is the number of those whose key  *)
(* is counted.                                                             *)
LEMMA TotalByKey ==
    ASSUME NEW S, IsFiniteSet(S), NEW key, NEW f,
           \A v \in DOMAIN f : f[v] = Cardinality({x \in S : key[x] = v})
    PROVE  Total(f) = Cardinality({x \in S : key[x] \in DOMAIN f})
<1>. DEFINE D == DOMAIN f
            P(v) == {x \in S : key[x] = v}
            U == {x \in S : key[x] \in D}
            Z == UNION {{v} \X (1..f[v]) : v \in D}
            b == [v \in D |-> CHOOSE c : c \in Bijection(1..f[v], P(v))]
            h == [z \in Z |-> b[z[1]][z[2]]]
<1>1. ASSUME NEW v \in D
      PROVE  b[v] \in Bijection(1..f[v], P(v))
  <2>1. IsFiniteSet(P(v)) /\ f[v] = Cardinality(P(v))
    BY FS_Subset
  <2>2. Bijection(1..f[v], P(v)) # {}
    BY <2>1, FS_CardinalityType DEF ExistsBijection
  <2>. QED
    BY <2>2
<1>2. ASSUME NEW v \in D
      PROVE  /\ \A n \in 1..f[v] : b[v][n] \in P(v)
             /\ \A m, n \in 1..f[v] : b[v][m] = b[v][n] => m = n
             /\ \A x \in P(v) : \E n \in 1..f[v] : b[v][n] = x
  <2>1. PICK c : c = b[v] /\ c \in Bijection(1..f[v], P(v))
    BY <1>1
  <2>2. c \in [1..f[v] -> P(v)] /\ DOMAIN c = 1..f[v]
    BY <2>1 DEF Bijection, Injection
  <2>3. \A m, n \in 1..f[v] : c[m] = c[n] => m = n
    BY <2>1, <2>2 DEF Bijection, Injection, IsInjective
  <2>4. \A x \in P(v) : \E n \in 1..f[v] : c[n] = x
    BY <2>1 DEF Bijection, Surjection
  <2>5. \A n \in 1..f[v] : c[n] \in P(v)
    BY <2>2
  <2>. HIDE DEF P, b
  <2>. QED
    BY <2>1, <2>3, <2>4, <2>5
<1>. HIDE DEF b
<1>3. \A z \in Z : \E v \in D : \E n \in 1..f[v] : z = <<v, n>>
  OBVIOUS
<1>4. \A v \in D : \A n \in 1..f[v] : <<v, n>> \in Z
  OBVIOUS
<1>. HIDE DEF Z
<1>5. \A v \in D : \A n \in 1..f[v] : h[<<v, n>>] = b[v][n]
  BY <1>4
<1>6. h \in [Z -> U]
  <2>1. ASSUME NEW z \in Z
        PROVE  h[z] \in U
    <3>1. PICK v \in D : \E n \in 1..f[v] : z = <<v, n>>
      BY <1>3
    <3>2. PICK n \in 1..f[v] : z = <<v, n>>
      BY <3>1
    <3>3. h[z] \in P(v)
      BY <1>2, <1>5, <3>2
    <3>. QED
      BY <3>3
  <2>. QED
    BY <2>1
<1>7. ASSUME NEW y \in Z, NEW z \in Z, h[y] = h[z]
      PROVE  y = z
  <2>1. PICK v \in D, w \in D : (\E n \in 1..f[v] : y = <<v, n>>) /\ (\E n \in 1..f[w] : z = <<w, n>>)
    BY <1>3
  <2>2. PICK m \in 1..f[v], n \in 1..f[w] : y = <<v, m>> /\ z = <<w, n>>
    BY <2>1
  <2>3. h[y] \in P(v) /\ h[z] \in P(w)
    BY <1>2, <1>5, <2>2
  <2>4. v = w
    BY <1>7, <2>3
  <2>. QED
    BY <1>2, <1>5, <1>7, <2>2, <2>4
<1>8. ASSUME NEW x \in U
      PROVE  \E z \in Z : h[z] = x
  <2>1. key[x] \in D /\ x \in P(key[x])
    OBVIOUS
  <2>2. PICK n \in 1..f[key[x]] : b[key[x]][n] = x
    BY <1>2, <2>1
  <2>. QED
    BY <1>4, <1>5, <2>1, <2>2
<1>9. DOMAIN h = Z
  OBVIOUS
<1>. HIDE DEF h
<1>10. h \in Injection(Z, U) /\ h \in Surjection(Z, U)
  BY <1>6, <1>7, <1>8, <1>9 DEF Injection, Surjection, IsInjective
<1>11. IsFiniteSet(U)
  BY FS_Subset
<1>12. Cardinality(Z) = Cardinality(U)
  BY <1>10, <1>11, FS_Injection
<1>. QED
  BY <1>12 DEF Total, Z

LEMMA DisjointSum ==
    ASSUME NEW S, NEW T, IsFiniteSet(S), IsFiniteSet(T), S \cap T = {}
    PROVE  Cardinality(S \cup T) = Cardinality(S) + Cardinality(T)
<1>1. Cardinality({}) = 0 /\ Cardinality(S) \in Nat /\ Cardinality(T) \in Nat
  BY FS_EmptySet, FS_CardinalityType
<1>2. Cardinality(S \cup T) = Cardinality(S) + Cardinality(T) - Cardinality(S \cap T)
  BY FS_Union
<1>3. Cardinality(S \cap T) = 0
  BY <1>1, Zenon
<1>. QED
  BY <1>1, <1>2, <1>3

LEMMA GamesByState ==
    ASSUME ReportInv, NoRowAssumption, ReportsAssumption
    PROVE  /\ IsFiniteSet(Extant) /\ IsFiniteSet(Decided)
           /\ \A g \in Extant : /\ games[g].status \in {"active", "finished", "resigned"}
                                /\ games[g].winner \in {"user", "ai", NoRow}
                                /\ games[g].winner = NoRow <=> games[g].status = "active"
           /\ Decided = {g \in Extant : games[g].status # "active"}
           /\ Decided \subseteq Extant
           /\ \A g \in Decided : games[g].winner = "user" <=> games[g].winner # "ai"
           /\ NoRow # "user" /\ NoRow # "ai"
           /\ \A s \in SUBSET Extant : /\ Won(s, "user") = Won(s \cap Decided, "user")
                                       /\ Won(s, "ai") = Won(s \cap Decided, "ai")
<1>1. /\ NoRow # "user" /\ NoRow # "ai" /\ Extant \subseteq 1..MaxGames /\ MaxGames \in Nat
      /\ \A g \in Extant : games[g] \in GameEntries /\ MadeBy(g)
  BY RowFacts DEF ReportInv
<1>2. ASSUME NEW g \in Extant
      PROVE  /\ games[g].status \in {"active", "finished", "resigned"}
             /\ games[g].winner \in {"user", "ai", NoRow}
             /\ games[g].winner = NoRow <=> games[g].status = "active"
  BY <1>1 DEF GameEntries, MadeBy, RowRight
<1>3. Decided = {g \in Extant : games[g].status # "active"}
  BY <1>2 DEF Decided, Of
<1>4. IsFiniteSet(Extant)
  <2>1. IsFiniteSet(1..MaxGames)
    BY <1>1, FS_Interval
  <2>. QED
    BY <1>1, <2>1, FS_Subset
<1>5. IsFiniteSet(Decided)
  BY <1>3, <1>4, FS_Subset
<1>6. \A g \in Decided : games[g].winner = "user" <=> games[g].winner # "ai"
  BY <1>1, <1>2, <1>3
<1>7. ASSUME NEW s \in SUBSET Extant
      PROVE  /\ Won(s, "user") = Won(s \cap Decided, "user")
             /\ Won(s, "ai") = Won(s \cap Decided, "ai")
  BY <1>1, <1>2, <1>3 DEF Won
<1>. QED
  BY <1>1, <1>2, <1>3, <1>4, <1>5, <1>6, <1>7

(* Games won and games lost are the decided ones.                          *)
LEMMA WonAndLost ==
    ASSUME ReportInv, NoRowAssumption, ReportsAssumption, NEW s \in SUBSET Extant
    PROVE  /\ Cardinality(Won(s, "user")) + Cardinality(Won(s, "ai"))
                 = Cardinality(s \cap Decided)
           /\ Cardinality(Won(s, "user")) \in Nat /\ Cardinality(Won(s, "ai")) \in Nat
           /\ Cardinality(s \cap Decided) \in Nat
<1>. DEFINE u == Won(s \cap Decided, "user")
            a == Won(s \cap Decided, "ai")
<1>1. IsFiniteSet(s \cap Decided)
  BY GamesByState, FS_Subset
<1>2. u \in SUBSET (s \cap Decided) /\ a \in SUBSET (s \cap Decided)
  BY DEF Won
<1>3. IsFiniteSet(u) /\ IsFiniteSet(a)
  BY <1>1, <1>2, FS_Subset
<1>4. u \cup a = s \cap Decided /\ u \cap a = {}
  BY GamesByState DEF Won
<1>5. Won(s, "user") = u /\ Won(s, "ai") = a
  BY GamesByState
<1>6. /\ Cardinality(u) \in Nat /\ Cardinality(a) \in Nat
      /\ Cardinality(s \cap Decided) \in Nat
  BY <1>1, <1>3, FS_CardinalityType
<1>. HIDE DEF u, a
<1>7. Cardinality(u \cup a) = Cardinality(u) + Cardinality(a)
  BY <1>3, <1>4, DisjointSum
<1>. QED
  BY <1>4, <1>5, <1>6, <1>7

LEMMA StatesAddUp ==
    ASSUME ReportInv, NoRowAssumption, ReportsAssumption
    PROVE  Summary.total = Summary.active + Summary.finished + Summary.resigned
<1>1. /\ Of("active") \in SUBSET Extant /\ Of("finished") \in SUBSET Extant
      /\ Of("resigned") \in SUBSET Extant
  BY DEF Of
<1>2. IsFiniteSet(Of("active")) /\ IsFiniteSet(Of("finished")) /\ IsFiniteSet(Of("resigned"))
  BY <1>1, GamesByState, FS_Subset
<1>3. /\ Of("finished") \cup Of("resigned") = Decided /\ Of("finished") \cap Of("resigned") = {}
      /\ Of("active") \cup Decided = Extant /\ Of("active") \cap Decided = {}
  BY GamesByState DEF Of, Decided
<1>4. Cardinality(Decided) = Cardinality(Of("finished")) + Cardinality(Of("resigned"))
  BY <1>2, <1>3, DisjointSum
<1>5. Cardinality(Extant) = Cardinality(Of("active")) + Cardinality(Decided)
  BY <1>2, <1>3, GamesByState, DisjointSum
<1>6. /\ Cardinality(Of("active")) \in Nat /\ Cardinality(Of("finished")) \in Nat
      /\ Cardinality(Of("resigned")) \in Nat
  BY <1>2, FS_CardinalityType
<1>. QED
  BY <1>4, <1>5, <1>6 DEF Summary

LEMMA NicknamesAddUp ==
    ASSUME ReportInv, NoRowAssumption, ReportsAssumption
    PROVE  LET named == NicknameSummary
           IN  /\ Summary.decisive
                     = Total([n \in DOMAIN named |-> named[n].wins + named[n].losses])
               /\ Summary.userWins = Total([n \in DOMAIN named |-> named[n].wins])
<1>. DEFINE named == NicknameSummary
            names == {games[g].name : g \in Extant}
            theirs(n) == {g \in Extant : games[g].name = n}
            key == [g \in Extant |-> games[g].name]
            both == [n \in names |-> named[n].wins + named[n].losses]
            wins == [n \in names |-> named[n].wins]
            won == Won(Decided, "user")
<1>1. /\ DOMAIN named = names
      /\ \A n \in names : /\ named[n].wins = Cardinality(Won(theirs(n), "user"))
                          /\ named[n].losses = Cardinality(Won(theirs(n), "ai"))
  BY DEF NicknameSummary
<1>2. \A n \in names : both[n] = Cardinality({x \in Decided : key[x] = n})
  <2>1. ASSUME NEW n \in names
        PROVE  both[n] = Cardinality(theirs(n) \cap Decided)
    BY <1>1, WonAndLost
  <2>2. ASSUME NEW n \in names
        PROVE  theirs(n) \cap Decided = {x \in Decided : key[x] = n}
    BY GamesByState
  <2>. HIDE DEF both, key
  <2>. QED
    BY <2>1, <2>2
<1>3. \A n \in names : wins[n] = Cardinality({x \in won : key[x] = n})
  <2>1. ASSUME NEW n \in names
        PROVE  Won(theirs(n), "user") = {x \in won : key[x] = n}
    <3>1. Won(theirs(n), "user") = Won(theirs(n) \cap Decided, "user")
      BY GamesByState
    <3>2. Won(theirs(n) \cap Decided, "user") = {x \in won : key[x] = n}
      BY GamesByState DEF Won
    <3>. QED
      BY <3>1, <3>2
  <2>. QED
    BY <1>1, <2>1
<1>4. DOMAIN both = names /\ DOMAIN wins = names
  OBVIOUS
<1>5. won \in SUBSET Decided /\ IsFiniteSet(Decided)
  BY GamesByState DEF Won
<1>6. IsFiniteSet(won)
  BY <1>5, FS_Subset
<1>7. /\ {x \in Decided : key[x] \in names} = Decided
      /\ {x \in won : key[x] \in names} = won
  BY <1>5, GamesByState
<1>. HIDE DEF both, wins, won, key, names, named
<1>8. Total(both) = Cardinality({x \in Decided : key[x] \in names})
  BY <1>2, <1>4, <1>5, TotalByKey
<1>9. Total(wins) = Cardinality({x \in won : key[x] \in names})
  BY <1>3, <1>4, <1>6, TotalByKey
<1>10. Summary.decisive = Cardinality(Decided) /\ Summary.userWins = Cardinality(won)
  BY DEF Summary, won
<1>. QED
  BY <1>1, <1>7, <1>8, <1>9, <1>10 DEF both, wins, named

LEMMA DaysAddUp ==
    ASSUME ReportInv, FigureInv, NoRowAssumption, ReportsAssumption
    PROVE  LET all == Buckets(LastDay + 1)
               dateless == {g \in Decided : games[g].finished = NoRow}
           IN  /\ Summary.total = Total([d \in DOMAIN all |-> all[d].started])
               /\ Summary.decisive = Cardinality(dateless)
                                       + Total([d \in DOMAIN all |-> all[d].finished])
               /\ Cardinality(dateless) <= Summary.aiResigned
<1>. DEFINE all == Buckets(LastDay + 1)
            days == Span(LastDay + 1)
            dateless == {g \in Decided : games[g].finished = NoRow}
            dated == {g \in Decided : games[g].finished # NoRow}
            started == [d \in days |-> all[d].started]
            finished == [d \in days |-> all[d].finished]
            starts == [g \in Extant |-> games[g].started]
            ends == [g \in Extant |-> games[g].finished]
<1>1. /\ DOMAIN all = days
      /\ \A d \in days :
            /\ all[d].started = Cardinality({g \in Extant : games[g].started = d})
            /\ all[d].finished = Cardinality({g \in Extant : games[g].finished = d})
  BY DEF Buckets
<1>2. /\ utc \in 0..LastDay /\ LastDay \in Nat /\ NoRow \notin Int
      /\ \A d : d \in days <=> d \in (utc - LastDay)..utc
  BY DEF ReportInv, ReportTypes, ReportsAssumption, NoRowAssumption, Span
<1>3. \A g \in Extant : games[g].started \in days
  <2>1. ASSUME NEW g \in Extant
        PROVE  games[g].started \in 0..LastDay /\ games[g].started <= utc
    BY RowFacts DEF GameEntries, FigureInv, Dated
  <2>. HIDE DEF days
  <2>. QED
    BY <1>2, <2>1
<1>4. \A g \in Extant : games[g].finished \in days <=> g \in dated
  <2>1. ASSUME NEW g \in Extant
        PROVE  /\ games[g].finished \in 0..LastDay \cup {NoRow}
               /\ games[g].finished # NoRow => games[g].finished <= utc
               /\ games[g].status = "active" => games[g].finished = NoRow
    BY RowFacts DEF GameEntries, FigureInv, Dated
  <2>2. Decided = {g \in Extant : games[g].status # "active"}
    BY GamesByState
  <2>. HIDE DEF days
  <2>3. \A g \in Extant : games[g].finished # NoRow <=> g \in dated
    BY <2>1, <2>2
  <2>4. \A g \in Extant : games[g].finished # NoRow <=> games[g].finished \in days
    BY <1>2, <2>1
  <2>. QED
    BY <2>3, <2>4
<1>5. /\ IsFiniteSet(Extant) /\ IsFiniteSet(Decided) /\ Decided \subseteq Extant
      /\ dateless \in SUBSET Decided /\ dated \in SUBSET Decided
      /\ dateless \cup dated = Decided /\ dateless \cap dated = {}
  BY GamesByState
<1>6. IsFiniteSet(dateless) /\ IsFiniteSet(dated)
  BY <1>5, FS_Subset
<1>7. DOMAIN started = days /\ DOMAIN finished = days
  OBVIOUS
<1>8. \A d \in days : started[d] = Cardinality({g \in Extant : starts[g] = d})
  <2>1. \A d \in days : {g \in Extant : starts[g] = d} = {g \in Extant : games[g].started = d}
    OBVIOUS
  <2>. QED
    BY <1>1, <2>1
<1>9. \A d \in days : finished[d] = Cardinality({g \in Extant : ends[g] = d})
  <2>1. \A d \in days : {g \in Extant : ends[g] = d} = {g \in Extant : games[g].finished = d}
    OBVIOUS
  <2>. QED
    BY <1>1, <2>1
<1>10. {g \in Extant : starts[g] \in days} = Extant
  BY <1>3
<1>11. {g \in Extant : ends[g] \in days} = dated
  BY <1>4, <1>5
<1>12. dateless \in SUBSET Won(Of("resigned"), "user")
  <2>1. \A g \in dateless : g \in Extant /\ games[g].status # "active" /\ games[g].finished = NoRow
    BY GamesByState
  <2>. QED
    BY <2>1 DEF FigureInv, Dated, Won, Of
<1>13. Cardinality(dateless) <= Summary.aiResigned
  <2>1. Won(Of("resigned"), "user") \in SUBSET Extant
    BY DEF Won, Of
  <2>2. IsFiniteSet(Won(Of("resigned"), "user"))
    BY <1>5, <2>1, FS_Subset
  <2>3. Cardinality(dateless) <= Cardinality(Won(Of("resigned"), "user"))
    BY <1>12, <2>2, FS_Subset
  <2>. QED
    BY <2>3 DEF Summary
<1>14. Summary.total = Cardinality(Extant) /\ Summary.decisive = Cardinality(Decided)
  BY DEF Summary
<1>. HIDE DEF started, finished, starts, ends, days, all, dated, dateless
<1>15. Total(started) = Cardinality(Extant)
  BY <1>5, <1>7, <1>8, <1>10, TotalByKey
<1>16. Total(finished) = Cardinality(dated)
  BY <1>5, <1>7, <1>9, <1>11, TotalByKey
<1>17. Cardinality(Decided) = Cardinality(dateless) + Cardinality(dated)
  BY <1>5, <1>6, DisjointSum
<1>. QED
  BY <1>1, <1>13, <1>14, <1>15, <1>16, <1>17 DEF all, started, finished, dateless

LEMMA SessionsAgree ==
    ASSUME ReportInv, NoRowAssumption, ReportsAssumption
    PROVE  LET table == ListSessions
           IN  Summary.liveSessions = Cardinality({i \in Signed : table[i].connected})
<1>. DEFINE table == ListSessions
            live == {games[g].session : g \in Online} \ {NoRow}
<1>1. \A i \in Signed : table[i].connected <=> \E g \in Online : games[g].session = i
  BY DEF ListSessions, SessionRow
<1>2. live = {i \in Signed : table[i].connected}
  <2>1. \A g \in Online : games[g].session # NoRow => games[g].session \in Signed
    BY DEF Online, ReportInv, MadeBy, RowRight
  <2>2. \A i \in Signed : i # NoRow
    BY RowFacts
  <2>. HIDE DEF table
  <2>. QED
    BY <1>1, <2>1, <2>2
<1>3. Summary.liveSessions = Cardinality(live)
  BY DEF Summary
<1>. HIDE DEF live, table
<1>. QED
  BY <1>2, <1>3 DEF table

(* Split by what was chosen, all are counted but those who chose nothing.  *)
LEMMA ChoicesAddUp ==
    ASSUME NEW s, IsFiniteSet(s), NEW t \in SUBSET s, NEW what, NEW f,
           DOMAIN f = Chosen(s, what),
           \A v \in DOMAIN f : f[v] = Cardinality(With(t, what, v))
    PROVE  Total(f) = Cardinality({g \in t : games[g].setup[what] # NoRow})
<1>. DEFINE key == [g \in s |-> games[g].setup[what]]
<1>1. IsFiniteSet(t)
  BY FS_Subset
<1>2. \A v \in DOMAIN f : With(t, what, v) = {g \in t : key[g] = v}
  BY DEF With
<1>3. {g \in t : key[g] \in DOMAIN f} = {g \in t : games[g].setup[what] # NoRow}
  BY DEF Chosen
<1>. HIDE DEF key
<1>4. \A v \in DOMAIN f : f[v] = Cardinality({g \in t : key[g] = v})
  BY <1>2
<1>. QED
  BY <1>1, <1>3, <1>4, TotalByKey

LEMMA RanksAreChosen ==
    ASSUME ReportInv, NoRowAssumption, ReportsAssumption
    PROVE  \A g \in Extant : games[g].setup["rank"] # NoRow
<1>1. \A g \in Extant : games[g].setup \in UNION {Setups[n] : n \in Nicknames}
  BY RowFacts DEF GameEntries
<1>. QED
  BY <1>1 DEF ReportsAssumption

LEMMA PlayersAreToldTheSame ==
    ASSUME ReportInv, NoRowAssumption, ReportsAssumption
    PROVE  \A i \in Signed :
              LET detail == SessionDetail(i)
                  told == PlayerStats(detail.games).whole
              IN  told.losses = detail.losses /\ told.wins = detail.wins
<1>. SUFFICES ASSUME NEW i \in Signed
              PROVE  LET detail == SessionDetail(i)
                         told == PlayerStats(detail.games).whole
                     IN  told.losses = detail.losses /\ told.wins = detail.wins
  OBVIOUS
<1>. DEFINE detail == SessionDetail(i)
            theirs == detail.games
            mine == theirs \cap Decided
<1>1. /\ detail.wins = Cardinality(Won(theirs, "user"))
      /\ detail.losses = Cardinality(Won(theirs, "ai"))
  BY DEF SessionDetail
<1>2. theirs \in SUBSET Extant
  BY DEF SessionDetail
<1>3. /\ PlayerStats(theirs).whole.wins = Cardinality(Won(mine, "user"))
      /\ PlayerStats(theirs).whole.losses = Cardinality(mine) - Cardinality(Won(mine, "user"))
  BY DEF PlayerStats, Tally
<1>. HIDE DEF detail
<1>4. Won(theirs, "user") = Won(mine, "user")
  BY <1>2, GamesByState
<1>5. /\ Cardinality(Won(theirs, "user")) + Cardinality(Won(theirs, "ai")) = Cardinality(mine)
      /\ Cardinality(Won(theirs, "user")) \in Nat /\ Cardinality(Won(theirs, "ai")) \in Nat
      /\ Cardinality(mine) \in Nat
  BY <1>2, WonAndLost
<1>6. Cardinality(mine) - Cardinality(Won(theirs, "user")) = Cardinality(Won(theirs, "ai"))
  BY <1>5
<1>. QED
  BY <1>1, <1>3, <1>4, <1>6 DEF detail

LEMMA SplitsAddUp ==
    ASSUME ReportInv, NoRowAssumption, ReportsAssumption, NEW owned \in SUBSET Decided
    PROVE  LET told == PlayerStats(owned)
               Wins(what) == Total([v \in DOMAIN told.by[what] |-> told.by[what][v].wins])
               free == {g \in owned : games[g].setup.player = NoRow}
           IN  /\ Total(told.breakdown) = told.whole.total
               /\ Wins("rank") = told.whole.wins
               /\ Wins("player") = told.whole.wins - Cardinality(Won(free, "user"))
<1>. DEFINE told == PlayerStats(owned)
            wins(what) == [v \in DOMAIN told.by[what] |-> told.by[what][v].wins]
            free == {g \in owned : games[g].setup.player = NoRow}
            won == Won(owned, "user")
            group == [g \in owned |-> <<games[g].setup.rank, games[g].setup.handicap,
                                        games[g].winner>>]
<1>1. owned \cap Decided = owned /\ owned \in SUBSET Extant
  BY GamesByState
<1>2. IsFiniteSet(owned)
  BY GamesByState, FS_Subset
<1>3. won \in SUBSET owned /\ IsFiniteSet(won)
  BY <1>2, FS_Subset DEF Won
<1>4. /\ told.whole.total = Cardinality(owned) /\ told.whole.wins = Cardinality(won)
      /\ told.breakdown = Breakdown(owned)
  BY <1>1 DEF PlayerStats, Tally
<1>5. ASSUME NEW what \in {"rank", "board", "player"}
      PROVE  /\ DOMAIN told.by[what] = Chosen(owned, what)
             /\ \A v \in Chosen(owned, what) :
                   told.by[what][v].wins = Cardinality(Won(With(owned, what, v), "user"))
  BY <1>1 DEF PlayerStats, Tally
<1>6. ASSUME NEW what, NEW v
      PROVE  Won(With(owned, what, v), "user") = With(won, what, v)
  BY DEF Won, With
<1>7. ASSUME NEW what \in {"rank", "board", "player"}
      PROVE  Total(wins(what)) = Cardinality({g \in won : games[g].setup[what] # NoRow})
  <2>1. PICK f : f = wins(what)
    OBVIOUS
  <2>2. DOMAIN f = Chosen(owned, what) /\ \A v \in DOMAIN f : f[v] = Cardinality(With(won, what, v))
    BY <1>5, <1>6, <2>1
  <2>3. Total(f) = Cardinality({g \in won : games[g].setup[what] # NoRow})
    BY <1>2, <1>3, <2>2, ChoicesAddUp
  <2>. QED
    BY <2>1, <2>3
<1>8. "rank" \in {"rank", "board", "player"} /\ "player" \in {"rank", "board", "player"}
  OBVIOUS
<1>9. Total(wins("rank")) = Cardinality(won)
  <2>1. {g \in won : games[g].setup["rank"] # NoRow} = won
    BY <1>1, <1>3, RanksAreChosen
  <2>. QED
    BY <1>7, <1>8, <2>1
<1>10. Total(wins("player")) = Cardinality(won) - Cardinality(Won(free, "user"))
  <2>. DEFINE with == {g \in won : games[g].setup["player"] # NoRow}
              without == Won(free, "user")
  <2>1. with \cup without = won /\ with \cap without = {}
    BY DEF Won
  <2>2. IsFiniteSet(with) /\ IsFiniteSet(without)
    BY <1>3, <2>1, FS_Subset
  <2>3. Cardinality(won) = Cardinality(with) + Cardinality(without)
    BY <2>1, <2>2, DisjointSum
  <2>4. Cardinality(with) \in Nat /\ Cardinality(without) \in Nat
    BY <2>2, FS_CardinalityType
  <2>5. Total(wins("player")) = Cardinality(with)
    BY <1>7, <1>8
  <2>. QED
    BY <2>3, <2>4, <2>5
<1>11. Total(Breakdown(owned)) = Cardinality(owned)
  <2>1. /\ DOMAIN Breakdown(owned) = {group[g] : g \in owned}
        /\ \A v \in DOMAIN Breakdown(owned) :
              Breakdown(owned)[v] = Cardinality({g \in owned : group[g] = v})
    BY DEF Breakdown
  <2>. HIDE DEF group
  <2>2. {g \in owned : group[g] \in DOMAIN Breakdown(owned)} = owned
    BY <2>1
  <2>. QED
    BY <1>2, <2>1, <2>2, TotalByKey
<1>. HIDE DEF told
<1>. QED
  BY <1>4, <1>9, <1>10, <1>11 DEF told

(* Whatever is done, no page of the console, the statistics or the         *)
(* spectators contradicts another, and each row counts its own login.      *)
THEOREM FiguresNeverDiffer == ReportsSpec => []FiguresHold
<1>1. ReportInv /\ FigureInv => FiguresAgree
  <2>. SUFFICES ASSUME ReportInv, FigureInv
                PROVE  FiguresAgree
    OBVIOUS
  <2>. USE NoRowAssumption, ReportsAssumption
  <2>1. Total(PickCounts("rank")) = Summary.total
    <3>1. /\ DOMAIN PickCounts("rank") = Chosen(Extant, "rank")
          /\ \A v \in DOMAIN PickCounts("rank") :
                PickCounts("rank")[v] = Cardinality(With(Extant, "rank", v))
      BY DEF PickCounts
    <3>2. {g \in Extant : games[g].setup["rank"] # NoRow} = Extant
      BY RanksAreChosen
    <3>3. PICK f : f = PickCounts("rank")
      OBVIOUS
    <3>4. /\ DOMAIN f = Chosen(Extant, "rank") /\ IsFiniteSet(Extant)
          /\ \A v \in DOMAIN f : f[v] = Cardinality(With(Extant, "rank", v))
          /\ Extant \in SUBSET Extant
      BY <3>1, <3>3, GamesByState
    <3>5. Total(f) = Cardinality({g \in Extant : games[g].setup["rank"] # NoRow})
      BY <3>4, ChoicesAddUp
    <3>6. Summary.total = Cardinality(Extant)
      BY DEF Summary
    <3>. QED
      BY <3>2, <3>3, <3>5, <3>6
  <2>. QED
    BY <2>1, StatesAddUp, NicknamesAddUp, DaysAddUp, SessionsAgree, PlayersAreToldTheSame,
       SplitsAddUp DEF FiguresAgree
<1>. QED
  BY <1>1, FiguresInvariance, RowsCountTheirs, PTL DEF FiguresHold

LEMMA ReportsTypes ==
    ASSUME ReportInv, ReportsAssumption, NoRowAssumption
    PROVE  ReportsTypeOK
<1>1. ASSUME NEW g \in Extant
      PROVE  /\ games[g].session \in Signed \cup {NoRow} /\ games[g].name \in Nicknames
             /\ games[g].moves \in 0..MaxLength
             /\ games[g].winner = NoRow <=> games[g].status = "active"
  <2>1. games[g] \in GameEntries /\ MadeBy(g)
    BY RowFacts DEF ReportInv
  <2>. QED
    BY <2>1 DEF GameEntries, MadeBy, RowRight
<1>2. \A c \in Calls : call[c].does \in {"nothing", "enter", "create"}
  BY DEF ReportInv, ReportTypes, CallRows, NoCall, Enterings, Creations
<1>. QED
  BY <1>1, <1>2 DEF ReportsTypeOK, ReportInv, ReportTypes
=============================================================================
