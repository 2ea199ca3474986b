------------------------------- MODULE Visits -------------------------------
(* Anonymous visit statistics: the hit beacon, the daily salt that every   *)
(* worker caches and one of them creates, the pruning job, and the numbers *)
(* the console reads.  Day d is the instants Morning(d) and Morning(d)+1.  *)
EXTENDS Naturals, FiniteSets, Sequences

CONSTANTS
    Visitors,      \* client addresses
    Workers,       \* processes, each with its own cache
    Beacons,       \* POST /hit requests being served at the same time
    NoSalt,
    Retention,     \* DEFAULT_RETENTION_DAYS
    MaxInstant,    \* bound: the last instant
    MaxDraws       \* bound: salts ever drawn; a draw is never repeated


Instants == 0..MaxInstant
DayOf(t) == t \div 2
Morning(d) == 2 * d
Days == 0..DayOf(MaxInstant)
Salts == 1..MaxDraws

ASSUME VisitsAssumption ==
    Retention \in Nat \ {0} /\ {MaxInstant, MaxDraws} \subseteq Nat /\ NoSalt \notin Salts

VARIABLES
    instant,
    saltOf,    \* analytics_salts
    hits,      \* visit_hits: visitor and salt make the hash; read is history
    cached,    \* hashing._salts of each worker
    beacon,    \* the handlers
    draws,     \* salts drawn so far
    beaten     \* history: a handler found its salt's row taken and then gone
visitVars == <<instant, saltOf, hits, cached, beacon, draws, beaten>>

NoBeacon == [at |-> "idle", worker |-> NoSalt, visitor |-> NoSalt, day |-> 0, salt |-> NoSalt]

VisitsInit ==
    /\ instant = 0
    /\ saltOf = [d \in Days |-> NoSalt]
    /\ hits = {}
    /\ cached = [w \in Workers |-> [d \in Days |-> NoSalt]]
    /\ beacon = [b \in Beacons |-> NoBeacon]
    /\ draws = 0
    /\ beaten = FALSE

Move(b, at, salt) == beacon' = [beacon EXCEPT ![b].at = at, ![b].salt = salt]

(***************************************************************************)
(* POST /api/analytics/hit of anybody but a bot, within its rate limit     *)
(***************************************************************************)

\* The day is read once; daily_salt asks the worker's cache first
Hit(b, w, v) ==
    /\ beacon[b].at = "idle"
    /\ beacon' = [beacon EXCEPT ![b] =
          [at |-> IF cached[w][DayOf(instant)] = NoSalt THEN "select" ELSE "record",
           worker |-> w, visitor |-> v, day |-> DayOf(instant),
           salt |-> cached[w][DayOf(instant)]]]
    /\ UNCHANGED <<instant, saltOf, hits, cached, draws, beaten>>

Remember(b, salt) == cached' = [cached EXCEPT ![beacon[b].worker][beacon[b].day] = salt]

SelectSalt(b) ==
    LET row == saltOf[beacon[b].day]
    IN  /\ beacon[b].at = "select"
        /\ IF row = NoSalt
           THEN /\ draws < MaxDraws
                /\ draws' = draws + 1
                /\ Move(b, "insert", draws')
                /\ UNCHANGED cached
           ELSE /\ Move(b, "record", row)
                /\ Remember(b, row)
                /\ UNCHANGED draws
        /\ UNCHANGED <<instant, saltOf, hits, beaten>>

\* The row is taken: roll back and select it
KeepsOwn(b) == Move(b, "record", beacon[b].salt) /\ Remember(b, beacon[b].salt)   \* mutant
Yield(b) == Move(b, "reselect", NoSalt) /\ UNCHANGED cached

InsertSalt(b) ==
    /\ beacon[b].at = "insert"
    /\ IF saltOf[beacon[b].day] = NoSalt
       THEN /\ saltOf' = [saltOf EXCEPT ![beacon[b].day] = beacon[b].salt]
            /\ Move(b, "record", beacon[b].salt)
            /\ Remember(b, beacon[b].salt)
       ELSE /\ Yield(b)
            /\ UNCHANGED saltOf
    /\ UNCHANGED <<instant, hits, draws, beaten>>

Reselect(b) ==
    LET row == saltOf[beacon[b].day]
    IN  /\ beacon[b].at = "reselect"
        /\ beaten' = (beaten \/ row = NoSalt)
        /\ IF row = NoSalt
           THEN beacon' = [beacon EXCEPT ![b] = NoBeacon] /\ UNCHANGED cached
           ELSE Move(b, "record", row) /\ Remember(b, row)
        /\ UNCHANGED <<instant, saltOf, hits, draws>>

\* created_at is the database's clock at the INSERT
Record(b) ==
    /\ beacon[b].at = "record"
    /\ hits' = hits \cup {[visitor |-> beacon[b].visitor, salt |-> beacon[b].salt,
                           created |-> instant, read |-> beacon[b].day]}
    /\ beacon' = [beacon EXCEPT ![b] = NoBeacon]
    /\ UNCHANGED <<instant, saltOf, cached, draws, beaten>>

\* A statement or commit fails: the row drawn is gone, the cache stays
BeaconFails(b) ==
    /\ beacon[b].at # "idle"
    /\ beacon' = [beacon EXCEPT ![b] = NoBeacon]
    /\ UNCHANGED <<instant, saltOf, hits, cached, draws, beaten>>

(***************************************************************************)
(* Pruning, restarts and time                                              *)
(***************************************************************************)

\* prune_old_visits, one transaction: rows by instant, salts by day
Cutoff == instant - Morning(Retention)
OldSalts == {d \in Days : d < DayOf(Cutoff)}

Prune ==
    /\ instant >= Morning(Retention)
    /\ hits' = {h \in hits : h.created >= Cutoff}
    /\ saltOf' = [d \in Days |-> IF d \in OldSalts THEN NoSalt ELSE saltOf[d]]
    /\ UNCHANGED <<instant, cached, beacon, draws, beaten>>

RestartWorker(w) ==
    /\ cached' = [cached EXCEPT ![w] = [d \in Days |-> NoSalt]]
    /\ beacon' = [b \in Beacons |-> IF beacon[b].worker = w THEN NoBeacon ELSE beacon[b]]
    /\ UNCHANGED <<instant, saltOf, hits, draws, beaten>>

\* A request may cross midnight; it does not last for days
TimeGoesOn ==
    /\ instant < MaxInstant
    /\ \A b \in Beacons : beacon[b].at # "idle" => DayOf(instant + 1) <= beacon[b].day + 1
    /\ instant' = instant + 1
    /\ UNCHANGED <<saltOf, hits, cached, beacon, draws, beaten>>

VisitsNext ==
    \/ \E b \in Beacons, w \in Workers, v \in Visitors : Hit(b, w, v)
    \/ \E b \in Beacons :
        SelectSalt(b) \/ InsertSalt(b) \/ Reselect(b) \/ Record(b) \/ BeaconFails(b)
    \/ Prune \/ TimeGoesOn
    \/ \E w \in Workers : RestartWorker(w)

VisitsSpec == VisitsInit /\ [][VisitsNext]_visitVars

(***************************************************************************)
(* GET /api/admin/analytics: distinct hashes over a range and per day      *)
(***************************************************************************)
Hash(h) == <<h.visitor, h.salt>>
Uniques(since) == Cardinality({Hash(h) : h \in {x \in hits : x.created >= since}})
DailyUniques(d) == Cardinality({Hash(h) : h \in {x \in hits : DayOf(x.created) = d}})

-----------------------------------------------------------------------------
VisitsTypeOK ==
    /\ instant \in Instants /\ draws \in 0..MaxDraws
    /\ saltOf \in [Days -> Salts \cup {NoSalt}]
    /\ cached \in [Workers -> [Days -> Salts \cup {NoSalt}]]
    /\ hits \subseteq [visitor: Visitors, salt: Salts, created: Instants, read: Days]

(* The console counts a visitor once for every day it came, whichever      *)
(* workers served it, however often they restarted or raced for the salt,  *)
(* and never recognises it on another day.                                 *)
Visitings(some) == Cardinality({<<h.visitor, h.read>> : h \in some})
UniquesAreVisitors ==
    /\ \A t \in Instants : Uniques(t) = Visitings({h \in hits : h.created >= t})
    /\ \A d \in Days : DailyUniques(d) = Visitings({h \in hits : DayOf(h.created) = d})

(* Pruning takes a day's salt only with the last of that day's visits:     *)
(* hashes that are still counted stay those of the salt on record, so a    *)
(* restarted worker goes on with it, and no handler finds its salt gone.   *)
SaltOutlivesVisits ==
    /\ \A h \in hits : h.read = DayOf(h.created) => saltOf[h.read] = h.salt
    /\ ~beaten

(* The count of daily_salt's hashes is a count of visitors: it is right,   *)
(* and the salts it rests on stay as long as the visits they hashed.       *)
VisitorsCountOnce == UniquesAreVisitors /\ SaltOutlivesVisits
=============================================================================
