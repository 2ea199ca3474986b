---------------------------- MODULE RateLimiter ----------------------------
(* rate_limit.py: a sliding window of accepted hits per key.  Nothing is   *)
(* awaited inside the lock, so a check is one step; the clock is           *)
(* monotonic and may stand still between two checks.                       *)
EXTENDS Integers, Sequences

CONSTANTS
    LimitKeys, \* "<endpoint>:<client>"
    MaxHits,   \* max_hits and window_sec, the same at every call for a key
    Window,
    MaxClock   \* bound: the clock

ASSUME LimiterAssumption == MaxHits \in Nat \ {0} /\ Window \in Nat /\ MaxClock \in Nat

VARIABLES
    clock,
    bucket,    \* _buckets[key].hits, oldest first
    granted,   \* history: every accepted check, oldest first
    verdict    \* history: the last answer, and whether the window was full
limitVars == <<clock, bucket, granted, verdict>>

LimiterInit ==
    /\ clock = 0
    /\ bucket = [k \in LimitKeys |-> <<>>]
    /\ granted = [k \in LimitKeys |-> <<>>]
    /\ verdict = [ok |-> TRUE, full |-> FALSE]

DroppedAtOnce(t) == t <= clock - Window   \* mutant: a hit on the edge is forgotten
Stale(t) == t < clock - Window

HitAt == clock

\* The last MaxHits accepted checks all lie in the window that ends now
Full(times) ==
    /\ Len(times) >= MaxHits
    /\ times[Len(times) - MaxHits + 1] >= clock - Window

\* popleft while the oldest hit is stale; then count
Check(k) ==
    \E n \in 0..Len(bucket[k]) :
        /\ \A m \in 1..n : Stale(bucket[k][m])
        /\ n < Len(bucket[k]) => ~Stale(bucket[k][n + 1])
        /\ LET hits == SubSeq(bucket[k], n + 1, Len(bucket[k]))
               ok == Len(hits) < MaxHits
           IN  /\ bucket' = [bucket EXCEPT ![k] = IF ok THEN Append(hits, HitAt) ELSE hits]
               /\ granted' = IF ok THEN [granted EXCEPT ![k] = Append(@, clock)] ELSE granted
               /\ verdict' = [ok |-> ok, full |-> Full(granted[k])]
        /\ UNCHANGED clock

TimeRuns ==
    /\ clock < MaxClock
    /\ clock' = clock + 1
    /\ UNCHANGED <<bucket, granted, verdict>>

LimiterNext == TimeRuns \/ \E k \in LimitKeys : Check(k)
LimiterSpec == LimiterInit /\ [][LimiterNext]_limitVars

-----------------------------------------------------------------------------
LimiterTypeOK ==
    /\ clock \in 0..MaxClock
    /\ bucket \in [LimitKeys -> Seq(0..MaxClock)]
    /\ granted \in [LimitKeys -> Seq(0..MaxClock)]
    /\ verdict \in [ok: BOOLEAN, full: BOOLEAN]

(* The limit is a sliding window and no fixed one: any MaxHits + 1 checks  *)
(* that were accepted one after the other span more than Window seconds,   *)
(* although the bucket has long dropped the first of them.                 *)
SlidingWindow ==
    \A k \in LimitKeys : \A n \in 1..Len(granted[k]) :
        n + MaxHits <= Len(granted[k]) => granted[k][n + MaxHits] > granted[k][n] + Window

(* No check is refused for which the window that ends at it had room.      *)
RefusedWhenFull == ~verdict.ok => verdict.full
=============================================================================
