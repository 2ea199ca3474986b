------------------------------ MODULE Sessions ------------------------------
(* Nickname sessions: the rows of `sessions` and `session_history`, the    *)
(* in-memory stamps of last_seen_at with the loop that writes them back,   *)
(* the purge of idle sessions, logout, the administrator's disconnect, and *)
(* the WebSockets that outlive the row they were authenticated with.       *)
(*                                                                         *)
(* A session is named by its token, which is never used twice; its id is   *)
(* one more than the largest in the table, so the id of the newest session *)
(* is handed out again after it is deleted.  Every reading of the clock    *)
(* takes an instant of its own.                                            *)
EXTENDS Integers, Sequences, FiniteSets, FiniteSetsExt

CONSTANTS
    Handlers,     \* requests being served at the same time
    Ttl,          \* session_ttl_sec
    Interval,     \* _FLUSH_INTERVAL_SEC
    NoOne,        \* no row, no entry, nobody
    MaxTokens,    \* bound: sessions ever created
    MaxNow,       \* bound: the clock
    MaxUpsets     \* bound: failed commits and requests, crashes and shutdowns

Tokens == 1..MaxTokens
Ids == 1..MaxTokens
Flushers == {"loop", "purge", "exit"}
Reasons == {"open", "logout", "idle_purge", "admin_disconnect"}
SessionRows == [token: Tokens, seen: 0..MaxNow]
Stamps == [seen: 1..MaxNow, flushed: -1..MaxNow]

ASSUME SessionsAssumption ==
    /\ {Ttl, Interval, MaxTokens, MaxNow, MaxUpsets} \subseteq Nat
    /\ NoOne \notin Flushers /\ NoOne \notin SessionRows /\ NoOne \notin Stamps

VARIABLES
    now,       \* the clock
    table,     \* sessions: who has the id, and last_seen_at
    history,   \* session_history, in the order of its ids
    stamps,    \* last_seen_cache._cache
    flush,     \* each run of flush_due
    purge,     \* the purge loop
    handler,   \* the request handlers
    writer,    \* the flush whose open transaction holds the write lock
    issued,    \* tokens that reached a browser
    reused,    \* history: tokens given an id that a request or the purge still used
    asked,     \* history: when a token was last stamped since the restart
    lost,      \* history: ids whose stamp counts as flushed and is not
    purged,    \* history: what the last purge deleted
    upsets
sessionVars == <<now, table, history, stamps, flush, purge, handler, writer, issued,
                 reused, asked, lost, purged, upsets>>

Live == {i \in Ids : table[i] # NoOne}
IdOf(t) == CHOOSE i \in Live : table[i].token = t
IsLive(t) == \E i \in Live : table[i].token = t
NewId == IF Live = {} THEN 1 ELSE Max(Live) + 1

NoFlush == [at |-> "idle", start |-> 0, due |-> {}, written |-> {}, alone |-> TRUE]
NoPurge == [at |-> "idle", cutoff |-> 0, ids |-> {}, alone |-> TRUE, asked |-> [t \in Tokens |-> 0]]
NoHandler == [at |-> "idle", id |-> 0, token |-> 0, found |-> FALSE]

SessionsInit ==
    /\ now = 0
    /\ table = [i \in Ids |-> NoOne]
    /\ history = <<>>
    /\ stamps = [i \in Ids |-> NoOne]
    /\ flush = [f \in Flushers |-> NoFlush]
    /\ asked = [t \in Tokens |-> 0]
    /\ purge = NoPurge
    /\ handler = [h \in Handlers |-> NoHandler]
    /\ writer = NoOne
    /\ issued = {}
    /\ reused = {}
    /\ lost = {}
    /\ purged = {}
    /\ upsets = 0

\* Groups of variables that actions leave alone together
rowVars == <<table, lost>>
flushVars == <<stamps, flush, writer>>
tokenVars == <<issued, reused>>
ghostVars == <<asked, purged>>

Tick == /\ now < MaxNow
        /\ now' = now + 1

(***************************************************************************)
(* The statements the handlers share.                                      *)
(***************************************************************************)

\* UPDATE session_history ... WHERE session_id IN ids AND ended_at IS NULL
CloseLatest(ids, reason) ==       \* mutant: of rows with the same id the last one
    history' = [k \in DOMAIN history |->
                   IF /\ history[k].id \in ids /\ history[k].reason = "open"
                      /\ \A m \in DOMAIN history : m > k => history[m].id # history[k].id
                   THEN [history[k] EXCEPT !.reason = reason] ELSE history[k]]
Close(ids, reason) ==
    history' = [k \in DOMAIN history |->
                   IF history[k].id \in ids /\ history[k].reason = "open"
                   THEN [history[k] EXCEPT !.reason = reason] ELSE history[k]]

\* DELETE FROM sessions
RemoveRows(ids) ==
    /\ table' = [i \in Ids |-> IF i \in ids THEN NoOne ELSE table[i]]
    /\ lost' = lost \ ids

\* orphan is a history variable: the session was gone before it was logged
Audit(i, t, orphan) ==
    history' = Append(history, [id |-> i, token |-> t, reason |-> "open", orphan |-> orphan])

Serving == flush["exit"].at = "idle"
CanCommit == writer = NoOne
Goto(h, at, i, t) ==
    handler' = [handler EXCEPT ![h] = [at |-> at, id |-> i, token |-> t, found |-> i \in Live]]
Done(h) == handler' = [handler EXCEPT ![h] = NoHandler]

\* Somebody still goes by the id of a session that is gone
StillNamed(i) ==
    \/ \E h \in Handlers : handler[h].id = i
    \/ i \in purge.ids

(***************************************************************************)
(* Requests.                                                               *)
(***************************************************************************)

\* create_session: the row is committed first, the audit row afterwards
NextToken == 1 + Max({0} \cup {history[k].token : k \in DOMAIN history}
                         \cup {table[i].token : i \in Live}
                         \cup {handler[h].token : h \in Handlers})
Created(t) == [token |-> t, seen |-> now]
NewRow(t) ==
    /\ NextToken = t
    /\ NewId \in Ids
    /\ table' = [table EXCEPT ![NewId] = Created(t)]
    /\ reused' = IF StillNamed(NewId) THEN reused \cup {t} ELSE reused

CreateSession(h, t) ==
    /\ Serving /\ CanCommit /\ handler[h].at = "idle"
    /\ NewRow(t)
    /\ Goto(h, "audit", NewId, t)
    /\ UNCHANGED <<now, history, flushVars, purge, issued, lost, ghostVars,
                   upsets>>

CreateAudit(h) ==
    /\ handler[h].at = "audit" /\ CanCommit
    /\ Audit(handler[h].id, handler[h].token, ~IsLive(handler[h].token))
    /\ issued' = issued \cup {handler[h].token}
    /\ Done(h)
    /\ UNCHANGED <<now, rowVars, flushVars, purge, reused, ghostVars, upsets>>

\* google_callback without a session: both rows in one commit
CreateLinked(t) ==
    /\ Serving /\ CanCommit
    /\ NewRow(t)
    /\ Audit(NewId, t, FALSE)
    /\ issued' = issued \cup {t}
    /\ UNCHANGED <<now, flushVars, purge, handler, lost, ghostVars, upsets>>

\* get_current_session: the SELECT, then the stamp
Resolve(h, t) ==
    /\ Serving /\ handler[h].at = "idle"
    /\ t \in issued /\ IsLive(t)
    /\ Goto(h, "stamp", IdOf(t), t)
    /\ UNCHANGED <<now, rowVars, history, flushVars, purge, tokenVars, ghostVars, upsets>>

Flushed(i) == IF stamps[i] = NoOne THEN -1 ELSE stamps[i].flushed

Stamp(h) ==
    /\ handler[h].at = "stamp"
    /\ Tick
    /\ stamps' = [stamps EXCEPT ![handler[h].id] =
                     [seen |-> now', flushed |-> Flushed(handler[h].id)]]
    /\ asked' = [asked EXCEPT ![handler[h].token] = now']
    /\ Done(h)
    /\ UNCHANGED <<rowVars, history, flush, writer, purge, tokenVars, purged,
                   upsets>>

\* end_session, which a browser may send twice
EndSelect(h, t) ==
    /\ Serving /\ handler[h].at = "idle"
    /\ t \in issued /\ IsLive(t)
    /\ Goto(h, "end", IdOf(t), t)
    /\ UNCHANGED <<now, rowVars, history, flushVars, purge, tokenVars, ghostVars, upsets>>

EndCommit(h) ==
    /\ handler[h].at = "end" /\ CanCommit
    /\ Close({handler[h].id}, "logout")
    /\ RemoveRows({handler[h].id})
    /\ Done(h)
    /\ UNCHANGED <<now, flushVars, purge, tokenVars, ghostVars, upsets>>

\* disconnect_session, by an id the administrator saw in a list
DisconnectSelect(h, k) ==
    /\ Serving /\ handler[h].at = "idle"
    /\ LET i == history[k].id
       IN  Goto(h, "disconnect", i, IF i \in Live THEN table[i].token ELSE 0)
    /\ UNCHANGED <<now, rowVars, history, flushVars, purge, tokenVars, ghostVars, upsets>>

DisconnectGone(h) ==
    /\ handler[h].at = "disconnect" /\ ~handler[h].found /\ CanCommit
    /\ Close({handler[h].id}, "admin_disconnect")
    /\ Done(h)
    /\ UNCHANGED <<now, rowVars, flushVars, purge, tokenVars, ghostVars, upsets>>

DisconnectCommit(h) ==
    /\ handler[h].at = "disconnect" /\ handler[h].found /\ CanCommit
    /\ Close({handler[h].id}, "admin_disconnect")
    /\ RemoveRows({handler[h].id})
    /\ Done(h)
    /\ UNCHANGED <<now, flushVars, purge, tokenVars, ghostVars, upsets>>

\* A commit fails, or the client goes away in the middle
HandlerFails(h) ==
    /\ handler[h].at # "idle" /\ upsets < MaxUpsets
    /\ upsets' = upsets + 1
    /\ Done(h)
    /\ UNCHANGED <<now, rowVars, history, flushVars, purge, tokenVars, ghostVars>>

(***************************************************************************)
(* flush_due, called by the loop, by the purge and at shutdown.            *)
(***************************************************************************)
Due(i, force, n) ==
    /\ stamps[i] # NoOne
    /\ stamps[i].seen > stamps[i].flushed
    /\ force \/ stamps[i].flushed < n - Interval

Undisturbed == lost = {} /\ \A f \in Flushers : flush[f].at # "write"

AfterFlush(f, alone) ==
    flush' = [flush EXCEPT ![f] = IF f = "loop" THEN NoFlush
                                  ELSE [NoFlush EXCEPT !.at = "done", !.alone = alone]]

FlushStart(f) ==
    /\ flush[f].at = "idle"
    /\ Tick
    /\ LET due == {<<i, stamps[i].seen>> : i \in {j \in Ids : Due(j, f # "loop", now')}}
       IN  IF due = {} THEN AfterFlush(f, Undisturbed)
           ELSE flush' = [flush EXCEPT ![f] = [at |-> "write", start |-> now', due |-> due,
                                               written |-> {}, alone |-> Undisturbed]]

MarkedNow(f) == now               \* mutant: stamps since the flush began count as written
Marked(f) == flush[f].start

\* One UPDATE and what is noted in the cache when it returns
FlushRow(f) ==
    /\ flush[f].at = "write" /\ writer \in {NoOne, f}
    /\ writer' = f
    /\ \E d \in flush[f].due :
         LET i == d[1]
             orphan == table[i] = NoOne
         IN  /\ flush' = [flush EXCEPT ![f].due = @ \ {d},
                                       ![f].written = IF orphan THEN @ ELSE @ \cup {d}]
             /\ stamps' = CASE stamps[i] = NoOne -> stamps
                            [] orphan /\ stamps[i].seen = d[2] -> [stamps EXCEPT ![i] = NoOne]
                            [] orphan /\ stamps[i].seen # d[2] -> stamps
                            [] OTHER -> [stamps EXCEPT ![i].flushed = Marked(f)]
    /\ UNCHANGED <<now, rowVars, history, purge, handler, tokenVars, ghostVars, upsets>>

FlushCommit(f) ==
    /\ flush[f].at = "write" /\ flush[f].due = {} /\ writer = f
    /\ writer' = NoOne
    /\ table' = [i \in Ids |-> IF \E d \in flush[f].written : d[1] = i
                               THEN [table[i] EXCEPT !.seen =
                                        (CHOOSE d \in flush[f].written : d[1] = i)[2]]
                               ELSE table[i]]
    /\ lost' = lost \ {d[1] : d \in flush[f].written}
    /\ AfterFlush(f, flush[f].alone)
    /\ UNCHANGED <<now, history, stamps, purge, handler, tokenVars, ghostVars,
                   upsets>>

\* The commit fails: the rows are rolled back, what the cache notes is not
FlushFails(f) ==
    /\ flush[f].at = "write" /\ writer = f /\ upsets < MaxUpsets
    /\ upsets' = upsets + 1
    /\ writer' = NoOne
    /\ lost' = lost \cup {d[1] : d \in flush[f].written}
    /\ IF f = "purge" THEN purge' = NoPurge /\ flush' = [flush EXCEPT ![f] = NoFlush]
                      ELSE AfterFlush(f, FALSE) /\ UNCHANGED purge
    /\ UNCHANGED <<now, table, history, stamps, handler, tokenVars, ghostVars>>

LoopFlush ==
    /\ FlushStart("loop")
    /\ UNCHANGED <<rowVars, history, stamps, writer, purge, handler, tokenVars, ghostVars,
                   upsets>>

(***************************************************************************)
(* purge_expired_sessions_once.                                            *)
(***************************************************************************)
PurgeUnflushed ==   \* mutant: the purge trusts the rows as they are
    /\ purge.at = "idle" /\ flush["purge"].at = "idle"
    /\ Tick
    /\ AfterFlush("purge", TRUE)
    /\ purge' = [NoPurge EXCEPT !.at = "flush", !.asked = asked]
    /\ UNCHANGED <<rowVars, history, stamps, writer, handler, tokenVars, ghostVars, upsets>>

PurgeFlush ==
    /\ purge.at = "idle"
    /\ FlushStart("purge")
    /\ purge' = [NoPurge EXCEPT !.at = "flush", !.asked = asked]
    /\ UNCHANGED <<rowVars, history, stamps, writer, handler, tokenVars, ghostVars, upsets>>

PurgeSelect ==
    /\ purge.at = "flush" /\ flush["purge"].at = "done"
    /\ Tick
    /\ LET ids == {i \in Live : table[i].seen < now' - Ttl}
       IN  purge' = IF ids = {} THEN NoPurge
                    ELSE [purge EXCEPT !.at = "delete", !.cutoff = now' - Ttl, !.ids = ids,
                                       !.alone = flush["purge"].alone]
    /\ flush' = [flush EXCEPT !["purge"] = NoFlush]
    /\ UNCHANGED <<rowVars, history, stamps, writer, handler, tokenVars, ghostVars, upsets>>

PurgeCommit ==
    /\ purge.at = "delete" /\ CanCommit
    /\ Close(purge.ids, "idle_purge")
    /\ RemoveRows(purge.ids)
    /\ purged' = {[asked |-> purge.asked[table[i].token], cutoff |-> purge.cutoff,
                                alone |-> purge.alone] : i \in purge.ids \cap Live}
    /\ purge' = NoPurge
    /\ UNCHANGED <<now, flushVars, handler, tokenVars, asked, upsets>>

PurgeFails ==
    /\ purge.at = "delete" /\ upsets < MaxUpsets
    /\ upsets' = upsets + 1
    /\ purge' = NoPurge
    /\ UNCHANGED <<now, rowVars, history, flushVars, handler, tokenVars, ghostVars>>

(***************************************************************************)
(* The process: time, shutdown and crash.                                  *)
(***************************************************************************)
TimePasses ==
    /\ Tick
    /\ UNCHANGED <<rowVars, history, flushVars, purge, handler, tokenVars, ghostVars,
                   upsets>>

\* lifespan: the requests are over, the cache is flushed, then the tasks end
BeginExit ==
    /\ upsets < MaxUpsets
    /\ \A h \in Handlers : handler[h].at = "idle"
    /\ FlushStart("exit")
    /\ UNCHANGED <<rowVars, history, stamps, writer, purge, handler, tokenVars, ghostVars,
                   upsets>>

\* What a flush that is cut off had marked, and what was never written, is
\* not promised any more
Restart(promised) ==
    /\ upsets < MaxUpsets
    /\ upsets' = upsets + 1
    /\ stamps' = [i \in Ids |-> NoOne]
    /\ flush' = [f \in Flushers |-> NoFlush]
    /\ writer' = NoOne
    /\ asked' = promised
    /\ purge' = NoPurge
    /\ handler' = [h \in Handlers |-> NoHandler]
    /\ lost' = {}
    /\ UNCHANGED <<now, table, history, tokenVars, purged>>

Exit == /\ flush["exit"].at = "done"
        /\ Restart(IF flush["exit"].alone THEN asked ELSE [t \in Tokens |-> 0])
Crash == Restart([t \in Tokens |-> 0])

SessionsNext ==
    \/ \E h \in Handlers :
        \/ \E t \in Tokens : CreateSession(h, t) \/ Resolve(h, t) \/ EndSelect(h, t)
        \/ \E k \in DOMAIN history : DisconnectSelect(h, k)
        \/ CreateAudit(h) \/ Stamp(h) \/ EndCommit(h)
        \/ DisconnectGone(h) \/ DisconnectCommit(h) \/ HandlerFails(h)
    \/ \E t \in Tokens : CreateLinked(t)
    \/ \E f \in Flushers : FlushRow(f) \/ FlushCommit(f) \/ FlushFails(f)
    \/ LoopFlush \/ PurgeFlush \/ PurgeSelect \/ PurgeCommit \/ PurgeFails
    \/ TimePasses \/ BeginExit \/ Exit \/ Crash

SessionsSpec == SessionsInit /\ [][SessionsNext]_sessionVars

-----------------------------------------------------------------------------
SessionsTypeOK ==
    /\ now \in 0..MaxNow
    /\ table \in [Ids -> SessionRows \cup {NoOne}]
    /\ \A k \in DOMAIN history : history[k] \in [id: Ids, token: Tokens, reason: Reasons, orphan: BOOLEAN]
    /\ \A i \in Ids : stamps[i] \in Stamps \cup {NoOne}
    /\ writer \in Flushers \cup {NoOne}

(* A stamp is never lost: until the row carries it, the cache holds it and *)
(* will write it, or a flush is writing it.  Flushes overlap, write older  *)
(* values over newer ones and give an id's entry to its next owner.  Only  *)
(* a session whose id a request of the previous owner still used is none   *)
(* of it, and one whose flush failed.                                      *)
StampsKept ==
    \A i \in {j \in Live \ lost : table[j].token \notin reused} :
        LET seen == asked[table[i].token]
        IN  table[i].seen < seen =>
              /\ stamps[i] # NoOne
              /\ stamps[i].seen = seen
              /\ \/ stamps[i].flushed < seen
                 \/ \E f \in Flushers : <<i, seen>> \in flush[f].written

(* The purge deletes only sessions without a request since its cutoff, for *)
(* all requests from before it began, if no other flush was under way and  *)
(* none had failed when it flushed the cache.                              *)
PurgedWereIdle == \A p \in purged : p.alone => p.asked < p.cutoff

(* The log of logins shows those as signed in who are: a login not ended   *)
(* there has its session still, however it might have ended, unless the    *)
(* session was gone before the second commit of its sign-in logged it; and *)
(* whoever holds a live session's token stands there not ended, once,      *)
(* unless the session was given an id that somebody still went by.         *)
OpenLogins == {k \in DOMAIN history : history[k].reason = "open"}    \* is_active
LogTellsWhoIsIn ==
    /\ \A k \in OpenLogins : history[k].orphan \/ IsLive(history[k].token)
    /\ \A i \in Live :
          LET t == table[i].token
          IN  t \in issued \ reused =>
                 \E k \in OpenLogins : {m \in DOMAIN history : history[m].token = t} = {k}

(* An audit row that says a session ended is right: nobody closes the row  *)
(* of a session that lives on, nor of the next one with its id, unless it  *)
(* was given that id while a request or the purge still went by it.        *)
ClosedAreGone ==
    \A k \in DOMAIN history :
        IsLive(history[k].token) /\ history[k].token \notin reused => history[k].reason = "open"

(* Sessions end for a reason: the purge finds them idle, and no audit row  *)
(* tells the end of one that lives on.                                     *)
EndedRightly == PurgedWereIdle /\ ClosedAreGone

=============================================================================
