---------------------------- MODULE SearchConsole ----------------------------
(* Search queries in one table: the nightly job that merges the last days  *)
(* of Google's figures row by row, and the administrator's upload, which   *)
(* replaces Naver's snapshot as a whole.  Each works in one transaction.   *)
EXTENDS Naturals, FiniteSets, Sequences

CONSTANTS
    Queries,
    Uploads,      \* uploads being served at the same time
    NoWriter,
    Delay,        \* days before Google has figures
    Reach,        \* days the job fetches
    MaxDate,      \* bound: the calendar
    MaxFigure,    \* bound: versions of a figure at Google
    MaxImports    \* bound: uploads ever made

ASSUME ConsoleAssumption ==
    /\ Reach \in Nat \ {0} /\ Delay \in Nat
    /\ IsFiniteSet(Queries) /\ {MaxDate, MaxFigure, MaxImports} \subseteq Nat
    /\ NoWriter \notin Uploads /\ "job" \notin Uploads \cup {NoWriter}

VARIABLES
    date,
    google,    \* what Google says of a query on a date; figures are revised
    rows,      \* search_queries
    job,       \* the nightly job
    upload,    \* POST /search-queries/import
    writer,    \* whose transaction holds the write lock, and its statements
    imports,
    fetched    \* history: the figure the last complete job got for each key
consoleVars == <<date, google, rows, job, upload, writer, imports, fetched>>

Dates == 0..MaxDate
GoogleKeys == Queries \X Dates
GoogleRows == [source: {"google"}, key: GoogleKeys, clicks: 1..MaxFigure]
NaverRows == [source: {"naver"}, query: Queries, line: 1..2, import: 1..MaxImports, date: Dates]

Resting == [at |-> "idle", todo |-> <<>>, sheet |-> {}]

ConsoleInit ==
    /\ date = 0 /\ imports = 0
    /\ google = [k \in GoogleKeys |-> 0]
    /\ rows = {}
    /\ job = Resting
    /\ upload = [u \in Uploads |-> Resting]
    /\ writer = [who |-> NoWriter, rows |-> {}]
    /\ fetched = [k \in GoogleKeys |-> 0]

\* The table as the holder of the lock sees it
View(who) == IF writer.who = who THEN writer.rows ELSE rows
CanWrite(who) == writer.who \in {NoWriter, who}
Unlocked(who) == writer' = IF writer.who = who THEN [who |-> NoWriter, rows |-> {}] ELSE writer

(***************************************************************************)
(* scripts/sync_gsc.py: fetch, then sync_gsc                               *)
(***************************************************************************)
SyncWindow == {d \in Dates : d + Delay <= date /\ date <= d + Delay + Reach}

\* The response lists a key once; a key without clicks is not listed
Listed == {k \in GoogleKeys : k[2] \in SyncWindow /\ google[k] # 0}
Fetch ==
    /\ job.at = "idle"
    /\ Listed # {}
    /\ \E order \in [1..Cardinality(Listed) -> Listed] :
          /\ \A k \in Listed : \E n \in DOMAIN order : order[n] = k
          /\ job' = [job EXCEPT !.at = "merge",
                                !.todo = [n \in DOMAIN order |->
                                             [source |-> "google", key |-> order[n],
                                              clicks |-> google[order[n]]]]]
    /\ UNCHANGED <<date, google, rows, upload, writer, imports, fetched>>

\* A row is looked up and updated, or added
Added(table, r) == table \cup {r}                        \* mutant: never looked up
Merged(table, r) == {x \in table : x.source = "naver" \/ x.key # r.key} \cup {r}
MergeRow ==
    /\ job.at = "merge" /\ job.todo # <<>>
    /\ CanWrite("job")
    /\ writer' = [who |-> "job", rows |-> Merged(View("job"), Head(job.todo))]
    /\ job' = [job EXCEPT !.todo = Tail(@), !.sheet = @ \cup {Head(job.todo)}]
    /\ UNCHANGED <<date, google, rows, upload, imports, fetched>>

SyncCommit ==
    /\ job.at = "merge" /\ job.todo = <<>> /\ writer.who = "job"
    /\ rows' = View("job")
    /\ fetched' = [k \in GoogleKeys |-> IF \E r \in job.sheet : r.key = k
                                  THEN (CHOOSE r \in job.sheet : r.key = k).clicks ELSE fetched[k]]
    /\ job' = Resting
    /\ Unlocked("job")
    /\ UNCHANGED <<date, google, upload, imports>>

SyncStops ==
    /\ job.at # "idle"
    /\ job' = Resting
    /\ Unlocked("job")
    /\ UNCHANGED <<date, google, rows, upload, imports, fetched>>

(***************************************************************************)
(* import_naver: the sheet may name a query twice, or nothing at all       *)
(***************************************************************************)
Upload(u, sheet) ==
    /\ upload[u].at = "idle" /\ imports < MaxImports
    /\ imports' = imports + 1
    /\ upload' = [upload EXCEPT ![u] =
          [at |-> "delete", todo |-> <<>>,
           sheet |-> {[source |-> "naver", query |-> x[1], line |-> x[2], import |-> imports',
                       date |-> date] : x \in sheet}]]
    /\ UNCHANGED <<date, google, rows, job, writer, fetched>>

Others(table) == {r \in table : r.source # "naver"}
DeleteSnapshot(u) ==
    /\ upload[u].at = "delete" /\ CanWrite(u)
    /\ writer' = [who |-> u, rows |-> Others(View(u))]
    /\ upload' = [upload EXCEPT ![u].at = "commit"]
    /\ UNCHANGED <<date, google, rows, job, imports, fetched>>

ImportCommit(u) ==
    /\ upload[u].at = "commit"
    /\ rows' = View(u) \cup upload[u].sheet
    /\ upload' = [upload EXCEPT ![u] = Resting]
    /\ Unlocked(u)
    /\ UNCHANGED <<date, google, job, imports, fetched>>

UploadStops(u) ==
    /\ upload[u].at # "idle"
    /\ upload' = [upload EXCEPT ![u] = Resting]
    /\ Unlocked(u)
    /\ UNCHANGED <<date, google, rows, job, imports, fetched>>

NextDate == /\ date < MaxDate
            /\ date' = date + 1
            /\ UNCHANGED <<google, rows, job, upload, writer, imports, fetched>>

\* Google counts, and revises what it counted
Revise(k) ==
    /\ k[2] <= date /\ google[k] < MaxFigure
    /\ google' = [google EXCEPT ![k] = @ + 1]
    /\ UNCHANGED <<date, rows, job, upload, writer, imports, fetched>>

ConsoleNext ==
    \/ NextDate \/ \E k \in GoogleKeys : Revise(k)
    \/ Fetch \/ MergeRow \/ SyncCommit \/ SyncStops
    \/ \E u \in Uploads :
        \/ \E sheet \in SUBSET (Queries \X (1..2)) : Upload(u, sheet)
        \/ DeleteSnapshot(u) \/ ImportCommit(u) \/ UploadStops(u)

ConsoleSpec == ConsoleInit /\ [][ConsoleNext]_consoleVars

\* list_search_queries: newest days, most clicks first
ListQueries(source, days) ==
    {r \in rows : /\ source \in {"all", r.source}
                  /\ (IF r.source = "google" THEN r.key[2] ELSE r.date) + days >= date}

-----------------------------------------------------------------------------
ConsoleTypeOK ==
    /\ date \in Dates /\ google \in [GoogleKeys -> 0..MaxFigure]
    /\ rows \subseteq GoogleRows \cup NaverRows
    /\ writer.who \in Uploads \cup {"job", NoWriter}
    /\ job.at \in {"idle", "merge"} /\ \A u \in Uploads : upload[u].at \in {"idle", "delete", "commit"}

(* What the console lists for Naver is one uploaded sheet: never the rows  *)
(* of two uploads, whatever failed, waited or overlapped.                  *)
NaverIsOneSnapshot ==
    \A r, s \in ListQueries("naver", MaxDate) : r.import = s.import

(* Google's rows are those of the job that last fetched their day: one row *)
(* per query and day, never an older figure, also beside uploads.          *)
GoogleIsLatest ==
    \A k \in GoogleKeys :
        {r.clicks : r \in {x \in rows : x.source = "google" /\ x.key = k}} =
            IF fetched[k] = 0 THEN {} ELSE {fetched[k]}

(* The list holds, of each source, what was last fetched or uploaded.      *)
ListedIsFetched == NaverIsOneSnapshot /\ GoogleIsLatest
=============================================================================
