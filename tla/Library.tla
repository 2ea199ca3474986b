------------------------------ MODULE Library ------------------------------
(* The library of professional games: its rows and their unique content    *)
(* hash, the four programs that fill or rewrite it (the administrator's    *)
(* upload, the weekly ingest, the seed, the repair of misread names),      *)
(* deletion, and the page of a game, which counts its views.               *)
(*                                                                         *)
(* An SGF file is the game it records and whether it names the round,      *)
(* which the content hash and the stored SGF leave out: two files that     *)
(* differ in nothing else are two copies of one game.                      *)
EXTENDS Naturals, FiniteSets, FiniteSetsExt, Functions

CONSTANTS
    Texts,      \* games
    Twice,      \* those that are found with and without their round
    Absent,     \* no row, nobody
    Cap,        \* MAX_NEW_PER_RUN
    MaxRows,    \* bound: the largest id
    MaxRuns,    \* bound: runs of importers and views
    MaxIndex,   \* bound: versions of the index page
    MaxNew      \* bound: files that are not on the site yet

Importers == {"upload", "seed", "ingest", "repair"}
Files == (Texts \X {TRUE}) \cup (Twice \X {FALSE})
HasRound(f) == f[2]

\* content_hash: a name read in the wrong encoding makes it another one
Hashes == Texts \X {"read", "misread"}
HashOf(f) == <<f[1], "read">>
ProIds == 1..MaxRows
Rows == [hash: Hashes, round: BOOLEAN, views: 0..MaxRuns]

ASSUME LibraryAssumption ==
    /\ {Cap, MaxIndex} \subseteq Nat \ {0} /\ {MaxRows, MaxRuns} \subseteq Nat
    /\ Twice \subseteq Texts
    /\ Absent \notin Importers /\ Absent \notin ProIds /\ Absent \notin Rows

VARIABLES
    library,   \* pro_games
    imp,       \* the importers
    holder,    \* the importer whose open transaction holds the write lock
    site,      \* the files that the index page leads to, and its version
    saved,     \* ingest-cwi.cache: the version it has seen
    page,      \* the request for one game's page
    runs,
    viewed,    \* history: views counted for each row
    listed,    \* history: what each version of the index page led to
    everIn,    \* history: hashes that have been in the library
    missed,    \* history: files the ingest could not reach or parse
    refused    \* history: importers a constraint stopped all the same
libVars == <<library, imp, holder, site, saved, page, runs, viewed, listed, everIn,
             missed, refused>>

Filed == {i \in ProIds : library[i] # Absent}
First(files) == CHOOSE f \in files : TRUE     \* in the order of names and links
InTable(hash) == \E i \in Filed : library[i].hash = hash

\* todo: files still to read; rest: the next directory; adds and edits: rows
\* for the transaction; dirty: some of them are in the session, unflushed;
\* raced (history): somebody else has committed since the run began
NotRunning == [at |-> "idle", todo |-> {}, rest |-> {}, seen |-> {}, adds |-> {}, edits |-> {},
            dirty |-> FALSE, version |-> 0, raced |-> FALSE]

LibraryInit ==
    /\ \E t \in Texts \cup {Absent} :
          library = [i \in ProIds |-> IF i = 1 /\ t # Absent
                                 THEN [hash |-> <<t, "misread">>, round |-> TRUE, views |-> 0]
                                 ELSE Absent]
    /\ imp = [p \in Importers |-> NotRunning]
    /\ holder = Absent
    /\ \E files \in {x \in SUBSET Files : Cardinality(Files \ x) <= MaxNew} :
          /\ site = [files |-> files, version |-> 1]
          /\ listed = [v \in 1..MaxIndex |-> IF v = 1 THEN files ELSE {}]
    /\ saved = 0
    /\ page = Absent
    /\ runs = 0
    /\ viewed = [i \in ProIds |-> 0]
    /\ everIn = {} /\ missed = {} /\ refused = {}

siteVars == <<site, saved, listed, missed>>
viewVars == <<page, viewed>>
tableVars == <<library, everIn, viewed>>

MayWrite(p) == holder \in {Absent, p}
Raced == [q \in Importers |-> IF imp[q].at = "idle" THEN imp[q] ELSE [imp[q] EXCEPT !.raced = TRUE]]
Set(p, run) == imp' = [imp EXCEPT ![p] = run]
FreeLock(p) == holder' = IF holder = p THEN Absent ELSE holder

\* The hash is unique; or an UPDATE that finds no row
Conflict(p) ==
    \/ \E a \in imp[p].adds : InTable(a.hash)
    \/ \E a, b \in imp[p].adds : a # b /\ a.hash = b.hash
    \/ \E e \in imp[p].edits :
          library[e.id] = Absent \/ (library[e.id].hash # e.hash /\ InTable(e.hash))

Refuse(p) ==
    /\ refused' = IF imp[p].raced THEN refused ELSE refused \cup {p}
    /\ Set(p, NotRunning)
    /\ FreeLock(p)

Launch(p, run) ==
    /\ imp[p].at = "idle" /\ runs < MaxRuns
    /\ runs' = runs + 1
    /\ Set(p, run)

(***************************************************************************)
(* Reading files                                                           *)
(***************************************************************************)

\* upload_pro_games, and seed with its two directories, on the files that
\* can be parsed; the others are counted and skipped
Start(p, files) ==
    /\ p \in {"upload", "seed"}
    /\ LET first == {f \in files : p = "upload" \/ HasRound(f)}
       IN  Launch(p, [NotRunning EXCEPT !.at = "read", !.todo = first, !.rest = files \ first])
    /\ UNCHANGED <<tableVars, holder, siteVars, page, refused>>

\* Rows are added to the session at once, except by the ingest
InSession(p) == TRUE        \* mutant: the ingest as well
AddsAtOnce(p) == p # "ingest"

\* seed and ingest look here before they ask the database; the upload's
\* SELECT finds its own flushed rows anyway
NotRemembered(p, f) == FALSE   \* mutant: no set of this run's hashes
Seen(p, f) == HashOf(f) \in imp[p].seen

Backfills(p, f) ==
    {[id |-> i, hash |-> HashOf(f), round |-> TRUE, views |-> library[i].views] :
        i \in {j \in Filed : /\ p = "seed" /\ HasRound(f)
                            /\ library[j].hash = HashOf(f) /\ ~library[j].round}}

\* The file's hash is new, known from this run, or in the table.  The SELECT
\* flushes the session first.
Read(p) ==
    LET run == imp[p]
        f == First(run.todo)
        hash == HashOf(f)
        next == [run EXCEPT !.todo = @ \ {f}, !.seen = @ \cup {hash}]
        known == InTable(hash) \/ \E a \in run.adds : a.hash = hash /\ AddsAtOnce(p)
    IN  /\ run.at = "read" /\ run.todo # {}
        /\ p = "ingest" => Cardinality(run.adds) < Cap
        /\ IF Seen(p, f) /\ p # "upload"
           THEN Set(p, next) /\ UNCHANGED <<holder, refused>>
           ELSE /\ run.dirty => MayWrite(p)
                /\ IF run.dirty /\ Conflict(p) THEN Refuse(p)
                   ELSE /\ holder' = IF run.dirty THEN p ELSE holder
                        /\ Set(p, IF known
                                  THEN [next EXCEPT !.edits = @ \cup Backfills(p, f),
                                                    !.dirty = Backfills(p, f) # {}]
                                  ELSE [next EXCEPT !.adds = @ \cup {[hash |-> hash,
                                                                      round |-> HasRound(f)]},
                                                    !.dirty = AddsAtOnce(p)])
                        /\ UNCHANGED refused
        /\ UNCHANGED <<tableVars, siteVars, page, runs>>

\* The file, or a directory on the way to it, cannot be fetched or parsed,
\* or lies too deep
Unreadable ==
    LET f == First(imp["ingest"].todo)
    IN  /\ imp["ingest"].at = "read" /\ imp["ingest"].todo # {}
        /\ Cardinality(imp["ingest"].adds) < Cap
        /\ Set("ingest", [imp["ingest"] EXCEPT !.todo = @ \ {f}])
        /\ missed' = missed \cup {f}
        /\ UNCHANGED <<tableVars, holder, site, saved, listed, page, runs, refused>>

\* main_async: the index page is not the one whose hash is saved
FetchIndex ==
    /\ site.version # saved
    /\ Launch("ingest", [NotRunning EXCEPT !.at = "crawl", !.version = site.version])
    /\ UNCHANGED <<tableVars, holder, siteVars, page, refused>>

\* crawl_sgf_links, which fetches the index page a second time
Crawl ==
    /\ imp["ingest"].at = "crawl"
    /\ Set("ingest", [imp["ingest"] EXCEPT !.at = "read", !.todo = site.files])
    /\ UNCHANGED <<tableVars, holder, siteVars, page, runs, refused>>

\* repair: every row is loaded, and a misread one is parsed again from its
\* stored SGF, in which there is no round
StartRepair ==
    /\ Launch("repair", [NotRunning EXCEPT !.at = "read", !.edits =
          {[id |-> i, hash |-> <<library[i].hash[1], "read">>, round |-> FALSE,
            views |-> library[i].views] :
              i \in {j \in Filed : /\ library[j].hash[2] = "misread"
                                  /\ ~InTable(<<library[j].hash[1], "read">>)}}])
    /\ UNCHANGED <<tableVars, holder, siteVars, page, refused>>

(***************************************************************************)
(* Commit                                                                  *)
(***************************************************************************)
Newest == Max({0} \cup Filed)
NewRows(p) == CHOOSE order \in Bijection(Newest + 1 .. Newest + Cardinality(imp[p].adds),
                                         imp[p].adds) : TRUE

\* The columns that changed; a backfill and a repair leave the count alone
Edited(e) == [library[e.id] EXCEPT !.hash = e.hash, !.round = e.round]

Commit(p) ==
    LET run == imp[p]
    IN  /\ run.at = "read"
        /\ run.todo = {} \/ (p = "ingest" /\ Cardinality(run.adds) = Cap)
        /\ MayWrite(p)
        /\ IF Conflict(p) THEN Refuse(p) /\ UNCHANGED tableVars
           ELSE /\ Newest + Cardinality(run.adds) <= MaxRows
                /\ library' = [i \in ProIds |->
                      IF i \in DOMAIN NewRows(p)
                      THEN [hash |-> NewRows(p)[i].hash, round |-> NewRows(p)[i].round, views |-> 0]
                      ELSE IF \E e \in run.edits : e.id = i
                      THEN Edited(CHOOSE e \in run.edits : e.id = i)
                      ELSE library[i]]
                /\ viewed' = [i \in ProIds |-> IF i \in DOMAIN NewRows(p) THEN 0 ELSE viewed[i]]
                /\ everIn' = everIn \cup {a.hash : a \in run.adds} \cup {e.hash : e \in run.edits}
                /\ imp' = [(IF run.adds \cup run.edits = {} THEN imp ELSE Raced) EXCEPT ![p] =
                      CASE p = "ingest" -> [run EXCEPT !.at = "save"]
                        [] p = "seed" /\ run.rest # {} ->
                              [NotRunning EXCEPT !.at = "read", !.todo = run.rest, !.seen = run.seen,
                                              !.raced = run.raced]
                        [] OTHER -> NotRunning]
                /\ FreeLock(p)
                /\ UNCHANGED refused
        /\ UNCHANGED <<siteVars, page, runs>>

\* save_index_hash, unless the run was capped
SiteVersion == site.version   \* mutant: the page is fetched once more for its hash
CrawledVersion == imp["ingest"].version
Complete == Cardinality(imp["ingest"].adds) < Cap

Save ==
    /\ imp["ingest"].at = "save"
    /\ saved' = IF Complete THEN CrawledVersion ELSE saved
    /\ Set("ingest", NotRunning)
    /\ UNCHANGED <<tableVars, holder, site, listed, missed, page, runs, refused>>

\* The program is stopped, or waits too long for the lock
Stops(p) ==
    /\ imp[p].at # "idle"
    /\ Set(p, NotRunning)
    /\ FreeLock(p)
    /\ UNCHANGED <<tableVars, siteVars, page, runs, refused>>

(***************************************************************************)
(* The site, the administrator and the visitors                            *)
(***************************************************************************)

\* A file appears in a directory, with or without a new index page
Publish(f, v) ==
    /\ f \notin site.files /\ v \in {site.version, site.version + 1} /\ v <= MaxIndex
    /\ site' = [files |-> site.files \cup {f}, version |-> v]
    /\ listed' = IF v = site.version THEN listed ELSE [listed EXCEPT ![v] = site'.files]
    /\ UNCHANGED <<tableVars, imp, holder, saved, page, runs, missed, refused>>

DeleteGame(i) ==
    /\ i \in Filed /\ holder = Absent
    /\ library' = [library EXCEPT ![i] = Absent]
    /\ imp' = Raced
    /\ UNCHANGED <<everIn, viewed, holder, siteVars, page, runs, refused>>

\* get_pro_game: the row is read, then the count is raised in the database
OpenPage(i) ==
    /\ page = Absent /\ i \in Filed /\ runs < MaxRuns
    /\ page' = i
    /\ runs' = runs + 1
    /\ UNCHANGED <<tableVars, imp, holder, siteVars, refused>>

CountView ==
    /\ page # Absent /\ holder = Absent
    /\ library' = IF page \in Filed THEN [library EXCEPT ![page].views = @ + 1] ELSE library
    /\ viewed' = IF page \in Filed THEN [viewed EXCEPT ![page] = @ + 1] ELSE viewed
    /\ page' = Absent
    /\ UNCHANGED <<everIn, imp, holder, siteVars, runs, refused>>

\* "database is locked": the page is shown and the view is not counted
SkipView ==
    /\ page # Absent /\ holder # Absent
    /\ page' = Absent
    /\ UNCHANGED <<tableVars, imp, holder, siteVars, runs, refused>>

LibraryNext ==
    \/ \E p \in Importers, files \in SUBSET Files : Start(p, files)
    \/ \E p \in Importers : Read(p) \/ Commit(p) \/ Stops(p)
    \/ Unreadable \/ FetchIndex \/ Crawl \/ Save \/ StartRepair
    \/ \E f \in Files, v \in 1..MaxIndex : Publish(f, v)
    \/ \E i \in ProIds : DeleteGame(i) \/ OpenPage(i)
    \/ CountView \/ SkipView

LibrarySpec == LibraryInit /\ [][LibraryNext]_libVars

-----------------------------------------------------------------------------
LibraryTypeOK ==
    /\ library \in [ProIds -> Rows \cup {Absent}]
    /\ holder \in Importers \cup {Absent}
    /\ \A p \in Importers :
          /\ imp[p].at \in {"idle", "crawl", "read", "save"}
          /\ imp[p].todo \subseteq Files /\ imp[p].seen \subseteq Hashes
          /\ imp[p].adds \subseteq [hash: Hashes, round: BOOLEAN]
    /\ saved \in 0..MaxIndex /\ page \in ProIds \cup {Absent}

(* The programs keep the content hash unique by themselves: a batch with   *)
(* two copies of a game, or with one the library has, is never refused by  *)
(* the database unless somebody else committed while it ran.               *)
RefusedOnlyByRace == refused = {}

(* Skipping the weekly crawl is safe: once the index page's hash is saved, *)
(* every game it led to when it appeared has been in the library, but for  *)
(* files that could not be reached or parsed.  Runs that hit the cap, are  *)
(* stopped or lose a race are made up for by later ones.                   *)
SavedMeansImported ==
    saved # 0 => \A f \in listed[saved] \ missed : HashOf(f) \in everIn

(* The weekly ingest never holds the database's write lock while it waits  *)
(* for the network: games in progress could not save their moves.          *)
NoLockWhileFetching == holder = "ingest" => imp["ingest"].at # "read"

(* The count of a row is the number of views that were counted: a seed or  *)
(* a repair that loaded the row earlier does not set it back.              *)
ViewsKept == \A i \in Filed : library[i].views = viewed[i]

(* Importers are in nobody's way: the ingest does not block the players,   *)
(* and seed and repair do not undo the readers' counts.                    *)
ImportsDisturbNobody == NoLockWhileFetching /\ ViewsKept

=============================================================================
