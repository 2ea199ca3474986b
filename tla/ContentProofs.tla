--------------------------- MODULE ContentProofs ----------------------------
(* The components that keep content: the library of professional games for *)
(* any files, importers running beside each other, and failures; the daily *)
(* challenge for boards of every size and every sound catalogue (that the  *)
(* imported half of it is sound is left to TLC: the import folds over the  *)
(* stones of a file); the search console for any queries, uploads and      *)
(* windows; the reviews of growing games; and the shelves of the           *)
(* professional games for any set of games and pages of any size.  Last,   *)
(* the types of the five components composed.                              *)
EXTENDS MCContent, FiniteSetTheorems, SequenceTheorems, NaturalsInduction,
        WellFoundedInduction, TLAPS

-----------------------------------------------------------------------------
(* The largest of the ids there are.                                       *)
LEMMA MaxOfIds ==
    ASSUME NEW bound \in Nat, NEW S, S \subseteq 1..bound
    PROVE  /\ Max({0} \cup S) \in {0} \cup S
           /\ \A x \in {0} \cup S : x \in Nat /\ x <= bound /\ x <= Max({0} \cup S)
<1>. DEFINE T == {0} \cup S
            P(n) == \A x \in T : x <= n
<1>1. \A x \in T : x \in Nat /\ x <= bound
  OBVIOUS
<1>2. PICK n \in Nat : P(n) /\ \A k \in Nat : k < n => ~P(k)
  <2>. DEFINE B == {k \in Nat : P(k)}
  <2>1. B \subseteq Nat /\ B # {}
    BY <1>1
  <2>2. \A x, y \in Nat : <<y, x>> \in OpToRel(<, Nat) <=> y < x
    BY DEF OpToRel
  <2>3. PICK R : IsWellFoundedOn(R, Nat) /\ \A x, y \in Nat : <<y, x>> \in R <=> y < x
    BY <2>2, NatLessThanWellFounded, Zenon
  <2>4. PICK n \in B : \A y \in B : ~ (<<y, n>> \in R)
    BY <2>1, <2>3, WFMin
  <2>. QED
    BY <2>3, <2>4
<1>3. n \in T
  <2>1. SUFFICES ASSUME n \notin T
                 PROVE  FALSE
    OBVIOUS
  <2>2. 0 \in T /\ n # 0 /\ n >= 1 /\ n - 1 \in Nat /\ n - 1 < n
    BY <1>2, <2>1
  <2>3. \A x \in T : x <= n /\ x # n /\ x \in Nat
    BY <1>1, <1>2, <2>1
  <2>4. P(n - 1)
    BY <2>2, <2>3
  <2>. QED
    BY <1>2, <2>2, <2>4
<1>4. \E x \in T : \A y \in T : x >= y
  BY <1>1, <1>2, <1>3
<1>5. Max(T) \in T /\ \A y \in T : Max(T) >= y
  BY <1>4 DEF Max
<1>. QED
  BY <1>1, <1>5

-----------------------------------------------------------------------------
(* The library.                                                            *)

AddedRows == [hash: Hashes, round: BOOLEAN]
EditedRows == [id: ProIds, hash: Hashes, round: BOOLEAN, views: 0..MaxRuns]
Runs == [at: {"idle", "crawl", "read", "save"}, todo: SUBSET Files, rest: SUBSET Files,
         seen: SUBSET Hashes, adds: SUBSET AddedRows, edits: SUBSET EditedRows,
         dirty: BOOLEAN, version: 0..MaxIndex, raced: BOOLEAN]

LibTypes ==
    /\ library \in [ProIds -> Rows \cup {Absent}]
    /\ imp \in [Importers -> Runs]
    /\ holder \in Importers \cup {Absent}
    /\ site \in [files: SUBSET Files, version: 1..MaxIndex]
    /\ listed \in [1..MaxIndex -> SUBSET Files]
    /\ saved \in 0..MaxIndex
    /\ page \in ProIds \cup {Absent}
    /\ runs \in 0..MaxRuns /\ viewed \in [ProIds -> 0..MaxRuns]

(* While nobody else has committed, what the run will write is not in the  *)
(* table, and the rows it will change are as it has read them.             *)
Unopposed(run) ==
    /\ \A a \in run.adds : ~InTable(a.hash)
    /\ \A e \in run.edits :
          /\ library[e.id] # Absent
          /\ library[e.id].hash = e.hash \/ ~InTable(e.hash)

(* A hash the ingest has met is in the library or about to be; what the    *)
(* index page led to is still to be read, has been met, or was missed.     *)
Has(run, hash) == hash \in everIn \/ \E a \in run.adds : a.hash = hash
Crawling(run) ==
    /\ run.version <= site.version /\ (run.at # "idle" => run.version >= 1)
    /\ run.dirty = FALSE /\ run.edits = {} /\ (run.at = "crawl" => run.adds = {})
    /\ \A a \in run.adds : a.hash \in run.seen
    /\ \A h \in run.seen : Has(run, h)
    /\ run.at = "read" =>
          \A f \in listed[run.version] \ missed : f \in run.todo \/ Has(run, HashOf(f))
    /\ run.at = "save" /\ Cardinality(run.adds) < Cap =>
          \A f \in listed[run.version] \ missed : HashOf(f) \in everIn

RunInv(p, run) ==
    /\ IsFiniteSet(run.adds)
    /\ \A a, b \in run.adds : a.hash = b.hash => a = b
    /\ run.at = "read" /\ ~run.raced => Unopposed(run)
    /\ p = "ingest" => Crawling(run)

TableInv ==
    /\ \A i \in Filed : library[i].views = viewed[i]
    /\ \A i \in ProIds : viewed[i] + (IF page = Absent THEN 0 ELSE 1) <= runs
    /\ \A i \in Filed : library[i].hash[2] = "read" => library[i].hash \in everIn

SiteInv ==
    /\ saved <= site.version /\ SavedMeansImported
    /\ \A v \in 1..MaxIndex : v <= site.version => listed[v] \subseteq site.files

LibInv ==
    /\ LibTypes /\ TableInv /\ SiteInv
    /\ holder # "ingest" /\ refused = {}
    /\ \A p \in Importers : RunInv(p, imp[p])

-----------------------------------------------------------------------------
(* Runs.                                                                   *)

LEMMA LibraryNumbers ==
    ASSUME LibraryAssumption
    PROVE  /\ Cap \in Nat /\ Cap >= 1 /\ MaxRows \in Nat /\ MaxRuns \in Nat
           /\ MaxIndex \in Nat /\ MaxIndex >= 1
           /\ Absent \notin Importers /\ Absent \notin ProIds /\ Absent \notin Rows
           /\ \A v \in 0..MaxIndex : v \in Nat
           /\ NotRunning \in Runs
<1>1. /\ Cap \in Nat /\ Cap >= 1 /\ MaxRows \in Nat /\ MaxRuns \in Nat
      /\ MaxIndex \in Nat /\ MaxIndex >= 1
      /\ Absent \notin Importers /\ Absent \notin ProIds /\ Absent \notin Rows
  BY DEF LibraryAssumption
<1>2. NotRunning \in Runs
  BY <1>1 DEF NotRunning, Runs
<1>. QED
  BY <1>1, <1>2

LEMMA FilesAreRead ==
    ASSUME LibraryAssumption, NEW f \in Files
    PROVE  /\ HashOf(f) \in Hashes /\ HashOf(f)[2] = "read" /\ HasRound(f) \in BOOLEAN
           /\ \A h \in Hashes : h[2] \in {"read", "misread"}
  BY DEF LibraryAssumption, Files, HashOf, Hashes, HasRound

LEMMA FirstIsOne ==
    ASSUME NEW files, files # {}
    PROVE  First(files) \in files
  BY DEF First

(* A run that has written nothing.                                         *)
LEMMA EmptyRun ==
    ASSUME LibInv, LibraryAssumption, NEW p \in Importers, NEW run \in Runs,
           run.adds = {}, run.edits = {}, p = "ingest" => run = NotRunning
    PROVE  RunInv(p, run)
<1>1. IsFiniteSet(run.adds)
  BY FS_EmptySet
<1>2. Unopposed(run)
  BY DEF Unopposed
<1>3. p = "ingest" => Crawling(run)
  <2>1. site.version \in Nat
    BY LibraryNumbers DEF LibInv, LibTypes
  <2>. QED
    BY <2>1 DEF Crawling, NotRunning
<1>. QED
  BY <1>1, <1>2, <1>3 DEF RunInv

(* What a run relies on stays when others go on: they leave the table or   *)
(* the run knows that they did not.                                        *)
LEMMA RunGoesOn ==
    ASSUME LibInv, LibraryAssumption, NEW p \in Importers, NEW run \in Runs, RunInv(p, run),
           site'.version \in Nat, site.version <= site'.version,
           \A v \in 1..MaxIndex : v <= site.version => listed'[v] = listed[v],
           missed \subseteq missed', everIn \subseteq everIn',
           \/ run.at # "read" \/ run.raced
           \/ Filed' = Filed /\ \A i \in Filed : library'[i].hash = library[i].hash
    PROVE  RunInv(p, run)'
<1>1. run.at = "read" /\ ~run.raced => Unopposed(run)'
  <2>. SUFFICES ASSUME run.at = "read", ~run.raced
                PROVE  Unopposed(run)'
    OBVIOUS
  <2>1. Filed' = Filed /\ \A i \in Filed : library'[i].hash = library[i].hash
    OBVIOUS
  <2>2. \A hash : InTable(hash)' <=> InTable(hash)
    BY <2>1 DEF InTable
  <2>3. Unopposed(run)
    BY DEF RunInv
  <2>4. \A e \in run.edits : e.id \in Filed /\ library'[e.id] # Absent
    BY <2>1, <2>3 DEF Unopposed, Filed, Runs, EditedRows
  <2>. QED
    BY <2>1, <2>2, <2>3, <2>4 DEF Unopposed
<1>2. p = "ingest" => Crawling(run)'
  <2>. SUFFICES ASSUME p = "ingest"
                PROVE  Crawling(run)'
    OBVIOUS
  <2>1. Crawling(run)
    BY DEF RunInv
  <2>2. \A h : Has(run, h) => Has(run, h)'
    BY DEF Has
  <2>3. site.version \in Nat /\ run.version \in Nat /\ run.version <= site'.version
    BY <2>1, LibraryNumbers DEF LibInv, LibTypes, Crawling, Runs
  <2>4. run.at # "idle" => listed'[run.version] = listed[run.version]
    BY <2>1, <2>3 DEF Crawling, Runs
  <2>5. run.at = "read" =>
            \A f \in listed'[run.version] \ missed' : f \in run.todo \/ Has(run, HashOf(f))'
    BY <2>1, <2>2, <2>4 DEF Crawling
  <2>6. run.at = "save" /\ Cardinality(run.adds) < Cap =>
            \A f \in listed'[run.version] \ missed' : HashOf(f) \in everIn'
    BY <2>1, <2>4 DEF Crawling
  <2>. QED
    BY <2>1, <2>2, <2>3, <2>5, <2>6 DEF Crawling
<1>. QED
  BY <1>1, <1>2 DEF RunInv

(* A step of one run that leaves the library and the site alone.           *)
LEMMA RunMoves ==
    ASSUME LibInv, LibraryAssumption, NEW p \in Importers, NEW run \in Runs,
           imp' = [imp EXCEPT ![p] = run],
           UNCHANGED <<library, everIn, viewed, site, listed, page, refused>>,
           missed \subseteq missed', runs' \in 0..MaxRuns, runs <= runs',
           holder' \in Importers \cup {Absent}, holder' # "ingest",
           saved' \in 0..MaxIndex, saved' <= site.version,
           saved' # 0 => \A f \in listed[saved'] \ missed' : HashOf(f) \in everIn,
           RunInv(p, run)'
    PROVE  LibInv'
<1>1. LibTypes'
  BY DEF LibInv, LibTypes
<1>2. Filed' = Filed
  BY DEF Filed
<1>3. TableInv'
  <2>1. /\ \A i \in ProIds : viewed[i] \in Nat
        /\ runs \in Nat /\ runs' \in Nat
    BY LibraryNumbers DEF LibInv, LibTypes
  <2>2. \A i \in ProIds : viewed[i] + (IF page = Absent THEN 0 ELSE 1) <= runs'
    BY <2>1 DEF LibInv, TableInv
  <2>. QED
    BY <1>2, <2>2 DEF LibInv, TableInv
<1>4. SiteInv'
  BY DEF LibInv, SiteInv, SavedMeansImported
<1>5. ASSUME NEW q \in Importers, q # p
      PROVE  RunInv(q, imp[q])'
  <2>1. imp'[q] = imp[q] /\ imp[q] \in Runs /\ RunInv(q, imp[q])
    BY <1>5 DEF LibInv, LibTypes
  <2>2. PICK r \in Runs : r = imp[q] /\ RunInv(q, r)
    BY <2>1
  <2>3. site'.version \in Nat /\ site.version <= site'.version
    BY LibraryNumbers DEF LibInv, LibTypes
  <2>4. RunInv(q, r)'
    BY <1>2, <2>2, <2>3, RunGoesOn
  <2>5. r = imp'[q]
    BY <2>1, <2>2
  <2>. QED
    BY <2>4, <2>5
<1>6. RunInv(p, imp[p])'
  <2>1. run = imp'[p]
    BY DEF LibInv, LibTypes
  <2>. QED
    BY <2>1
<1>. QED
  BY <1>1, <1>3, <1>4, <1>5, <1>6 DEF LibInv

(* The same, when nothing else than the run and the lock changes.          *)
LEMMA RunGoes ==
    ASSUME LibInv, LibraryAssumption, NEW p \in Importers, NEW run \in Runs, RunInv(p, run),
           imp' = [imp EXCEPT ![p] = run],
           UNCHANGED <<library, everIn, viewed, site, listed, page, refused, missed, saved>>,
           runs' \in 0..MaxRuns, runs <= runs',
           holder' \in Importers \cup {Absent}, holder' # "ingest"
    PROVE  LibInv'
<1>1. Filed' = Filed
  BY DEF Filed
<1>2. site.version \in Nat /\ site'.version = site.version
  BY LibraryNumbers DEF LibInv, LibTypes
<1>3. RunInv(p, run)'
  BY <1>1, <1>2, RunGoesOn
<1>4. /\ saved' \in 0..MaxIndex /\ saved' <= site.version
      /\ saved' # 0 => \A f \in listed[saved'] \ missed' : HashOf(f) \in everIn
  BY DEF LibInv, LibTypes, SiteInv, SavedMeansImported
<1>. QED
  BY <1>3, <1>4, RunMoves

LEMMA LockFreed ==
    ASSUME LibInv, NEW p \in Importers, FreeLock(p)
    PROVE  holder' \in Importers \cup {Absent} /\ (Absent \notin Importers => holder' # "ingest")
  BY DEF FreeLock, LibInv, LibTypes, Importers

-----------------------------------------------------------------------------
(* Every step keeps the invariant.                                         *)

LEMMA InitLibrary ==
    ASSUME LibraryInit, LibraryAssumption
    PROVE  LibInv
<1>1. PICK t \in Texts \cup {Absent} :
          library = [i \in ProIds |-> IF i = 1 /\ t # Absent
                                      THEN [hash |-> <<t, "misread">>, round |-> TRUE, views |-> 0]
                                      ELSE Absent]
  BY DEF LibraryInit
<1>2. PICK files \in SUBSET Files :
          /\ site = [files |-> files, version |-> 1]
          /\ listed = [v \in 1..MaxIndex |-> IF v = 1 THEN files ELSE {}]
  BY DEF LibraryInit
<1>3. /\ imp = [p \in Importers |-> NotRunning] /\ holder = Absent /\ saved = 0 /\ page = Absent
      /\ runs = 0 /\ viewed = [i \in ProIds |-> 0] /\ refused = {}
  BY DEF LibraryInit
<1>4. library \in [ProIds -> Rows \cup {Absent}]
  <2>1. ASSUME t # Absent
        PROVE  [hash |-> <<t, "misread">>, round |-> TRUE, views |-> 0] \in Rows
    BY <2>1, LibraryNumbers DEF Rows, Hashes
  <2>. QED
    BY <1>1, <2>1
<1>5. LibTypes
  BY <1>2, <1>3, <1>4, LibraryNumbers DEF LibTypes
<1>6. \A i \in Filed : library[i].views = 0 /\ library[i].hash[2] # "read"
  BY <1>1 DEF Filed
<1>7. TableInv
  BY <1>3, <1>6 DEF TableInv, Filed
<1>8. SiteInv
  BY <1>2, <1>3 DEF SiteInv, SavedMeansImported
<1>9. ASSUME NEW p \in Importers
      PROVE  RunInv(p, imp[p])
  <2>1. imp[p] = NotRunning
    BY <1>3
  <2>2. IsFiniteSet(NotRunning.adds) /\ NotRunning.adds = {} /\ NotRunning.at = "idle"
    BY FS_EmptySet DEF NotRunning
  <2>3. Crawling(NotRunning)
    BY <1>2 DEF Crawling, NotRunning
  <2>. QED
    BY <2>1, <2>2, <2>3 DEF RunInv
<1>. QED
  BY <1>3, <1>5, <1>7, <1>8, <1>9, LibraryNumbers DEF LibInv, Importers

LEMMA LaunchKeeps ==
    ASSUME LibInv, LibraryAssumption,
           \/ \E p \in Importers, files \in SUBSET Files : Start(p, files)
           \/ FetchIndex \/ StartRepair
    PROVE  LibInv'
<1>. DEFINE Goes(p, run) == /\ p \in Importers /\ run \in Runs /\ RunInv(p, run) /\ Launch(p, run)
                            /\ UNCHANGED <<tableVars, holder, siteVars, page, refused>>
<1>1. \E p, run : Goes(p, run)
  <2>1. CASE \E p \in Importers, files \in SUBSET Files : Start(p, files)
    <3>1. PICK p \in Importers, files \in SUBSET Files : Start(p, files)
      BY <2>1
    <3>. DEFINE first == {f \in files : p = "upload" \/ HasRound(f)}
                run == [NotRunning EXCEPT !.at = "read", !.todo = first, !.rest = files \ first]
    <3>2. /\ p \in {"upload", "seed"} /\ Launch(p, run)
          /\ UNCHANGED <<tableVars, holder, siteVars, page, refused>>
      BY <3>1 DEF Start
    <3>3. run \in Runs /\ run.adds = {} /\ run.edits = {}
      BY LibraryNumbers DEF Runs, NotRunning
    <3>. HIDE DEF run
    <3>4. RunInv(p, run)
      BY <3>2, <3>3, EmptyRun
    <3>. QED
      BY <3>2, <3>3, <3>4
  <2>2. CASE FetchIndex
    <3>. DEFINE run == [NotRunning EXCEPT !.at = "crawl", !.version = site.version]
    <3>1. /\ Launch("ingest", run) /\ "ingest" \in Importers
          /\ UNCHANGED <<tableVars, holder, siteVars, page, refused>>
      BY <2>2 DEF FetchIndex, Importers
    <3>2. site.version \in 1..MaxIndex /\ site.version \in Nat /\ site.version >= 1
      BY LibraryNumbers DEF LibInv, LibTypes
    <3>3. /\ run \in Runs /\ run.adds = {} /\ run.edits = {} /\ run.seen = {} /\ run.at = "crawl"
          /\ run.dirty = FALSE /\ run.version = site.version
      <4>1. site.version \in 0..MaxIndex
        BY <3>2, LibraryNumbers
      <4>2. /\ run.adds = {} /\ run.edits = {} /\ run.seen = {} /\ run.at = "crawl"
            /\ run.dirty = FALSE /\ run.version = site.version
        BY DEF NotRunning
      <4>3. run \in Runs
        BY <4>1, LibraryNumbers DEF Runs
      <4>. QED
        BY <4>2, <4>3
    <3>. HIDE DEF run
    <3>4. RunInv("ingest", run)
      BY <3>2, <3>3, FS_EmptySet DEF RunInv, Crawling
    <3>. QED
      BY <3>1, <3>3, <3>4
  <2>3. CASE StartRepair
    <3>. DEFINE edits == {[id |-> i, hash |-> <<library[i].hash[1], "read">>, round |-> FALSE,
                           views |-> library[i].views] :
                             i \in {j \in Filed : /\ library[j].hash[2] = "misread"
                                                  /\ ~InTable(<<library[j].hash[1], "read">>)}}
                run == [NotRunning EXCEPT !.at = "read", !.edits = edits]
    <3>1. /\ Launch("repair", run) /\ "repair" \in Importers
          /\ UNCHANGED <<tableVars, holder, siteVars, page, refused>>
      BY <2>3 DEF StartRepair, Importers
    <3>2. \A e \in edits : e \in EditedRows /\ library[e.id] # Absent /\ ~InTable(e.hash)
      <4>1. \A i \in Filed : library[i] \in Rows /\ i \in ProIds /\ library[i] # Absent
        BY DEF LibInv, LibTypes, Filed
      <4>2. \A i \in Filed : <<library[i].hash[1], "read">> \in Hashes
        BY <4>1 DEF Rows, Hashes
      <4>3. ASSUME NEW i \in Filed, ~InTable(<<library[i].hash[1], "read">>),
                   NEW e, e = [id |-> i, hash |-> <<library[i].hash[1], "read">>, round |-> FALSE,
                               views |-> library[i].views]
            PROVE  e \in EditedRows /\ library[e.id] # Absent /\ ~InTable(e.hash)
        <5>1. e.id = i /\ e.hash = <<library[i].hash[1], "read">>
          BY <4>3
        <5>2. e \in EditedRows
          BY <4>1, <4>2, <4>3 DEF Rows, EditedRows
        <5>. QED
          BY <4>1, <4>3, <5>1, <5>2
      <4>. QED
        BY <4>3
    <3>. HIDE DEF edits
    <3>3. /\ run \in Runs /\ run.adds = {} /\ run.edits = edits
      BY <3>2, LibraryNumbers DEF Runs, NotRunning
    <3>. HIDE DEF run
    <3>4. RunInv("repair", run)
      BY <3>2, <3>3, FS_EmptySet DEF RunInv, Unopposed
    <3>. QED
      BY <3>1, <3>3, <3>4
  <2>. QED
    BY <2>1, <2>2, <2>3
<1>2. PICK p, run : Goes(p, run)
  BY <1>1
<1>3. /\ imp' = [imp EXCEPT ![p] = run] /\ runs' = runs + 1 /\ runs < MaxRuns
      /\ UNCHANGED <<library, everIn, viewed, site, listed, page, refused, missed, saved, holder>>
  BY <1>2 DEF Launch, Set, tableVars, siteVars
<1>4. /\ runs' \in 0..MaxRuns /\ runs <= runs'
      /\ holder' \in Importers \cup {Absent} /\ holder' # "ingest"
  BY <1>3, LibraryNumbers DEF LibInv, LibTypes
<1>. QED
  BY <1>2, <1>3, <1>4, RunGoes

(* The constraint stops only those that somebody else has overtaken.       *)
LEMMA RefuseKeeps ==
    ASSUME LibInv, LibraryAssumption, NEW p \in Importers,
           imp[p].at = "read", Conflict(p), Refuse(p),
           UNCHANGED <<library, everIn, viewed, site, listed, page, missed, saved, runs>>
    PROVE  LibInv'
<1>1. RunInv(p, imp[p])
  BY DEF LibInv
<1>2. imp[p].raced
  BY <1>1 DEF RunInv, Unopposed, Conflict
<1>3. refused' = refused /\ imp' = [imp EXCEPT ![p] = NotRunning]
  BY <1>2 DEF Refuse, Set
<1>4. RunInv(p, NotRunning) /\ NotRunning \in Runs
  BY EmptyRun, LibraryNumbers DEF NotRunning
<1>5. /\ runs' \in 0..MaxRuns /\ runs <= runs'
      /\ holder' \in Importers \cup {Absent} /\ holder' # "ingest"
  BY LockFreed, LibraryNumbers DEF Refuse, LibInv, LibTypes
<1>. QED
  BY <1>3, <1>4, <1>5, RunGoes

LEMMA StopKeeps ==
    ASSUME LibInv, LibraryAssumption, NEW p \in Importers, Stops(p)
    PROVE  LibInv'
<1>1. /\ imp' = [imp EXCEPT ![p] = NotRunning]
      /\ UNCHANGED <<library, everIn, viewed, site, listed, page, refused, missed, saved, runs>>
  BY DEF Stops, Set, tableVars, siteVars
<1>2. RunInv(p, NotRunning) /\ NotRunning \in Runs
  BY EmptyRun, LibraryNumbers DEF NotRunning
<1>3. /\ runs' \in 0..MaxRuns /\ runs <= runs'
      /\ holder' \in Importers \cup {Absent} /\ holder' # "ingest"
  BY <1>1, LockFreed, LibraryNumbers DEF Stops, LibInv, LibTypes
<1>. QED
  BY <1>1, <1>2, <1>3, RunGoes

(* One more file.                                                          *)
LEMMA ReadKeeps ==
    ASSUME LibInv, LibraryAssumption, NEW p \in Importers, Read(p)
    PROVE  LibInv'
<1>. DEFINE run == imp[p]
            f == First(run.todo)
            hash == HashOf(f)
            next == [run EXCEPT !.todo = @ \ {f}, !.seen = @ \cup {hash}]
            known == InTable(hash) \/ \E a \in run.adds : a.hash = hash /\ AddsAtOnce(p)
            more == [next EXCEPT !.edits = @ \cup Backfills(p, f), !.dirty = Backfills(p, f) # {}]
            row == [hash |-> hash, round |-> HasRound(f)]
            added == [next EXCEPT !.adds = @ \cup {row}, !.dirty = AddsAtOnce(p)]
<1>1. /\ run.at = "read" /\ run.todo # {}
      /\ UNCHANGED <<library, everIn, viewed, site, listed, page, missed, saved, runs>>
      /\ IF Seen(p, f) /\ p # "upload"
         THEN Set(p, next) /\ UNCHANGED <<holder, refused>>
         ELSE IF run.dirty /\ Conflict(p) THEN Refuse(p)
              ELSE /\ holder' = IF run.dirty THEN p ELSE holder
                   /\ Set(p, IF known THEN more ELSE added)
                   /\ UNCHANGED refused
  BY DEF Read, tableVars, siteVars
<1>2. /\ run \in Runs /\ RunInv(p, run) /\ f \in run.todo /\ f \in Files
      /\ hash \in Hashes /\ hash[2] = "read" /\ HasRound(f) \in BOOLEAN
  <2>1. run \in Runs /\ RunInv(p, run)
    BY DEF LibInv, LibTypes
  <2>2. f \in run.todo /\ f \in Files
    BY <1>1, <2>1, FirstIsOne DEF Runs
  <2>. QED
    BY <2>1, <2>2, FilesAreRead
<1>3. p = "ingest" => run.dirty = FALSE /\ Backfills(p, f) = {} /\ ~AddsAtOnce(p)
  BY <1>2 DEF RunInv, Crawling, Backfills, AddsAtOnce
<1>4. /\ runs' \in 0..MaxRuns /\ runs <= runs'
      /\ (holder' = holder \/ (run.dirty /\ holder' = p)) =>
            holder' \in Importers \cup {Absent} /\ holder' # "ingest"
  BY <1>1, <1>3, LibraryNumbers DEF LibInv, LibTypes
<1>5. /\ next \in Runs /\ next.at = "read" /\ next.todo = run.todo \ {f}
      /\ next.seen = run.seen \cup {hash} /\ next.adds = run.adds /\ next.edits = run.edits
      /\ next.raced = run.raced /\ next.version = run.version /\ next.dirty = run.dirty
  BY <1>1, <1>2 DEF Runs
<1>6. /\ \A e \in Backfills(p, f) : /\ e \in EditedRows /\ library[e.id] # Absent
                                    /\ library[e.id].hash = e.hash
      /\ AddsAtOnce(p) \in BOOLEAN
  <2>1. ASSUME NEW j \in Filed, library[j].hash = hash, NEW e,
               e = [id |-> j, hash |-> hash, round |-> TRUE, views |-> library[j].views]
        PROVE  /\ e \in EditedRows /\ library[e.id] # Absent /\ library[e.id].hash = e.hash
    <3>1. library[j] \in Rows /\ j \in ProIds /\ library[j] # Absent
      BY DEF LibInv, LibTypes, Filed
    <3>2. e.id = j /\ e.hash = hash
      BY <2>1
    <3>3. e \in EditedRows
      BY <1>2, <2>1, <3>1 DEF Rows, EditedRows
    <3>. QED
      BY <2>1, <3>1, <3>2, <3>3
  <2>. HIDE DEF f, hash
  <2>2. ASSUME NEW e \in Backfills(p, f)
        PROVE  \E j \in Filed : /\ library[j].hash = HashOf(f)
                                /\ e = [id |-> j, hash |-> HashOf(f), round |-> TRUE,
                                        views |-> library[j].views]
    BY DEF Backfills
  <2>3. hash = HashOf(f)
    BY DEF hash
  <2>. QED
    BY <2>1, <2>2, <2>3 DEF AddsAtOnce
<1>. HIDE DEF run, f, hash, next, known, more, row, added
<1>7. CASE Seen(p, f) /\ p # "upload"
  <2>1. imp' = [imp EXCEPT ![p] = next] /\ UNCHANGED <<holder, refused>>
    BY <1>1, <1>7 DEF Set
  <2>2. hash \in run.seen
    BY <1>7 DEF Seen, run, hash
  <2>3. RunInv(p, next)
    <3>1. next.at = "read" /\ ~next.raced => Unopposed(next)
      BY <1>1, <1>2, <1>5 DEF RunInv, Unopposed
    <3>2. p = "ingest" => Crawling(next)
      BY <1>1, <1>2, <1>5, <2>2 DEF RunInv, Crawling, Has, hash
    <3>. QED
      BY <1>2, <1>5, <3>1, <3>2 DEF RunInv
  <2>. QED
    BY <1>1, <1>4, <1>5, <2>1, <2>3, RunGoes
<1>8. CASE ~(Seen(p, f) /\ p # "upload") /\ run.dirty /\ Conflict(p)
  BY <1>1, <1>8, RefuseKeeps DEF run
<1>9. CASE ~(Seen(p, f) /\ p # "upload") /\ ~(run.dirty /\ Conflict(p)) /\ known
  <2>1. /\ imp' = [imp EXCEPT ![p] = more] /\ UNCHANGED refused
        /\ holder' = holder \/ (run.dirty /\ holder' = p)
    BY <1>1, <1>9 DEF Set
  <2>2. /\ more \in Runs /\ more.at = "read" /\ more.todo = run.todo \ {f}
        /\ more.seen = run.seen \cup {hash} /\ more.adds = run.adds
        /\ more.edits = run.edits \cup Backfills(p, f)
        /\ more.raced = run.raced /\ more.version = run.version
        /\ more.dirty = (Backfills(p, f) # {})
    BY <1>2, <1>5, <1>6 DEF Runs, more
  <2>3. RunInv(p, more)
    <3>1. more.at = "read" /\ ~more.raced => Unopposed(more)
      BY <1>1, <1>2, <1>6, <2>2 DEF RunInv, Unopposed
    <3>2. p = "ingest" => Crawling(more)
      <4>. SUFFICES ASSUME p = "ingest"
                    PROVE  Crawling(more)
        OBVIOUS
      <4>1. Crawling(run) /\ more.edits = {} /\ more.dirty = FALSE
        BY <1>2, <1>3, <2>2 DEF RunInv, Crawling
      <4>2. hash \in everIn
        <5>1. InTable(hash)
          BY <1>3, <1>9 DEF known
        <5>. QED
          BY <1>2, <5>1 DEF InTable, LibInv, TableInv
      <4>3. \A h : Has(run, h) => Has(more, h)
        BY <2>2 DEF Has
      <4>4. \A h \in more.seen : Has(more, h)
        BY <2>2, <4>1, <4>2, <4>3 DEF Crawling, Has
      <4>5. \A g \in listed[more.version] \ missed : g \in more.todo \/ Has(more, HashOf(g))
        BY <1>1, <2>2, <4>1, <4>2, <4>3 DEF Crawling, Has, hash
      <4>. QED
        BY <1>1, <2>2, <4>1, <4>4, <4>5 DEF Crawling
    <3>. QED
      BY <1>2, <2>2, <3>1, <3>2 DEF RunInv
  <2>. QED
    BY <1>1, <1>4, <2>1, <2>2, <2>3, RunGoes
<1>10. CASE ~(Seen(p, f) /\ p # "upload") /\ ~(run.dirty /\ Conflict(p)) /\ ~known
  <2>1. /\ imp' = [imp EXCEPT ![p] = added] /\ UNCHANGED refused
        /\ holder' = holder \/ (run.dirty /\ holder' = p)
    BY <1>1, <1>10 DEF Set
  <2>2. row \in AddedRows /\ row.hash = hash
    BY <1>2 DEF row, AddedRows
  <2>3. /\ added \in Runs /\ added.at = "read" /\ added.todo = run.todo \ {f}
        /\ added.seen = run.seen \cup {hash} /\ added.adds = run.adds \cup {row}
        /\ added.edits = run.edits
        /\ added.raced = run.raced /\ added.version = run.version
        /\ added.dirty = AddsAtOnce(p)
    BY <1>2, <1>5, <1>6, <2>2 DEF Runs, added
  <2>4. ~InTable(hash) /\ \A a \in run.adds : a.hash # hash
    <3>1. ~InTable(hash) /\ (AddsAtOnce(p) => \A a \in run.adds : a.hash # hash)
      BY <1>10 DEF known
    <3>2. p = "ingest" => \A a \in run.adds : a.hash # hash
      <4>1. p = "ingest" => hash \notin run.seen
        BY <1>10 DEF Seen, run, hash
      <4>. QED
        BY <1>2, <4>1 DEF RunInv, Crawling
    <3>. QED
      BY <3>1, <3>2 DEF AddsAtOnce
  <2>5. RunInv(p, added)
    <3>1. added.at = "read" /\ ~added.raced => Unopposed(added)
      BY <1>1, <1>2, <2>2, <2>3, <2>4 DEF RunInv, Unopposed
    <3>2. p = "ingest" => Crawling(added)
      <4>. SUFFICES ASSUME p = "ingest"
                    PROVE  Crawling(added)
        OBVIOUS
      <4>1. Crawling(run) /\ added.dirty = FALSE
        BY <1>2, <1>3, <2>3 DEF RunInv
      <4>2. Has(added, hash) /\ \A h : Has(run, h) => Has(added, h)
        BY <2>2, <2>3 DEF Has
      <4>3. \A h \in added.seen : Has(added, h)
        BY <2>3, <4>1, <4>2 DEF Crawling
      <4>4. \A g \in listed[added.version] \ missed : g \in added.todo \/ Has(added, HashOf(g))
        BY <1>1, <2>3, <4>1, <4>2 DEF Crawling, hash
      <4>5. \A a \in added.adds : a.hash \in added.seen
        BY <2>2, <2>3, <4>1 DEF Crawling
      <4>. QED
        BY <1>1, <2>3, <4>1, <4>3, <4>4, <4>5 DEF Crawling
    <3>3. IsFiniteSet(added.adds)
      BY <1>2, <2>3, FS_AddElement DEF RunInv
    <3>4. \A a, b \in added.adds : a.hash = b.hash => a = b
      BY <1>2, <2>2, <2>3, <2>4 DEF RunInv
    <3>. QED
      BY <3>1, <3>2, <3>3, <3>4 DEF RunInv
  <2>. QED
    BY <1>1, <1>4, <2>1, <2>3, <2>5, RunGoes
<1>. QED
  BY <1>7, <1>8, <1>9, <1>10

(* The crawl, the files it misses, and the index page it remembers.        *)
LEMMA CrawlKeeps ==
    ASSUME LibInv, LibraryAssumption, Unreadable \/ Crawl \/ Save
    PROVE  LibInv'
<1>. DEFINE p == "ingest"
<1>1. /\ p \in Importers /\ imp[p] \in Runs /\ RunInv(p, imp[p]) /\ Crawling(imp[p])
      /\ runs \in 0..MaxRuns /\ runs <= runs
      /\ holder \in Importers \cup {Absent} /\ holder # "ingest"
      /\ saved \in 0..MaxIndex /\ saved <= site.version /\ SavedMeansImported
      /\ site.version \in Nat /\ site.version \in 1..MaxIndex
  BY LibraryNumbers DEF LibInv, LibTypes, RunInv, Importers, SiteInv
<1>2. CASE Unreadable
  <2>1. PICK old \in Runs, run \in Runs, f \in {First(imp[p].todo)} :
           /\ old = imp[p] /\ f = First(old.todo) /\ run = [old EXCEPT !.todo = @ \ {f}]
           /\ imp' = [imp EXCEPT ![p] = run] /\ missed' = missed \cup {f} /\ old.at = "read"
           /\ UNCHANGED <<library, everIn, viewed, holder, site, saved, listed, page, runs,
                          refused>>
    <3>. DEFINE f == First(imp[p].todo)
                run == [imp[p] EXCEPT !.todo = @ \ {f}]
    <3>1. /\ imp' = [imp EXCEPT ![p] = run] /\ missed' = missed \cup {f} /\ imp[p].at = "read"
          /\ UNCHANGED <<library, everIn, viewed, holder, site, saved, listed, page, runs,
                         refused>>
      BY <1>2 DEF Unreadable, Set, tableVars
    <3>2. run \in Runs
      BY <1>1 DEF Runs
    <3>. QED
      BY <1>1, <3>1, <3>2
  <2>2. /\ run.at = old.at /\ run.todo = old.todo \ {f}
        /\ run.adds = old.adds /\ run.edits = old.edits /\ run.seen = old.seen
        /\ run.raced = old.raced /\ run.version = old.version /\ run.dirty = old.dirty
    BY <2>1 DEF Runs
  <2>3. RunInv(p, run)'
    <3>1. Filed' = Filed /\ site'.version = site.version /\ RunInv(p, old)
      BY <1>1, <2>1 DEF Filed
    <3>2. RunInv(p, old)'
      BY <1>1, <2>1, <3>1, RunGoesOn
    <3>3. Unopposed(run)' <=> Unopposed(old)'
      BY <2>2 DEF Unopposed
    <3>4. \A h : Has(run, h)' <=> Has(old, h)'
      BY <2>2 DEF Has
    <3>5. Crawling(run)'
      <4>1. Crawling(old)' /\ missed' = missed \cup {f}
        BY <2>1, <3>2 DEF RunInv
      <4>2. \A g \in listed'[run.version] \ missed' : g \in run.todo \/ Has(run, HashOf(g))'
        BY <2>1, <2>2, <3>4, <4>1 DEF Crawling
      <4>. QED
        BY <2>1, <2>2, <3>4, <4>1, <4>2 DEF Crawling
    <3>. QED
      BY <2>2, <3>2, <3>3, <3>5 DEF RunInv
  <2>4. /\ saved' \in 0..MaxIndex /\ saved' <= site.version
        /\ saved' # 0 => \A g \in listed[saved'] \ missed' : HashOf(g) \in everIn
        /\ missed \subseteq missed'
    BY <1>1, <2>1 DEF SavedMeansImported
  <2>. QED
    BY <1>1, <2>1, <2>3, <2>4, RunMoves
<1>3. CASE Crawl
  <2>. DEFINE run == [imp[p] EXCEPT !.at = "read", !.todo = site.files]
  <2>1. /\ imp' = [imp EXCEPT ![p] = run] /\ imp[p].at = "crawl"
        /\ UNCHANGED <<library, everIn, viewed, holder, site, saved, listed, missed, page, runs,
                       refused>>
    BY <1>3 DEF Crawl, Set, tableVars, siteVars
  <2>2. site.files \subseteq Files
    BY DEF LibInv, LibTypes
  <2>3. /\ run \in Runs /\ run.at = "read" /\ run.todo = site.files
        /\ run.adds = imp[p].adds /\ run.edits = imp[p].edits /\ run.seen = imp[p].seen
        /\ run.raced = imp[p].raced /\ run.version = imp[p].version /\ run.dirty = imp[p].dirty
    BY <1>1, <2>2 DEF Runs
  <2>. HIDE DEF run
  <2>4. listed[run.version] \subseteq site.files
    BY <1>1, <2>1, <2>3 DEF Crawling, LibInv, SiteInv, Runs
  <2>5. \A h : Has(run, h) <=> Has(imp[p], h)
    BY <2>3 DEF Has
  <2>6. Crawling(run)
    BY <1>1, <2>1, <2>3, <2>4, <2>5 DEF Crawling
  <2>7. Unopposed(run)
    BY <1>1, <2>1, <2>3 DEF Unopposed, Crawling
  <2>8. RunInv(p, run)
    BY <1>1, <2>3, <2>6, <2>7 DEF RunInv
  <2>. QED
    BY <1>1, <2>1, <2>3, <2>8, RunGoes
<1>4. CASE Save
  <2>1. /\ imp' = [imp EXCEPT ![p] = NotRunning] /\ imp[p].at = "save"
        /\ saved' = IF Complete THEN CrawledVersion ELSE saved
        /\ UNCHANGED <<library, everIn, viewed, holder, site, listed, missed, page, runs, refused>>
    BY <1>4 DEF Save, Set, tableVars
  <2>2. RunInv(p, NotRunning) /\ NotRunning \in Runs
    BY <1>1, EmptyRun, LibraryNumbers DEF NotRunning
  <2>3. RunInv(p, NotRunning)'
    <3>1. Filed' = Filed
      BY <2>1 DEF Filed
    <3>. QED
      BY <1>1, <2>1, <2>2, <3>1, RunGoesOn
  <2>4. /\ saved' \in 0..MaxIndex /\ saved' <= site.version
        /\ saved' # 0 => \A f \in listed[saved'] \ missed' : HashOf(f) \in everIn
    <3>1. CASE Complete
      BY <1>1, <2>1, <3>1 DEF Complete, CrawledVersion, Crawling, Runs
    <3>2. CASE ~Complete
      BY <1>1, <2>1, <3>2 DEF SavedMeansImported
    <3>. QED
      BY <3>1, <3>2
  <2>. QED
    BY <1>1, <2>1, <2>2, <2>3, <2>4, RunMoves
<1>. QED
  BY <1>2, <1>3, <1>4

(* The runs after a step that adds to what has been in the library.        *)
LEMMA RunsGoOn ==
    ASSUME LibInv, LibraryAssumption, NEW q \in Importers, NEW late \in Runs,
           \/ late = imp[q] /\ late.at = "idle"
           \/ late = [imp[q] EXCEPT !.raced = TRUE]
           \/ /\ late = imp[q] /\ Filed' = Filed
              /\ \A i \in Filed : library'[i].hash = library[i].hash,
           site'.version \in Nat, site.version <= site'.version,
           \A v \in 1..MaxIndex : v <= site.version => listed'[v] = listed[v],
           missed \subseteq missed', everIn \subseteq everIn'
    PROVE  RunInv(q, late)'
<1>1. PICK old \in Runs : old = imp[q] /\ RunInv(q, old)
  BY DEF LibInv, LibTypes
<1>2. CASE late = [old EXCEPT !.raced = TRUE]
  <2>1. /\ late.at = old.at /\ late.todo = old.todo
        /\ late.adds = old.adds /\ late.edits = old.edits
        /\ late.seen = old.seen /\ late.version = old.version /\ late.dirty = old.dirty
        /\ late.raced = TRUE
    BY <1>1, <1>2 DEF Runs
  <2>2. Crawling(old) => Crawling(late)
    BY <2>1 DEF Crawling, Has
  <2>3. RunInv(q, late)
    BY <1>1, <2>1, <2>2 DEF RunInv
  <2>. QED
    BY <2>1, <2>3, RunGoesOn
<1>3. CASE late = old /\ late.at = "idle"
  <2>1. late.at # "read" /\ RunInv(q, late)
    BY <1>1, <1>3
  <2>. QED
    BY <2>1, RunGoesOn
<1>4. CASE late = old /\ Filed' = Filed /\ \A i \in Filed : library'[i].hash = library[i].hash
  <2>1. RunInv(q, late)
    BY <1>1, <1>4
  <2>2. Filed' = Filed /\ \A i \in Filed : library'[i].hash = library[i].hash
    BY <1>4
  <2>. QED
    BY <2>1, <2>2, RunGoesOn
<1>. QED
  BY <1>1, <1>2, <1>3, <1>4

LEMMA RacedRuns ==
    ASSUME LibInv, NEW q \in Importers
    PROVE  /\ Raced[q] \in Runs
           /\ \/ Raced[q] = imp[q] /\ imp[q].at = "idle"
              \/ Raced[q] = [imp[q] EXCEPT !.raced = TRUE]
<1>1. imp[q] \in Runs
  BY DEF LibInv, LibTypes
<1>2. [imp[q] EXCEPT !.raced = TRUE] \in Runs
  BY <1>1 DEF Runs
<1>. QED
  BY <1>1, <1>2 DEF Raced

LEMMA PublishKeeps ==
    ASSUME LibInv, LibraryAssumption, NEW f \in Files, NEW v \in 1..MaxIndex, Publish(f, v)
    PROVE  LibInv'
<1>1. /\ v \in {site.version, site.version + 1} /\ site'.files = site.files \cup {f}
      /\ site'.version = v
      /\ site' = [files |-> site.files \cup {f}, version |-> v]
      /\ listed' = IF v = site.version THEN listed ELSE [listed EXCEPT ![v] = site'.files]
      /\ UNCHANGED <<library, everIn, viewed, imp, holder, saved, page, runs, missed, refused>>
  BY DEF Publish, tableVars
<1>2. site.version \in Nat /\ v \in Nat /\ site.version <= v /\ saved \in Nat /\ MaxIndex \in Nat
  BY <1>1, LibraryNumbers DEF LibInv, LibTypes
<1>3. /\ site \in [files: SUBSET Files, version: 1..MaxIndex]
      /\ listed \in [1..MaxIndex -> SUBSET Files]
  BY DEF LibInv, LibTypes
<1>4. /\ site' \in [files: SUBSET Files, version: 1..MaxIndex]
      /\ listed' \in [1..MaxIndex -> SUBSET Files]
  BY <1>1, <1>3
<1>5. \A w \in 1..MaxIndex :
         /\ w <= site.version => listed'[w] = listed[w]
         /\ w <= v => listed'[w] \subseteq site'.files
  <2>1. \A w \in 1..MaxIndex : w <= site.version => listed[w] \subseteq site.files
    BY DEF LibInv, SiteInv
  <2>2. \A w \in 1..MaxIndex : w \in Nat /\ (w <= v /\ w # v => w <= site.version)
    BY <1>1, <1>2
  <2>3. CASE v = site.version
    BY <1>1, <2>1, <2>3
  <2>4. CASE v # site.version
    <3>1. \A w \in 1..MaxIndex : listed'[w] = IF w = v THEN site'.files ELSE listed[w]
      BY <1>1, <1>3, <2>4
    <3>2. ~ (v <= site.version)
      BY <1>1, <1>2, <2>4
    <3>. QED
      BY <1>1, <2>1, <2>2, <3>1, <3>2
  <2>. QED
    BY <2>3, <2>4
<1>6. LibTypes'
  BY <1>1, <1>4 DEF LibInv, LibTypes
<1>7. TableInv' /\ Filed' = Filed
  BY <1>1 DEF LibInv, TableInv, Filed
<1>8. SiteInv'
  <2>1. saved' <= site'.version
    BY <1>1, <1>2 DEF LibInv, SiteInv
  <2>2. saved # 0 => saved \in 1..MaxIndex /\ listed'[saved] = listed[saved]
    BY <1>2, <1>5, LibraryNumbers DEF LibInv, LibTypes, SiteInv
  <2>3. SavedMeansImported'
    BY <1>1, <2>2 DEF LibInv, SiteInv, SavedMeansImported
  <2>. QED
    BY <1>1, <1>5, <2>1, <2>3 DEF SiteInv
<1>9. ASSUME NEW q \in Importers
      PROVE  RunInv(q, imp[q])'
  <2>1. PICK r \in Runs : r = imp[q] /\ r = imp'[q]
    BY <1>1 DEF LibInv, LibTypes
  <2>2. RunInv(q, r)'
    BY <1>1, <1>2, <1>5, <1>7, <2>1, RunsGoOn
  <2>. QED
    BY <2>1, <2>2
<1>. QED
  BY <1>1, <1>6, <1>7, <1>8, <1>9 DEF LibInv

LEMMA DeleteGameKeeps ==
    ASSUME LibInv, LibraryAssumption, NEW i \in ProIds, DeleteGame(i)
    PROVE  LibInv'
<1>1. /\ library' = [library EXCEPT ![i] = Absent] /\ imp' = Raced
      /\ UNCHANGED <<everIn, viewed, holder, site, saved, listed, missed, page, runs, refused>>
  BY DEF DeleteGame, siteVars
<1>2. \A q \in Importers : imp'[q] = Raced[q] /\ Raced[q] \in Runs
  BY <1>1, RacedRuns
<1>3. imp' \in [Importers -> Runs]
  <2>1. imp' = [q \in Importers |-> IF imp[q].at = "idle" THEN imp[q]
                                    ELSE [imp[q] EXCEPT !.raced = TRUE]]
    BY <1>1 DEF Raced
  <2>2. \A q \in Importers : (IF imp[q].at = "idle" THEN imp[q]
                              ELSE [imp[q] EXCEPT !.raced = TRUE]) \in Runs
    BY RacedRuns DEF Raced
  <2>. QED
    BY <2>1, <2>2
<1>4. LibTypes'
  BY <1>1, <1>3 DEF LibInv, LibTypes
<1>5. Filed' \subseteq Filed /\ \A j \in Filed' : library'[j] = library[j]
  BY <1>1 DEF Filed, LibInv, LibTypes
<1>6. TableInv'
  BY <1>1, <1>5 DEF LibInv, TableInv
<1>7. SiteInv' /\ site.version \in Nat /\ site'.version = site.version
  <2>1. site' = site /\ listed' = listed /\ saved' = saved /\ missed' = missed /\ everIn' = everIn
    BY <1>1
  <2>2. SiteInv'
    BY <2>1 DEF LibInv, SiteInv, SavedMeansImported
  <2>3. site.version \in Nat
    BY LibraryNumbers DEF LibInv, LibTypes
  <2>. QED
    BY <2>1, <2>2, <2>3
<1>8. ASSUME NEW q \in Importers
      PROVE  RunInv(q, imp[q])'
  <2>1. PICK r \in Runs : /\ r = imp'[q]
                          /\ (r = imp[q] /\ r.at = "idle") \/ r = [imp[q] EXCEPT !.raced = TRUE]
    BY <1>2, RacedRuns
  <2>2. RunInv(q, r)'
    BY <1>1, <1>7, <2>1, RunsGoOn
  <2>. QED
    BY <2>1, <2>2
<1>. QED
  BY <1>1, <1>4, <1>6, <1>7, <1>8 DEF LibInv

LEMMA ViewKeeps ==
    ASSUME LibInv, LibraryAssumption,
           \/ \E i \in ProIds : OpenPage(i)
           \/ CountView \/ SkipView \/ UNCHANGED libVars
    PROVE  LibInv'
<1>1. /\ UNCHANGED <<everIn, imp, holder, site, saved, listed, missed, refused>>
      /\ \/ UNCHANGED <<library, viewed, runs, page>>
         \/ /\ UNCHANGED <<library, viewed>> /\ page = Absent /\ page' \in ProIds
            /\ runs < MaxRuns /\ runs' = runs + 1
         \/ UNCHANGED <<library, viewed, runs>> /\ page # Absent /\ page' = Absent
         \/ /\ page # Absent /\ page \in Filed /\ page' = Absent /\ runs' = runs
            /\ library' = [library EXCEPT ![page].views = @ + 1]
            /\ viewed' = [viewed EXCEPT ![page] = @ + 1]
  BY DEF OpenPage, CountView, SkipView, libVars, siteVars, tableVars
<1>2. /\ runs \in Nat /\ runs <= MaxRuns /\ MaxRuns \in Nat /\ Absent \notin ProIds
      /\ Absent \notin Rows /\ \A i \in ProIds : viewed[i] \in Nat /\ viewed[i] <= MaxRuns
      /\ \A i \in Filed : library[i] \in Rows /\ i \in ProIds
  BY LibraryNumbers DEF LibInv, LibTypes, Filed
<1>3. /\ LibTypes' /\ TableInv'
      /\ Filed' = Filed /\ \A i \in Filed : library'[i].hash = library[i].hash
  <2>1. CASE UNCHANGED <<library, viewed, runs, page>>
    BY <1>1, <2>1 DEF LibInv, LibTypes, TableInv, Filed
  <2>2. CASE /\ UNCHANGED <<library, viewed>> /\ page = Absent /\ page' \in ProIds
             /\ runs < MaxRuns /\ runs' = runs + 1
    <3>1. Filed' = Filed /\ runs' \in 0..MaxRuns /\ page' # Absent
      BY <1>2, <2>2 DEF Filed
    <3>2. \A i \in ProIds : viewed[i] + 1 <= runs'
      BY <1>2, <2>2 DEF LibInv, TableInv
    <3>. QED
      BY <1>1, <2>2, <3>1, <3>2 DEF LibInv, LibTypes, TableInv
  <2>3. CASE UNCHANGED <<library, viewed, runs>> /\ page # Absent /\ page' = Absent
    <3>1. Filed' = Filed
      BY <2>3 DEF Filed
    <3>2. \A i \in ProIds : viewed[i] + 0 <= runs
      BY <1>2, <2>3 DEF LibInv, TableInv
    <3>. QED
      BY <1>1, <2>3, <3>1, <3>2 DEF LibInv, LibTypes, TableInv
  <2>4. CASE /\ page # Absent /\ page \in Filed /\ page' = Absent /\ runs' = runs
             /\ library' = [library EXCEPT ![page].views = @ + 1]
             /\ viewed' = [viewed EXCEPT ![page] = @ + 1]
    <3>1. PICK k \in Filed : k = page
      BY <2>4
    <3>2. PICK row \in Rows : row = library[k] /\ row.views = viewed[k]
      BY <1>2 DEF LibInv, TableInv
    <3>3. viewed[k] + 1 <= runs /\ \A i \in ProIds : i # k => viewed[i] + 0 <= runs
      BY <1>2, <2>4, <3>1 DEF LibInv, TableInv
    <3>4. PICK new : new = [row EXCEPT !.views = row.views + 1]
      OBVIOUS
    <3>5. /\ new \in Rows /\ new.hash = row.hash
          /\ new.views = viewed[k] + 1 /\ viewed[k] + 1 \in 0..MaxRuns
      BY <1>2, <3>1, <3>2, <3>3, <3>4 DEF Rows
    <3>6. /\ library' = [library EXCEPT ![k] = new]
          /\ viewed' = [viewed EXCEPT ![k] = viewed[k] + 1]
      BY <2>4, <3>1, <3>2, <3>4
    <3>7. /\ \A i \in ProIds : library'[i] = IF i = k THEN new ELSE library[i]
          /\ \A i \in ProIds : viewed'[i] = IF i = k THEN viewed[k] + 1 ELSE viewed[i]
          /\ library' \in [ProIds -> Rows \cup {Absent}] /\ viewed' \in [ProIds -> 0..MaxRuns]
      BY <1>2, <3>1, <3>5, <3>6 DEF LibInv, LibTypes
    <3>8. Filed' = Filed
      BY <1>2, <3>5, <3>7 DEF Filed
    <3>9. \A i \in Filed : library'[i].hash = library[i].hash /\ library'[i].views = viewed'[i]
      BY <1>2, <3>2, <3>5, <3>7 DEF LibInv, TableInv
    <3>10. \A i \in ProIds : viewed'[i] + 0 <= runs
      BY <1>2, <3>1, <3>3, <3>7
    <3>11. TableInv'
      BY <1>1, <2>4, <3>8, <3>9, <3>10 DEF LibInv, TableInv
    <3>12. LibTypes'
      BY <1>1, <1>2, <2>4, <3>7 DEF LibInv, LibTypes
    <3>. QED
      BY <3>8, <3>9, <3>11, <3>12
  <2>. QED
    BY <1>1, <2>1, <2>2, <2>3, <2>4
<1>4. SiteInv' /\ site.version \in Nat /\ site'.version = site.version
  BY <1>1, LibraryNumbers DEF LibInv, LibTypes, SiteInv, SavedMeansImported
<1>5. ASSUME NEW q \in Importers
      PROVE  RunInv(q, imp[q])'
  <2>1. PICK r \in Runs : r = imp[q] /\ r = imp'[q]
    BY <1>1 DEF LibInv, LibTypes
  <2>2. RunInv(q, r)'
    BY <1>1, <1>3, <1>4, <2>1, RunsGoOn
  <2>. QED
    BY <2>1, <2>2
<1>. QED
  BY <1>1, <1>3, <1>4, <1>5 DEF LibInv

(* The rows of a batch get new ids, one each.                              *)
LEMMA BatchOfRows ==
    ASSUME LibInv, LibraryAssumption, NEW p \in Importers
    PROVE  /\ Newest \in Nat /\ Cardinality(imp[p].adds) \in Nat
           /\ imp[p].adds = {} => Cardinality(imp[p].adds) = 0
           /\ DOMAIN NewRows(p) = Newest + 1 .. Newest + Cardinality(imp[p].adds)
           /\ \A i \in DOMAIN NewRows(p) : NewRows(p)[i] \in imp[p].adds /\ i \notin Filed
           /\ \A a \in imp[p].adds : \E i \in DOMAIN NewRows(p) : NewRows(p)[i] = a
<1>. DEFINE adds == imp[p].adds
            n == Cardinality(adds)
<1>1. IsFiniteSet(adds) /\ n \in Nat /\ (adds = {} => n = 0)
  BY FS_CardinalityType, FS_EmptySet DEF LibInv, RunInv
<1>2. Newest \in Nat /\ \A i \in Filed : i \in Nat /\ i <= Newest
  <2>1. MaxRows \in Nat /\ Filed \subseteq 1..MaxRows
    BY LibraryNumbers DEF Filed, ProIds
  <2>. QED
    BY <2>1, MaxOfIds DEF Newest
<1>. HIDE DEF n, adds
<1>3. PICK m \in Nat : m = Newest
  BY <1>2
<1>4. IsFiniteSet(m + 1 .. m + n) /\ Cardinality(m + 1 .. m + n) = n
  <2>1. m + 1 \in Int /\ m + n \in Int /\ (IF m + 1 > m + n THEN 0 ELSE (m + n) - (m + 1) + 1) = n
    BY <1>1
  <2>. QED
    BY <2>1, FS_Interval
<1>5. Bijection(m + 1 .. m + n, adds) # {}
  BY <1>1, <1>4, FS_SameCardinalityBij DEF ExistsBijection, n
<1>6. NewRows(p) = CHOOSE order \in Bijection(m + 1 .. m + n, adds) : TRUE
  BY <1>3 DEF NewRows, n, adds
<1>7. NewRows(p) \in Bijection(m + 1 .. m + n, adds)
  BY <1>5, <1>6
<1>8. /\ NewRows(p) \in [m + 1 .. m + n -> adds]
      /\ \A a \in adds : \E i \in m + 1 .. m + n : NewRows(p)[i] = a
  BY <1>7 DEF Bijection, Injection, Surjection
<1>9. \A i \in m + 1 .. m + n : i \notin Filed
  BY <1>1, <1>2, <1>3
<1>. QED
  BY <1>1, <1>2, <1>3, <1>8, <1>9 DEF n, adds

(* A batch that is let in: the rows it adds and those it changes.          *)
LEMMA CommitTable ==
    ASSUME LibInv, LibraryAssumption, NEW p \in Importers, Commit(p), ~Conflict(p)
    PROVE  /\ library' \in [ProIds -> Rows \cup {Absent}] /\ viewed' \in [ProIds -> 0..MaxRuns]
           /\ TableInv'
           /\ everIn \subseteq everIn' /\ \A a \in imp[p].adds : a.hash \in everIn'
           /\ imp[p].adds \cup imp[p].edits = {} => library' = library
<1>. DEFINE run == imp[p]
            N == NewRows(p)
            D == DOMAIN N
            EditOf(i) == CHOOSE e \in run.edits : e.id = i
<1>1. /\ Newest + Cardinality(run.adds) <= MaxRows
      /\ library' = [i \in ProIds |->
            IF i \in D THEN [hash |-> N[i].hash, round |-> N[i].round, views |-> 0]
            ELSE IF \E e \in run.edits : e.id = i THEN Edited(EditOf(i)) ELSE library[i]]
      /\ viewed' = [i \in ProIds |-> IF i \in D THEN 0 ELSE viewed[i]]
      /\ everIn' = everIn \cup {a.hash : a \in run.adds} \cup {e.hash : e \in run.edits}
      /\ UNCHANGED <<page, runs>>
  BY DEF Commit
<1>2. /\ D = Newest + 1 .. Newest + Cardinality(run.adds)
      /\ \A i \in D : N[i] \in run.adds /\ i \notin Filed
      /\ run.adds = {} => D = {}
  BY BatchOfRows
<1>3. /\ run \in Runs /\ library \in [ProIds -> Rows \cup {Absent}]
      /\ viewed \in [ProIds -> 0..MaxRuns]
  BY DEF LibInv, LibTypes
<1>4. \A i \in D : [hash |-> N[i].hash, round |-> N[i].round, views |-> 0] \in Rows
  BY <1>2, <1>3, LibraryNumbers DEF Runs, AddedRows, Rows
<1>5. \A e \in run.edits : /\ e.id \in Filed /\ e \in EditedRows /\ library[e.id] \in Rows
                           /\ Edited(e) \in Rows /\ Edited(e).hash = e.hash
                           /\ Edited(e).views = library[e.id].views
  <2>1. ASSUME NEW e \in run.edits
        PROVE  e \in EditedRows /\ e.id \in Filed /\ library[e.id] \in Rows
    BY <1>3 DEF Conflict, Filed, Runs, EditedRows
  <2>. QED
    BY <2>1 DEF Edited, Rows, EditedRows
<1>6. \A i : (\E e \in run.edits : e.id = i) => EditOf(i) \in run.edits /\ EditOf(i).id = i
  OBVIOUS
<1>. HIDE DEF run, N, D, EditOf
<1>7. library' \in [ProIds -> Rows \cup {Absent}]
  <2>1. ASSUME NEW i \in ProIds
        PROVE  (IF i \in D THEN [hash |-> N[i].hash, round |-> N[i].round, views |-> 0]
                ELSE IF \E e \in run.edits : e.id = i THEN Edited(EditOf(i)) ELSE library[i])
               \in Rows \cup {Absent}
    BY <1>3, <1>4, <1>5, <1>6
  <2>. QED
    BY <1>1, <2>1
<1>8. viewed' \in [ProIds -> 0..MaxRuns]
  BY <1>1, <1>3, LibraryNumbers
<1>9. \A i \in Filed' : /\ library'[i].views = viewed'[i]
                        /\ library'[i].hash[2] = "read" => library'[i].hash \in everIn'
  <2>. SUFFICES ASSUME NEW i \in Filed'
                PROVE  /\ library'[i].views = viewed'[i]
                       /\ library'[i].hash[2] = "read" => library'[i].hash \in everIn'
    OBVIOUS
  <2>1. i \in ProIds /\ library'[i] # Absent
    BY DEF Filed
  <2>2. CASE i \in D
    BY <1>1, <1>2, <2>1, <2>2
  <2>3. CASE i \notin D /\ \E e \in run.edits : e.id = i
    <3>1. PICK e \in run.edits : e = EditOf(i) /\ e.id = i
      BY <1>6, <2>3
    <3>2. library'[i] = Edited(e) /\ viewed'[i] = viewed[i] /\ e.hash \in everIn'
      BY <1>1, <2>1, <2>3, <3>1
    <3>3. library[i].views = viewed[i]
      BY <1>5, <3>1 DEF LibInv, TableInv
    <3>. QED
      BY <1>5, <3>1, <3>2, <3>3
  <2>4. CASE i \notin D /\ ~ \E e \in run.edits : e.id = i
    <3>1. library'[i] = library[i] /\ viewed'[i] = viewed[i] /\ i \in Filed
      BY <1>1, <2>1, <2>4 DEF Filed
    <3>2. /\ library[i].views = viewed[i]
          /\ library[i].hash[2] = "read" => library[i].hash \in everIn
      BY <3>1 DEF LibInv, TableInv
    <3>3. everIn \subseteq everIn'
      BY <1>1
    <3>. QED
      BY <3>1, <3>2, <3>3
  <2>. QED
    BY <2>2, <2>3, <2>4
<1>10. \A i \in ProIds : viewed'[i] + (IF page' = Absent THEN 0 ELSE 1) <= runs'
  <2>1. ASSUME NEW i \in ProIds
        PROVE  viewed'[i] + (IF page = Absent THEN 0 ELSE 1) <= runs
    <3>1. viewed[i] \in Nat /\ runs \in Nat /\ viewed'[i] \in Nat /\ viewed'[i] <= viewed[i]
      BY <1>1, <1>3, LibraryNumbers DEF LibInv, LibTypes
    <3>2. viewed[i] + (IF page = Absent THEN 0 ELSE 1) <= runs
      BY DEF LibInv, TableInv
    <3>. QED
      BY <3>1, <3>2
  <2>. QED
    BY <1>1, <2>1
<1>11. run.adds \cup run.edits = {} => library' = library
  <2>. SUFFICES ASSUME run.adds = {}, run.edits = {}
                PROVE  library' = library
    OBVIOUS
  <2>1. library' = [i \in ProIds |-> library[i]]
    BY <1>1, <1>2
  <2>. QED
    BY <1>3, <2>1
<1>. QED
  BY <1>1, <1>7, <1>8, <1>9, <1>10, <1>11 DEF TableInv, run

LEMMA CommitKeeps ==
    ASSUME LibInv, LibraryAssumption, NEW p \in Importers, Commit(p)
    PROVE  LibInv'
<1>1. CASE Conflict(p)
  <2>1. /\ imp[p].at = "read" /\ Refuse(p)
        /\ UNCHANGED <<library, everIn, viewed, site, listed, page, missed, saved, runs>>
    BY <1>1 DEF Commit, tableVars, siteVars
  <2>. QED
    BY <1>1, <2>1, RefuseKeeps
<1>2. CASE ~Conflict(p)
  <2>1. PICK run \in Runs : run = imp[p] /\ RunInv(p, run)
    BY DEF LibInv, LibTypes
  <2>. DEFINE done == CASE p = "ingest" -> [run EXCEPT !.at = "save"]
                        [] p = "seed" /\ run.rest # {} ->
                              [NotRunning EXCEPT !.at = "read", !.todo = run.rest,
                                                 !.seen = run.seen,
                                                 !.raced = run.raced]
                        [] OTHER -> NotRunning
              others == IF run.adds \cup run.edits = {} THEN imp ELSE Raced
  <2>2. /\ run.at = "read" /\ (run.todo = {} \/ (p = "ingest" /\ Cardinality(run.adds) = Cap))
        /\ imp' = [others EXCEPT ![p] = done] /\ FreeLock(p)
        /\ UNCHANGED <<site, saved, listed, missed, page, runs, refused>>
    BY <1>2, <2>1 DEF Commit, siteVars
  <2>3. PICK new \in Runs :
           /\ new = done
           /\ p = "ingest" => new = [run EXCEPT !.at = "save"]
           /\ p # "ingest" => new.adds = {} /\ new.edits = {}
    <3>1. CASE p = "ingest"
      <4>1. [run EXCEPT !.at = "save"] \in Runs
        BY DEF Runs
      <4>. QED
        BY <3>1, <4>1
    <3>2. CASE p = "seed" /\ run.rest # {}
      <4>. DEFINE next == [NotRunning EXCEPT !.at = "read", !.todo = run.rest, !.seen = run.seen,
                                             !.raced = run.raced]
      <4>1. next \in Runs /\ next.adds = {} /\ next.edits = {}
        BY LibraryNumbers DEF Runs, NotRunning
      <4>2. next = done
        BY <3>2
      <4>. HIDE DEF next, done
      <4>. QED
        BY <3>2, <4>1, <4>2
    <3>3. CASE p # "ingest" /\ ~(p = "seed" /\ run.rest # {})
      <4>1. done = NotRunning
        BY <3>3
      <4>2. NotRunning \in Runs /\ NotRunning.adds = {} /\ NotRunning.edits = {}
        BY LibraryNumbers DEF NotRunning
      <4>. HIDE DEF done
      <4>. QED
        BY <3>3, <4>1, <4>2
    <3>. QED
      BY <3>1, <3>2, <3>3
  <2>. HIDE DEF done
  <2>4. /\ library' \in [ProIds -> Rows \cup {Absent}] /\ viewed' \in [ProIds -> 0..MaxRuns]
        /\ TableInv' /\ everIn \subseteq everIn' /\ \A a \in run.adds : a.hash \in everIn'
        /\ run.adds \cup run.edits = {} => library' = library
    BY <1>2, <2>1, CommitTable
  <2>5. \A q \in Importers : others[q] \in Runs /\ others \in [Importers -> Runs]
    <3>1. \A q \in Importers : imp[q] \in Runs /\ Raced[q] \in Runs
      BY RacedRuns DEF LibInv, LibTypes
    <3>2. Raced \in [Importers -> Runs]
      <4>1. \A q \in Importers : (IF imp[q].at = "idle" THEN imp[q]
                                  ELSE [imp[q] EXCEPT !.raced = TRUE]) \in Runs
        BY RacedRuns DEF Raced
      <4>. QED
        BY <4>1 DEF Raced
    <3>. QED
      BY <3>1, <3>2 DEF LibInv, LibTypes
  <2>6. /\ imp' \in [Importers -> Runs]
        /\ \A q \in Importers : imp'[q] = IF q = p THEN new ELSE others[q]
    <3>. HIDE DEF others
    <3>. QED
      BY <2>2, <2>3, <2>5
  <2>7. holder' \in Importers \cup {Absent} /\ holder' # "ingest"
    BY <2>2, LockFreed, LibraryNumbers
  <2>8. LibTypes'
    BY <2>2, <2>4, <2>6, <2>7 DEF LibInv, LibTypes
  <2>9. SiteInv' /\ site.version \in Nat /\ site'.version = site.version
    <3>1. /\ site' = site /\ listed' = listed /\ saved' = saved /\ missed' = missed
          /\ everIn \subseteq everIn'
      BY <2>2, <2>4
    <3>2. SavedMeansImported'
      BY <3>1 DEF LibInv, SiteInv, SavedMeansImported
    <3>3. SiteInv'
      BY <3>1, <3>2 DEF LibInv, SiteInv
    <3>4. site.version \in Nat
      BY LibraryNumbers DEF LibInv, LibTypes
    <3>. QED
      BY <3>1, <3>3, <3>4
  <2>10. ASSUME NEW q \in Importers, q # p
         PROVE  RunInv(q, imp[q])'
    <3>1. PICK late \in Runs : late = others[q] /\ late = imp'[q]
      BY <2>5, <2>6, <2>10
    <3>2. CASE run.adds \cup run.edits = {}
      <4>1. late = imp[q] /\ library' = library /\ Filed' = Filed
        BY <2>4, <3>1, <3>2 DEF Filed
      <4>. QED
        BY <2>2, <2>4, <2>9, <3>1, <4>1, RunsGoOn
    <3>3. CASE run.adds \cup run.edits # {}
      <4>1. (late = imp[q] /\ late.at = "idle") \/ late = [imp[q] EXCEPT !.raced = TRUE]
        BY <3>1, <3>3, RacedRuns
      <4>. QED
        BY <2>2, <2>4, <2>9, <3>1, <4>1, RunsGoOn
    <3>. QED
      BY <3>2, <3>3
  <2>11. RunInv(p, new)'
    <3>1. CASE p # "ingest"
      <4>1. IsFiniteSet(new.adds) /\ Unopposed(new)'
        BY <2>3, <3>1, FS_EmptySet DEF Unopposed
      <4>. QED
        BY <2>3, <3>1, <4>1 DEF RunInv
    <3>2. CASE p = "ingest"
      <4>1. /\ new.at = "save" /\ new.adds = run.adds
            /\ new.edits = run.edits /\ new.seen = run.seen
            /\ new.version = run.version /\ new.dirty = run.dirty
        BY <2>3, <3>2 DEF Runs
      <4>2. Crawling(run) /\ IsFiniteSet(run.adds)
        BY <2>1, <3>2 DEF RunInv
      <4>3. \A h : Has(run, h) => h \in everIn'
        BY <2>4 DEF Has
      <4>4. Cardinality(run.adds) < Cap => run.todo = {}
        BY <2>2, <4>2, LibraryNumbers, FS_CardinalityType
      <4>5. Cardinality(new.adds) < Cap =>
               \A f \in listed'[new.version] \ missed' : HashOf(f) \in everIn'
        BY <2>2, <4>1, <4>2, <4>3, <4>4 DEF Crawling
      <4>6. Crawling(new)'
        BY <2>2, <4>1, <4>2, <4>3, <4>5 DEF Crawling, Has
      <4>. QED
        BY <2>1, <4>1, <4>2, <4>6 DEF RunInv
    <3>. QED
      BY <3>1, <3>2
  <2>12. \A q \in Importers : RunInv(q, imp[q])'
    <3>1. new = imp'[p]
      BY <2>6
    <3>. QED
      BY <2>10, <2>11, <3>1
  <2>. QED
    BY <2>2, <2>4, <2>7, <2>8, <2>9, <2>12 DEF LibInv
<1>. QED
  BY <1>1, <1>2

LEMMA LibraryInvariance == LibrarySpec => []LibInv
<1>1. LibraryInit => LibInv
  BY InitLibrary, LibraryAssumption
<1>2. LibInv /\ [LibraryNext]_libVars => LibInv'
  <2>. SUFFICES ASSUME LibInv, [LibraryNext]_libVars
                PROVE  LibInv'
    OBVIOUS
  <2>. USE LibraryAssumption
  <2>1. CASE \/ \E p \in Importers, files \in SUBSET Files : Start(p, files)
             \/ FetchIndex \/ StartRepair
    BY <2>1, LaunchKeeps
  <2>2. CASE \E p \in Importers : Read(p) \/ Commit(p) \/ Stops(p)
    BY <2>2, ReadKeeps, CommitKeeps, StopKeeps
  <2>3. CASE Unreadable \/ Crawl \/ Save
    BY <2>3, CrawlKeeps
  <2>4. CASE \E f \in Files, v \in 1..MaxIndex : Publish(f, v)
    BY <2>4, PublishKeeps
  <2>5. CASE \E i \in ProIds : DeleteGame(i)
    BY <2>5, DeleteGameKeeps
  <2>6. CASE (\E i \in ProIds : OpenPage(i)) \/ CountView \/ SkipView \/ UNCHANGED libVars
    BY <2>6, ViewKeeps
  <2>. QED
    BY <2>1, <2>2, <2>3, <2>4, <2>5, <2>6 DEF LibraryNext
<1>. QED
  BY <1>1, <1>2, PTL DEF LibrarySpec

(* The importers keep the hash unique by themselves: the database refuses  *)
(* a batch only if somebody else committed while it was made.              *)
THEOREM HashesKeptUnique == LibrarySpec => []RefusedOnlyByRace
<1>1. LibInv => RefusedOnlyByRace
  BY DEF LibInv, RefusedOnlyByRace
<1>. QED
  BY <1>1, LibraryInvariance, PTL

(* Once the hash of an index page is saved, all it led to that could be    *)
(* read has been in the library, whatever was capped, stopped or refused.  *)
THEOREM NothingIsSkipped == LibrarySpec => []SavedMeansImported
<1>1. LibInv => SavedMeansImported
  BY DEF LibInv, SiteInv
<1>. QED
  BY <1>1, LibraryInvariance, PTL

(* The ingest never holds the write lock, and no import sets a count back. *)
THEOREM ImportersStandAside == LibrarySpec => []ImportsDisturbNobody
<1>1. LibInv => ImportsDisturbNobody
  BY DEF LibInv, TableInv, ImportsDisturbNobody, NoLockWhileFetching, ViewsKept
<1>. QED
  BY <1>1, LibraryInvariance, PTL

-----------------------------------------------------------------------------
(* The daily challenge.                                                    *)

(* The eight symmetries stay on the board and keep its shape.              *)
LEMMA TransformStays ==
  ASSUME NEW size \in Nat, NEW t \in Symmetries, NEW p \in Board(size)
  PROVE  Transform(p, size, t) \in Board(size)
<1>1. PICK x \in 0..(size - 1), y \in 0..(size - 1) : p = <<x, y>>
  BY DEF Board
<1>2. t \in {0, 1, 2, 3, 4, 5, 6, 7}
  BY DEF Symmetries
<1> QED
  BY <1>1, <1>2 DEF Board, Transform, LastLine

LEMMA TransformIsInjective ==
  ASSUME NEW size \in Nat, NEW t \in Symmetries, NEW p \in Board(size), NEW q \in Board(size),
         Transform(p, size, t) = Transform(q, size, t)
  PROVE  p = q
<1>1. PICK x \in 0..(size - 1), y \in 0..(size - 1) : p = <<x, y>>
  BY DEF Board
<1>2. PICK v \in 0..(size - 1), w \in 0..(size - 1) : q = <<v, w>>
  BY DEF Board
<1>3. t \in {0, 1, 2, 3, 4, 5, 6, 7}
  BY DEF Symmetries
<1>4. x = v /\ y = w
  BY <1>1, <1>2, <1>3 DEF Transform, LastLine
<1> QED
  BY <1>1, <1>2, <1>4

LEMMA TransformKeepsContact ==
  ASSUME NEW size \in Nat, NEW t \in Symmetries, NEW p \in Board(size), NEW q \in Board(size)
  PROVE  Neighbours(Transform(p, size, t), Transform(q, size, t)) <=> Neighbours(p, q)
<1>1. PICK x \in 0..(size - 1), y \in 0..(size - 1) : p = <<x, y>>
  BY DEF Board
<1>2. PICK v \in 0..(size - 1), w \in 0..(size - 1) : q = <<v, w>>
  BY DEF Board
<1>3. Neighbours(p, q) <=>
         \/ x = v /\ (y = w + 1 \/ w = y + 1)
         \/ y = w /\ (x = v + 1 \/ v = x + 1)
  BY <1>1, <1>2 DEF Neighbours
<1>4. CASE t = 0
  BY <1>1, <1>2, <1>3, <1>4 DEF Transform, LastLine, Neighbours
<1>5. CASE t = 1
  BY <1>1, <1>2, <1>3, <1>5 DEF Transform, LastLine, Neighbours
<1>6. CASE t = 2
  BY <1>1, <1>2, <1>3, <1>6 DEF Transform, LastLine, Neighbours
<1>7. CASE t = 3
  BY <1>1, <1>2, <1>3, <1>7 DEF Transform, LastLine, Neighbours
<1>8. CASE t = 4
  BY <1>1, <1>2, <1>3, <1>8 DEF Transform, LastLine, Neighbours
<1>9. CASE t = 5
  BY <1>1, <1>2, <1>3, <1>9 DEF Transform, LastLine, Neighbours
<1>10. CASE t = 6
  BY <1>1, <1>2, <1>3, <1>10 DEF Transform, LastLine, Neighbours
<1>11. CASE t = 7
  BY <1>1, <1>2, <1>3, <1>11 DEF Transform, LastLine, Neighbours
<1> QED
  BY <1>4, <1>5, <1>6, <1>7, <1>8, <1>9, <1>10, <1>11 DEF Symmetries

LEMMA TransformKeepsEdge ==
  ASSUME NEW size \in Nat, NEW t \in Symmetries, NEW p \in Board(size)
  PROVE  Edge(Transform(p, size, t), size) <=> Edge(p, size)
<1>1. PICK x \in 0..(size - 1), y \in 0..(size - 1) : p = <<x, y>>
  BY DEF Board
<1>2. t \in {0, 1, 2, 3, 4, 5, 6, 7}
  BY DEF Symmetries
<1> QED
  BY <1>1, <1>2 DEF Transform, LastLine, Edge

LEMMA ThereAndBack ==
  ASSUME NEW size \in Nat, NEW p \in Board(size)
  PROVE  ToXY(ToGtp(p, size), size) = p
<1>1. PICK x \in 0..(size - 1), y \in 0..(size - 1) : p = <<x, y>>
  BY DEF Board
<1> QED
  BY <1>1 DEF ToXY, ToGtp

-----------------------------------------------------------------------------
(* Where the stones of a variant are.                                      *)
LEMMA VariantStones ==
  ASSUME CatalogueIsSound, NEW k \in DOMAIN Challenges, NEW t \in Symmetries
  PROVE  LET base == Challenges[k]
             size == base.size
             v == Variant(k, t)
         IN  /\ v.base = k /\ v.turn = t
             /\ v.id = <<base.name, IF t = 0 THEN Whole ELSE t>>
             /\ DOMAIN v.setup = DOMAIN base.setup
             /\ \A n \in DOMAIN base.setup :
                   ToXY(v.setup[n].point, size) = Transform(ToXY(base.setup[n].point, size), size, t)
<1> DEFINE base == Challenges[k]
           size == base.size
           v == Variant(k, t)
<1>1. size \in Nat
  BY DEF CatalogueIsSound
<1>2. ASSUME NEW n \in DOMAIN base.setup
      PROVE  base.setup[n] \in Stones /\ ToXY(base.setup[n].point, size) \in Board(size)
  BY <1>2 DEF CatalogueIsSound
<1>3. CASE t = 0
  <2>1. v = [id |-> <<base.name, Whole>>, base |-> k, turn |-> 0, setup |-> base.setup]
    BY <1>3 DEF Variant
  <2>2. \A p : Transform(<<p[1], p[2]>>, size, 0) = <<p[1], p[2]>>
    BY DEF Transform
  <2>3. ASSUME NEW n \in DOMAIN base.setup
        PROVE  ToXY(base.setup[n].point, size) = Transform(ToXY(base.setup[n].point, size), size, 0)
    BY DEF ToXY, Transform
  <2> QED
    BY <2>1, <2>3, <1>3
<1>4. CASE t # 0
  <2> DEFINE moved(c) == ToGtp(Transform(ToXY(c, size), size, t), size)
             turned == [n \in DOMAIN base.setup |-> [base.setup[n] EXCEPT !.point = moved(@)]]
  <2>1. v = [id |-> <<base.name, t>>, base |-> k, turn |-> t, setup |-> turned]
    BY <1>4 DEF Variant
  <2>2. ASSUME NEW n \in DOMAIN base.setup
        PROVE  turned[n].point = moved(base.setup[n].point)
    BY <1>2 DEF Stones
  <2>3. ASSUME NEW n \in DOMAIN base.setup
        PROVE  ToXY(moved(base.setup[n].point), size)
                  = Transform(ToXY(base.setup[n].point, size), size, t)
    BY <1>1, <1>2, TransformStays, ThereAndBack
  <2> HIDE DEF moved
  <2>4. DOMAIN turned = DOMAIN base.setup
    OBVIOUS
  <2>5. /\ v.base = k /\ v.turn = t /\ v.id = <<base.name, t>> /\ v.setup = turned
    BY <2>1
  <2> HIDE DEF turned, v
  <2> QED
    BY <2>2, <2>3, <2>4, <2>5, <1>4 DEF v
<1> QED
  BY <1>3, <1>4

(* The id under which a variant is sent out finds the same variant.        *)
LEMMA IdLeadsBack ==
  ASSUME CatalogueIsSound, NEW k \in DOMAIN Challenges, NEW t \in Symmetries
  PROVE  GetById(Variant(k, t).id) = Variant(k, t)
<1> DEFINE id == Variant(k, t).id
<1>1. id = <<Challenges[k].name, IF t = 0 THEN Whole ELSE t>>
  BY VariantStones
<1>2. SplitId(id) = <<Challenges[k].name, t>>
  <2>1. t \in {0, 1, 2, 3, 4, 5, 6, 7}
    BY DEF Symmetries
  <2> HIDE DEF id
  <2> QED
    BY <1>1, <2>1 DEF SplitId, Whole, Symmetries
<1>3. Named(Challenges[k].name) = {k}
  BY DEF Named, CatalogueIsSound
<1> HIDE DEF id
<1>4. GetById(id) = Variant(CHOOSE j \in {k} : TRUE, t)
  BY <1>2, <1>3 DEF GetById
<1>5. (CHOOSE j \in {k} : TRUE) = k
  OBVIOUS
<1> QED
  BY <1>4, <1>5 DEF id

-----------------------------------------------------------------------------
(* Whatever is or was on a screen is a variant of some base.               *)
IsVariant(id, stones) ==
    \E k \in DOMAIN Challenges, t \in Symmetries :
        id = Variant(k, t).id /\ stones = Replayed(Variant(k, t))

PuzzleInv ==
    /\ day \in 0..MaxDay /\ asked \in 0..MaxAsked
    /\ screen # NoPuzzle =>
          \E k \in DOMAIN Challenges, t \in Symmetries : screen = Variant(k, t)
    /\ \A o \in open : IsVariant(o.id, o.stones)
    /\ GradedAsShown

LEMMA InitPuzzles == PuzzlesInit => PuzzleInv
  BY PuzzlesAssumption DEF PuzzlesInit, PuzzleInv, GradedAsShown

LEMMA ShowInv ==
  ASSUME PuzzleInv, NEW k \in DOMAIN Challenges, NEW t \in Symmetries,
         asked < MaxAsked, Show(Variant(k, t)), reply'.kind # "graded", UNCHANGED day
  PROVE  PuzzleInv'
<1> DEFINE v == Variant(k, t)
           shown == [id |-> v.id, stones |-> Replayed(v)]
<1>1. /\ screen' = v /\ open' = open \cup {shown}
      /\ asked' = asked + 1 /\ day' = day
  BY DEF Show
<1>2. shown.id = v.id /\ shown.stones = Replayed(v)
  OBVIOUS
<1>3. IsVariant(v.id, Replayed(v))
  BY DEF IsVariant
<1> HIDE DEF shown
<1>4. \A o \in open' : IsVariant(o.id, o.stones)
  BY <1>1, <1>2, <1>3 DEF PuzzleInv
<1>5. GradedAsShown'
  BY DEF GradedAsShown
<1>6. asked' \in 0..MaxAsked
  BY <1>1, PuzzlesAssumption DEF PuzzleInv
<1>7. screen' = Variant(k, t)
  BY <1>1
<1> QED
  BY <1>1, <1>4, <1>5, <1>6, <1>7 DEF PuzzleInv

LEMMA PicksAreVariants ==
  ASSUME NEW found \in SUBSET DOMAIN Challenges, NEW id, NEW v \in Picks(found, id)
  PROVE  \E k \in found, t \in Symmetries : v = Variant(k, t)
  BY DEF Picks, OtherBases, OtherTurns

LEMMA FoundAreBases ==
  ASSUME NEW found \in Filtered
  PROVE  found \in SUBSET DOMAIN Challenges
  BY DEF Filtered, Matches

LEMMA RandomInv ==
  ASSUME PuzzleInv, NEW found \in Filtered, NEW next \in BOOLEAN, RandomChallenge(found, next)
  PROVE  PuzzleInv'
<1>1. CASE found = {}
  <2>1. reply'.kind # "graded" /\ UNCHANGED <<day, screen, open, asked>>
    BY <1>1 DEF RandomChallenge
  <2> QED
    BY <2>1 DEF PuzzleInv, GradedAsShown, IsVariant
<1>2. CASE found # {}
  <2>1. PICK v : /\ \E id : v \in Picks(found, id)
                 /\ asked < MaxAsked /\ Show(v) /\ UNCHANGED day
    BY <1>2 DEF RandomChallenge
  <2>2. PICK k \in DOMAIN Challenges, t \in Symmetries : v = Variant(k, t)
    BY <2>1, PicksAreVariants, FoundAreBases
  <2>3. reply'.kind # "graded"
    BY <1>2 DEF RandomChallenge
  <2> QED
    BY <2>1, <2>2, <2>3, ShowInv
<1> QED
  BY <1>1, <1>2

(* The heart of it: the id in the request is looked up anew, and finds the *)
(* variant that was sent out.                                              *)
LEMMA GradeInv ==
  ASSUME CatalogueIsSound, PuzzleInv, NEW id, GradeAnswer(id)
  PROVE  PuzzleInv'
<1>1. UNCHANGED <<day, screen, open, asked>>
  BY DEF GradeAnswer
<1>2. GradedAsShown'
  <2> SUFFICES ASSUME reply'.kind = "graded", NEW o \in open, o.id = reply'.id
               PROVE  o.stones = reply'.stones
    BY <1>1 DEF GradedAsShown
  <2>1. reply'.id = id /\ reply'.stones = Replayed(GetById(id))
    <3>1. CASE GetById(id) = NoPuzzle
      BY <3>1 DEF GradeAnswer
    <3>2. CASE GetById(id) # NoPuzzle
      BY <3>2 DEF GradeAnswer
    <3> QED
      BY <3>1, <3>2
  <2>2. PICK k \in DOMAIN Challenges, t \in Symmetries :
          o.id = Variant(k, t).id /\ o.stones = Replayed(Variant(k, t))
    BY DEF PuzzleInv, IsVariant
  <2>3. GetById(id) = Variant(k, t)
    BY <2>1, <2>2, IdLeadsBack
  <2> QED
    BY <2>1, <2>2, <2>3
<1> QED
  BY <1>1, <1>2 DEF PuzzleInv, IsVariant

LEMMA PuzzleSteps ==
  ASSUME CatalogueIsSound, PuzzleInv, [PuzzlesNext]_puzzleVars
  PROVE  PuzzleInv'
<1>1. CASE Midnight
  BY <1>1, PuzzlesAssumption DEF Midnight, PuzzleInv, GradedAsShown, IsVariant
<1>2. CASE TodaysChallenge
  <2>1. DailyIndex(day) \in DOMAIN Challenges
    <3>1. Challenges \in Seq(Range(Challenges)) /\ Challenges # <<>> /\ day \in Nat
      BY PuzzlesAssumption DEF CatalogueIsSound, PuzzleInv
    <3>2. Len(Challenges) \in Nat \ {0} /\ DOMAIN Challenges = 1..Len(Challenges)
      BY <3>1
    <3> QED
      BY <3>1, <3>2 DEF DailyIndex
  <2>2. 0 \in Symmetries
    BY DEF Symmetries
  <2>3. asked < MaxAsked /\ Show(Variant(DailyIndex(day), 0)) /\ reply'.kind # "graded"
        /\ UNCHANGED day
    BY <1>2 DEF TodaysChallenge
  <2> QED
    BY <2>1, <2>2, <2>3, ShowInv
<1>3. ASSUME NEW found \in Filtered, NEW next \in BOOLEAN, RandomChallenge(found, next)
      PROVE  PuzzleInv'
  BY <1>3, RandomInv
<1>4. ASSUME NEW id, GradeAnswer(id)
      PROVE  PuzzleInv'
  BY <1>4, GradeInv
<1>5. CASE UNCHANGED puzzleVars
  BY <1>5 DEF puzzleVars, PuzzleInv, GradedAsShown, IsVariant
<1> QED
  BY <1>1, <1>2, <1>3, <1>4, <1>5 DEF PuzzlesNext

LEMMA InvPlaysLikeBase ==
  ASSUME CatalogueIsSound, PuzzleInv
  PROVE  PlaysLikeBase
<1> SUFFICES ASSUME screen # NoPuzzle
             PROVE  PlaysLikeBase
  BY DEF PlaysLikeBase
<1>1. PICK k \in DOMAIN Challenges, t \in Symmetries : screen = Variant(k, t)
  BY DEF PuzzleInv
<1> DEFINE base == Challenges[k]
           size == base.size
           new(n) == ToXY(screen.setup[n].point, size)
           old(n) == ToXY(base.setup[n].point, size)
<1>2. screen.base = k /\ DOMAIN screen.setup = DOMAIN base.setup
  BY <1>1, VariantStones
<1>3. ASSUME NEW n \in DOMAIN base.setup
      PROVE  new(n) = Transform(old(n), size, t) /\ old(n) \in Board(size)
  BY <1>1, <1>3, VariantStones DEF CatalogueIsSound
<1>4. size \in Nat
  BY DEF CatalogueIsSound
<1>5. ASSUME NEW m \in DOMAIN base.setup, NEW n \in DOMAIN base.setup, m # n
      PROVE  old(m) # old(n)
  <2>1. base.setup[m].point # base.setup[n].point
    BY <1>5 DEF CatalogueIsSound
  <2>2. base.setup[m].point \in Int \X Int /\ base.setup[n].point \in Int \X Int
    BY DEF CatalogueIsSound, Stones
  <2> QED
    BY <1>4, <2>1, <2>2 DEF ToXY
<1> HIDE DEF new, old, size
<1>6. ASSUME NEW m \in DOMAIN base.setup, NEW n \in DOMAIN base.setup
      PROVE  /\ m # n => new(m) # new(n)
             /\ Neighbours(new(m), new(n)) <=> Neighbours(old(m), old(n))
             /\ Edge(new(m), size) <=> Edge(old(m), size)
  <2>1. m # n => new(m) # new(n)
    BY <1>3, <1>4, <1>5, TransformIsInjective
  <2>2. Neighbours(new(m), new(n)) <=> Neighbours(old(m), old(n))
    BY <1>3, <1>4, TransformKeepsContact
  <2>3. Edge(new(m), size) <=> Edge(old(m), size)
    BY <1>3, <1>4, TransformKeepsEdge
  <2> QED
    BY <2>1, <2>2, <2>3
<1> QED
  BY <1>2, <1>6 DEF PlaysLikeBase, new, old, size

(* The next puzzle after a variant of a base.                              *)
LEMMA PickIsAnother ==
  ASSUME CatalogueIsSound, NEW k \in DOMAIN Challenges, NEW t \in Symmetries,
         NEW found \in SUBSET DOMAIN Challenges, Variant(k, t).id # NoPuzzle,
         NEW v \in Picks(found, Variant(k, t).id)
  PROVE  /\ v.id # Variant(k, t).id
         /\ v.base = k => found = {k} /\ v.turn # t
<1> DEFINE id == Variant(k, t).id
<1>1. id = <<Challenges[k].name, IF t = 0 THEN Whole ELSE t>>
  BY VariantStones
<1>2. SplitId(id) = <<Challenges[k].name, t>>
  <2>1. t \in {0, 1, 2, 3, 4, 5, 6, 7}
    BY DEF Symmetries
  <2> HIDE DEF id
  <2> QED
    BY <1>1, <2>1 DEF SplitId, Whole, Symmetries
<1> HIDE DEF id
<1>3. OtherBases(found, id) = found \ {k}
  BY <1>2 DEF OtherBases, CatalogueIsSound
<1>4. OtherTurns(id) = Symmetries \ {t}
  BY <1>2 DEF OtherTurns
<1>5. CASE found \ {k} # {}
  <2>1. PICK j \in found \ {k}, u \in Symmetries : v = Variant(j, u)
    BY <1>3, <1>5 DEF Picks, id
  <2>2. Challenges[j].name # Challenges[k].name
    BY <2>1 DEF CatalogueIsSound
  <2>3. v.id = <<Challenges[j].name, IF u = 0 THEN Whole ELSE u>> /\ v.base = j
    BY <2>1, VariantStones
  <2> QED
    BY <2>1, <2>2, <2>3, <1>1 DEF id
<1>6. CASE found \ {k} = {}
  <2>1. PICK j \in found, u \in Symmetries \ {t} : v = Variant(j, u)
    BY <1>3, <1>4, <1>6 DEF Picks, id
  <2>2. j = k /\ found = {k}
    BY <2>1, <1>6
  <2>3. v.id = <<Challenges[k].name, IF u = 0 THEN Whole ELSE u>> /\ v.base = k /\ v.turn = u
    BY <2>1, <2>2, VariantStones
  <2>4. (IF u = 0 THEN Whole ELSE u) # (IF t = 0 THEN Whole ELSE t)
    BY <2>1 DEF Symmetries, Whole
  <2>5. v.id # id
    BY <2>3, <2>4, <1>1
  <2> QED
    BY <2>1, <2>2, <2>3, <2>5 DEF id
<1> QED
  BY <1>5, <1>6

NextDiffers ==
    reply'.kind = "next" =>
        /\ screen'.id # screen.id
        /\ screen'.base = screen.base => reply'.found = {screen.base} /\ screen'.turn # screen.turn

LEMMA StepDiffers ==
  ASSUME CatalogueIsSound, PuzzleInv, [PuzzlesNext]_puzzleVars
  PROVE  [NextDiffers]_<<screen, asked>>
<1>1. CASE Midnight \/ (\E id : GradeAnswer(id)) \/ UNCHANGED puzzleVars
  BY <1>1 DEF Midnight, GradeAnswer, puzzleVars
<1>2. CASE TodaysChallenge
  <2>1. reply'.kind = "today"
    BY <1>2 DEF TodaysChallenge
  <2> QED
    BY <2>1 DEF NextDiffers
<1>3. ASSUME NEW found \in Filtered, NEW next \in BOOLEAN, RandomChallenge(found, next)
      PROVE  [NextDiffers]_<<screen, asked>>
  <2> SUFFICES ASSUME found # {}, reply'.kind = "next"
               PROVE  NextDiffers
    BY <1>3 DEF RandomChallenge, NextDiffers
  <2>1. next /\ screen # NoPuzzle /\ screen.id # NoPuzzle /\ reply' = [kind |-> "next", found |-> found]
    BY <1>3 DEF RandomChallenge
  <2>2. PICK v \in Picks(found, screen.id) : screen' = v
    BY <1>3, <2>1 DEF RandomChallenge, Show
  <2>3. PICK k \in DOMAIN Challenges, t \in Symmetries : screen = Variant(k, t)
    BY <2>1 DEF PuzzleInv
  <2>4. screen.base = k /\ screen.turn = t
    BY <2>3, VariantStones
  <2>5. /\ v.id # screen.id
        /\ v.base = k => found = {k} /\ v.turn # t
    BY <2>1, <2>2, <2>3, FoundAreBases, PickIsAnother
  <2>6. reply'.found = found
    BY <2>1
  <2> QED
    BY <2>2, <2>4, <2>5, <2>6 DEF NextDiffers
<1> QED
  BY <1>1, <1>2, <1>3 DEF PuzzlesNext

LEMMA PuzzleInvariance == CatalogueIsSound => (PuzzlesSpec => []PuzzleInv)
<1>1. CatalogueIsSound /\ PuzzleInv /\ [PuzzlesNext]_puzzleVars => PuzzleInv'
  BY PuzzleSteps
<1> SUFFICES ASSUME CatalogueIsSound
             PROVE  PuzzlesSpec => []PuzzleInv
  OBVIOUS
<1>2. PuzzleInv /\ [PuzzlesNext]_puzzleVars => PuzzleInv'
  BY <1>1
<1> QED
  BY <1>2, InitPuzzles, PTL DEF PuzzlesSpec

(* For every sound catalogue an answer is graded on the position its       *)
(* browser shows, whichever variant it shows and since whenever.           *)
THEOREM GradesWhatIsShown ==
  ASSUME CatalogueIsSound
  PROVE  PuzzlesSpec => []GradedAsShown
<1>1. PuzzleInv => GradedAsShown
  BY DEF PuzzleInv
<1> QED
  BY <1>1, PuzzleInvariance, PTL

(* On boards of every size each of the eight variants of a puzzle has the  *)
(* contacts, edges and distinct points of its base.                        *)
THEOREM VariantsPlayAlike ==
  ASSUME CatalogueIsSound
  PROVE  PuzzlesSpec => []PlaysLikeBase
<1>1. PuzzleInv => PlaysLikeBase
  BY InvPlaysLikeBase
<1> QED
  BY <1>1, PuzzleInvariance, PTL

(* "Next puzzle" never repeats the one on the screen.                      *)
THEOREM NextNeverRepeats ==
  ASSUME CatalogueIsSound
  PROVE  PuzzlesSpec => NextIsAnother
<1>1. PuzzleInv /\ [PuzzlesNext]_puzzleVars => [NextDiffers]_<<screen, asked>>
  BY StepDiffers
<1> QED
  BY <1>1, PuzzleInvariance, PTL DEF PuzzlesSpec, NextIsAnother, NextDiffers


-----------------------------------------------------------------------------
(* The search console.                                                     *)

QueryRows == GoogleRows \cup NaverRows
GoogleOf(table, k) == {r \in table : r.source = "google" /\ r.key = k}
NaverOf(table) == {r \in table : r.source = "naver"}

(* A table has one row of each key with a figure, and the naver rows of    *)
(* one upload.                                                             *)
GoogleRow(k, n) == IF n = 0 THEN {} ELSE {[source |-> "google", key |-> k, clicks |-> n]}
Figures(table, f) == \A k \in GoogleKeys : GoogleOf(table, k) = GoogleRow(k, f[k])
OneImport(table) == \A r, s \in NaverOf(table) : r.import = s.import

(* The figures of the table when the job has merged a sheet.               *)
FetchedWith(sheet) ==
    [k \in GoogleKeys |-> IF \E r \in sheet : r.key = k
                          THEN (CHOOSE r \in sheet : r.key = k).clicks ELSE fetched[k]]

ConsoleTypes ==
    /\ date \in Dates /\ google \in [GoogleKeys -> 0..MaxFigure]
    /\ fetched \in [GoogleKeys -> Nat]
    /\ rows \in SUBSET QueryRows
    /\ imports \in 0..MaxImports
    /\ writer \in [who: Uploads \cup {"job", NoWriter}, rows: SUBSET QueryRows]
    /\ job \in [at: {"idle", "merge"}, todo: Seq(GoogleRows), sheet: SUBSET GoogleRows]
    /\ upload \in [Uploads -> [at: {"idle", "delete", "commit"}, todo: {<<>>},
                               sheet: SUBSET NaverRows]]

(* No key is listed twice, and none that is merged is still to do.         *)
KeysOnce(todo, sheet) ==
    /\ \A r, s \in sheet : r.key = s.key => r = s
    /\ \A n, m \in DOMAIN todo : todo[n].key = todo[m].key => n = m
    /\ \A n \in DOMAIN todo : \A r \in sheet : r.key # todo[n].key

(* The job holds the lock from its first row on; its table is the          *)
(* committed one with the sheet merged.                                    *)
JobInv ==
    /\ writer.who = "job" =>
          /\ job.at = "merge"
          /\ NaverOf(writer.rows) = NaverOf(rows)
          /\ Figures(writer.rows, FetchedWith(job.sheet))
    /\ writer.who = "job" \/ job.sheet = {}
    /\ job.at = "merge" => KeysOnce(job.todo, job.sheet)

(* An upload holds the lock from its DELETE on.                            *)
UploadInv(u) ==
    /\ upload[u].at = "commit" <=> writer.who = u
    /\ writer.who = u => writer.rows = Others(rows)
    /\ OneImport(upload[u].sheet)

ConsoleInv ==
    /\ ConsoleTypes
    /\ Figures(rows, fetched) /\ OneImport(rows)
    /\ JobInv
    /\ \A u \in Uploads : UploadInv(u)

-----------------------------------------------------------------------------
(* Tables.                                                                 *)

LEMMA RowKinds ==
    /\ \A r \in GoogleRows : r.source = "google" /\ r.key \in GoogleKeys
                             /\ r.clicks \in Nat \ {0}
                             /\ r = [source |-> "google", key |-> r.key, clicks |-> r.clicks]
    /\ \A r \in NaverRows : r.source = "naver"
    /\ \A r \in QueryRows : r.source = "naver" => r \in NaverRows
    /\ \A r \in QueryRows : r.source = "google" => r \in GoogleRows
  BY DEF GoogleRows, NaverRows, QueryRows

(* An upload leaves Google's rows, the job Naver's.                        *)
LEMMA SnapshotReplaced ==
    ASSUME NEW table \in SUBSET QueryRows, NEW sheet \in SUBSET NaverRows, NEW f,
           Figures(table, f), OneImport(sheet)
    PROVE  /\ Others(table) \in SUBSET QueryRows
           /\ Others(table) \cup sheet \in SUBSET QueryRows
           /\ Figures(Others(table) \cup sheet, f)
           /\ OneImport(Others(table) \cup sheet)
<1>1. \A k : GoogleOf(Others(table) \cup sheet, k) = GoogleOf(table, k)
  BY RowKinds DEF GoogleOf, Others
<1>2. NaverOf(Others(table) \cup sheet) = NaverOf(sheet)
  BY RowKinds DEF NaverOf, Others
<1>. QED
  BY <1>1, <1>2 DEF Figures, OneImport, Others, QueryRows

LEMMA RowMerged ==
    ASSUME NEW table \in SUBSET QueryRows, NEW r \in GoogleRows
    PROVE  /\ Merged(table, r) \in SUBSET QueryRows
           /\ NaverOf(Merged(table, r)) = NaverOf(table)
           /\ GoogleOf(Merged(table, r), r.key) = {r}
           /\ \A k \in GoogleKeys \ {r.key} : GoogleOf(Merged(table, r), k) = GoogleOf(table, k)
  BY RowKinds DEF Merged, NaverOf, GoogleOf, QueryRows

(* A sheet's figure for a key is the one its only row of that key has.     *)
LEMMA SheetsFigure ==
    ASSUME NEW sheet \in SUBSET GoogleRows, \A r, s \in sheet : r.key = s.key => r = s,
           NEW k \in GoogleKeys
    PROVE  /\ \A r \in sheet : r.key = k => FetchedWith(sheet)[k] = r.clicks
           /\ (\A r \in sheet : r.key # k) => FetchedWith(sheet)[k] = fetched[k]
<1>1. ASSUME NEW r \in sheet, r.key = k
      PROVE  (CHOOSE s \in sheet : s.key = k) = r
  BY <1>1
<1>. QED
  BY <1>1 DEF FetchedWith

LEMMA SheetsFigures ==
    ASSUME NEW sheet \in SUBSET GoogleRows, \A r, s \in sheet : r.key = s.key => r = s,
           fetched \in [GoogleKeys -> Nat]
    PROVE  FetchedWith(sheet) \in [GoogleKeys -> Nat]
<1>1. ASSUME NEW k \in GoogleKeys
      PROVE  FetchedWith(sheet)[k] \in Nat
  BY SheetsFigure, RowKinds
<1>. QED
  BY <1>1 DEF FetchedWith

(* One more row merged: one more figure of the sheet.                      *)
LEMMA SheetGrows ==
    ASSUME NEW table \in SUBSET QueryRows, NEW sheet \in SUBSET GoogleRows, NEW r \in GoogleRows,
           Figures(table, FetchedWith(sheet)),
           \A x, y \in sheet : x.key = y.key => x = y,
           \A x \in sheet : x.key # r.key
    PROVE  Figures(Merged(table, r), FetchedWith(sheet \cup {r}))
<1>. DEFINE grown == sheet \cup {r}
<1>1. grown \in SUBSET GoogleRows /\ \A x, y \in grown : x.key = y.key => x = y
  OBVIOUS
<1>. SUFFICES ASSUME NEW k \in GoogleKeys
              PROVE  GoogleOf(Merged(table, r), k) = GoogleRow(k, FetchedWith(grown)[k])
  BY DEF Figures
<1>2. CASE k = r.key
  <2>1. FetchedWith(grown)[k] = r.clicks
    BY <1>1, <1>2, SheetsFigure
  <2>. QED
    BY <1>2, <2>1, RowMerged, RowKinds, ZenonT(60) DEF GoogleRow
<1>3. CASE k # r.key
  <2>1. FetchedWith(grown)[k] = FetchedWith(sheet)[k]
    <3>1. CASE \E x \in sheet : x.key = k
      BY <1>1, <3>1, SheetsFigure
    <3>2. CASE \A x \in sheet : x.key # k
      BY <1>1, <1>3, <3>2, SheetsFigure
    <3>. QED
      BY <3>1, <3>2
  <2>. QED
    BY <1>3, <2>1, RowMerged DEF Figures
<1>. QED
  BY <1>2, <1>3

-----------------------------------------------------------------------------
(* Every step keeps the invariant.                                         *)

LEMMA InitConsole ==
    ASSUME ConsoleInit, ConsoleAssumption
    PROVE  ConsoleInv
<1>1. ConsoleTypes
  <2>1. <<>> \in Seq(GoogleRows)
    BY EmptySeq
  <2>. QED
    BY <2>1 DEF ConsoleInit, ConsoleAssumption, ConsoleTypes, Resting, Dates
<1>2. Figures(rows, fetched) /\ OneImport(rows)
  BY DEF ConsoleInit, Figures, OneImport, GoogleOf, GoogleRow, NaverOf
<1>3. JobInv
  BY DEF ConsoleInit, ConsoleAssumption, JobInv, Resting
<1>4. ASSUME NEW u \in Uploads
      PROVE  UploadInv(u)
  BY DEF ConsoleInit, ConsoleAssumption, UploadInv, Resting, OneImport, NaverOf
<1>. QED
  BY <1>1, <1>2, <1>3, <1>4 DEF ConsoleInv

(* What Google's response lists is finite, so a list that has all of it    *)
(* and is as long as it has nothing twice.                                 *)
LEMMA ListedOnce ==
    ASSUME ConsoleAssumption, NEW order \in [1..Cardinality(Listed) -> Listed],
           \A k \in Listed : \E n \in DOMAIN order : order[n] = k
    PROVE  /\ Cardinality(Listed) \in Nat
           /\ \A n, m \in DOMAIN order : order[n] = order[m] => n = m
<1>1. IsFiniteSet(GoogleKeys)
  <2>1. IsFiniteSet(Dates)
    BY FS_Interval DEF Dates, ConsoleAssumption
  <2>. QED
    BY <2>1, FS_Product DEF GoogleKeys, ConsoleAssumption
<1>2. IsFiniteSet(Listed)
  BY <1>1, FS_Subset DEF Listed
<1>3. Cardinality(Listed) \in Nat
  BY <1>2, FS_CardinalityType
<1>4. IsFiniteSet(1..Cardinality(Listed)) /\ Cardinality(1..Cardinality(Listed)) = Cardinality(Listed)
  BY <1>3, FS_Interval
<1>5. order \in Surjection(1..Cardinality(Listed), Listed)
  BY DEF Surjection
<1>6. order \in Injection(1..Cardinality(Listed), Listed)
  BY <1>4, <1>5, FS_SurjSameCardinalityImpliesInj
<1>. QED
  BY <1>3, <1>6 DEF Injection, IsInjective

LEMMA FetchKeeps ==
    ASSUME ConsoleInv, ConsoleAssumption, Fetch
    PROVE  ConsoleInv'
<1>1. PICK order \in [1..Cardinality(Listed) -> Listed] :
         /\ \A k \in Listed : \E n \in DOMAIN order : order[n] = k
         /\ job' = [job EXCEPT !.at = "merge",
                               !.todo = [n \in DOMAIN order |->
                                            [source |-> "google", key |-> order[n],
                                             clicks |-> google[order[n]]]]]
  BY DEF Fetch
<1>. DEFINE list == [n \in DOMAIN order |-> [source |-> "google", key |-> order[n],
                                            clicks |-> google[order[n]]]]
<1>2. Cardinality(Listed) \in Nat /\ \A n, m \in DOMAIN order : order[n] = order[m] => n = m
  BY <1>1, ListedOnce
<1>3. ASSUME NEW k \in Listed
      PROVE  [source |-> "google", key |-> k, clicks |-> google[k]] \in GoogleRows
  <2>1. k \in GoogleKeys /\ google[k] \in 0..MaxFigure /\ google[k] # 0
    BY DEF Listed, ConsoleInv, ConsoleTypes
  <2>2. google[k] \in 1..MaxFigure
    BY <2>1
  <2>. QED
    BY <2>1, <2>2 DEF GoogleRows
<1>4. list \in [1..Cardinality(Listed) -> GoogleRows]
  BY <1>3
<1>5. list \in Seq(GoogleRows)
  BY <1>2, <1>4, IsASeq
<1>6. /\ job.at = "idle" /\ UNCHANGED <<date, google, rows, upload, writer, imports, fetched>>
      /\ job'.at = "merge" /\ job'.todo = list /\ job'.sheet = job.sheet
      /\ job' \in [at: {"idle", "merge"}, todo: Seq(GoogleRows), sheet: SUBSET GoogleRows]
  BY <1>1, <1>5 DEF Fetch, ConsoleInv, ConsoleTypes
<1>7. KeysOnce(job'.todo, job'.sheet) /\ writer.who # "job" /\ job'.sheet = {}
  <2>1. writer.who # "job"
    BY <1>6 DEF ConsoleInv, JobInv
  <2>2. job.sheet = {}
    BY <1>6 DEF ConsoleInv, JobInv
  <2>. QED
    BY <1>2, <1>4, <1>6, <2>1, <2>2 DEF KeysOnce
<1>8. JobInv'
  BY <1>6, <1>7 DEF JobInv
<1>9. ASSUME NEW u \in Uploads
      PROVE  UploadInv(u)'
  BY <1>6 DEF UploadInv, ConsoleInv, OneImport, NaverOf, Others
<1>10. Figures(rows, fetched)' /\ OneImport(rows)'
  BY <1>6 DEF ConsoleInv, Figures, OneImport, NaverOf, GoogleOf, GoogleRow
<1>. QED
  BY <1>6, <1>8, <1>9, <1>10 DEF ConsoleInv, ConsoleTypes

LEMMA MergeKeeps ==
    ASSUME ConsoleInv, ConsoleAssumption, MergeRow
    PROVE  ConsoleInv'
<1>. DEFINE r == Head(job.todo)
            table == View("job")
<1>1. /\ job.at = "merge" /\ CanWrite("job") /\ job.todo \in Seq(GoogleRows) /\ job.todo # <<>>
      /\ UNCHANGED <<date, google, rows, upload, imports, fetched>>
      /\ writer' = [who |-> "job", rows |-> Merged(table, r)]
  BY DEF MergeRow, ConsoleInv, ConsoleTypes
<1>2. /\ r \in GoogleRows /\ r = job.todo[1] /\ Tail(job.todo) \in Seq(GoogleRows)
      /\ Len(job.todo) \in Nat \ {0} /\ 1 \in DOMAIN job.todo
      /\ DOMAIN Tail(job.todo) = 1..(Len(job.todo) - 1) /\ DOMAIN job.todo = 1..Len(job.todo)
      /\ \A n \in DOMAIN Tail(job.todo) : Tail(job.todo)[n] = job.todo[n + 1]
  BY <1>1, HeadTailProperties, LenProperties
<1>3. /\ job'.at = "merge" /\ job'.todo = Tail(job.todo) /\ job'.sheet = job.sheet \cup {r}
      /\ job' \in [at: {"idle", "merge"}, todo: Seq(GoogleRows), sheet: SUBSET GoogleRows]
  BY <1>2 DEF MergeRow, ConsoleInv, ConsoleTypes
<1>4. KeysOnce(job.todo, job.sheet) /\ job.sheet \in SUBSET GoogleRows
  BY <1>1 DEF ConsoleInv, ConsoleTypes, JobInv
<1>5. /\ table \in SUBSET QueryRows /\ NaverOf(table) = NaverOf(rows)
      /\ Figures(table, FetchedWith(job.sheet))
  <2>1. CASE writer.who = "job"
    BY <2>1 DEF View, ConsoleInv, ConsoleTypes, JobInv
  <2>2. CASE writer.who # "job"
    <3>1. job.sheet = {} /\ table = rows
      BY <2>2 DEF View, ConsoleInv, JobInv
    <3>2. \A k \in GoogleKeys : FetchedWith(job.sheet)[k] = fetched[k]
      BY <3>1 DEF FetchedWith
    <3>. QED
      BY <3>1, <3>2 DEF ConsoleInv, ConsoleTypes, Figures
  <2>. QED
    BY <2>1, <2>2
<1>6. Figures(Merged(table, r), FetchedWith(job.sheet \cup {r}))
  <2>1. \A x \in job.sheet : x.key # r.key
    BY <1>2, <1>4 DEF KeysOnce
  <2>2. \A x, y \in job.sheet : x.key = y.key => x = y
    BY <1>4 DEF KeysOnce
  <2>. HIDE DEF r, table
  <2>. QED
    BY <1>2, <1>4, <1>5, <2>1, <2>2, SheetGrows
<1>7. Merged(table, r) \in SUBSET QueryRows /\ NaverOf(Merged(table, r)) = NaverOf(rows)
  <2>. HIDE DEF r, table
  <2>. QED
    BY <1>2, <1>5, RowMerged
<1>8. KeysOnce(job'.todo, job'.sheet)
  <2>1. \A n \in DOMAIN Tail(job.todo) : n + 1 \in DOMAIN job.todo /\ n + 1 # 1
    BY <1>2
  <2>2. \A n, m \in DOMAIN Tail(job.todo) : n + 1 = m + 1 => n = m
    BY <1>2
  <2>3. \A x, y \in job.sheet \cup {r} : x.key = y.key => x = y
    BY <1>2, <1>4 DEF KeysOnce
  <2>4. \A n, m \in DOMAIN Tail(job.todo) : Tail(job.todo)[n].key = Tail(job.todo)[m].key => n = m
    BY <1>2, <1>4, <2>1, <2>2 DEF KeysOnce
  <2>5. \A n \in DOMAIN Tail(job.todo) : \A x \in job.sheet \cup {r} : x.key # Tail(job.todo)[n].key
    <3>. SUFFICES ASSUME NEW n \in DOMAIN Tail(job.todo), NEW x \in job.sheet \cup {r}
                  PROVE  x.key # Tail(job.todo)[n].key
      OBVIOUS
    <3>1. /\ Tail(job.todo)[n] = job.todo[n + 1] /\ n + 1 \in DOMAIN job.todo /\ n + 1 # 1
          /\ 1 \in DOMAIN job.todo /\ r = job.todo[1]
      BY <1>2, <2>1
    <3>. HIDE DEF r
    <3>2. \A a, b \in DOMAIN job.todo : job.todo[a].key = job.todo[b].key => a = b
      BY <1>4 DEF KeysOnce
    <3>3. job.todo[1].key # job.todo[n + 1].key
      BY <3>1, <3>2
    <3>4. x \in job.sheet => x.key # job.todo[n + 1].key
      BY <1>4, <3>1 DEF KeysOnce
    <3>. QED
      BY <3>1, <3>3, <3>4
  <2>. QED
    BY <1>3, <2>3, <2>4, <2>5 DEF KeysOnce
<1>9. FetchedWith(job.sheet)' = FetchedWith(job.sheet \cup {r})
  BY <1>1, <1>3 DEF FetchedWith
<1>10. JobInv'
  <2>1. Figures(writer.rows, FetchedWith(job.sheet))'
    BY <1>1, <1>6, <1>9 DEF Figures, GoogleOf, GoogleRow
  <2>2. NaverOf(writer.rows)' = NaverOf(rows)'
    BY <1>1, <1>7 DEF NaverOf
  <2>. QED
    BY <1>1, <1>3, <1>8, <2>1, <2>2 DEF JobInv
<1>11. ASSUME NEW u \in Uploads
      PROVE  UploadInv(u)'
  <2>1. writer.who # u /\ writer'.who # u
    BY <1>1 DEF CanWrite, ConsoleAssumption
  <2>. QED
    BY <1>1, <2>1 DEF UploadInv, ConsoleInv, OneImport, NaverOf
<1>12. ConsoleTypes'
  BY <1>1, <1>3, <1>7 DEF ConsoleInv, ConsoleTypes
<1>13. Figures(rows, fetched)' /\ OneImport(rows)'
  BY <1>1 DEF ConsoleInv, Figures, OneImport, NaverOf, GoogleOf, GoogleRow
<1>. QED
  BY <1>10, <1>11, <1>12, <1>13 DEF ConsoleInv

(* The lock is given back, if it was held at all.                          *)
LEMMA LockGivenBack ==
    ASSUME ConsoleInv, ConsoleAssumption, NEW who \in Uploads \cup {"job"}, Unlocked(who)
    PROVE  /\ writer' \in [who: Uploads \cup {"job", NoWriter}, rows: SUBSET QueryRows]
           /\ writer'.who # who
           /\ \A x \in Uploads \cup {"job"} : x # who =>
                 (writer'.who = x <=> writer.who = x) /\ (writer.who = x => writer' = writer)
  BY DEF Unlocked, ConsoleInv, ConsoleTypes, ConsoleAssumption

LEMMA SyncKeeps ==
    ASSUME ConsoleInv, ConsoleAssumption, SyncCommit
    PROVE  ConsoleInv'
<1>1. /\ job.at = "merge" /\ writer.who = "job" /\ rows' = writer.rows /\ job' = Resting
      /\ fetched' = FetchedWith(job.sheet) /\ UNCHANGED <<date, google, upload, imports>>
      /\ Unlocked("job")
  BY DEF SyncCommit, View, FetchedWith
<1>2. /\ KeysOnce(job.todo, job.sheet) /\ NaverOf(writer.rows) = NaverOf(rows)
      /\ Figures(writer.rows, FetchedWith(job.sheet))
  BY <1>1 DEF ConsoleInv, JobInv
<1>3. fetched' \in [GoogleKeys -> Nat]
  BY <1>1, <1>2, SheetsFigures DEF ConsoleInv, ConsoleTypes, KeysOnce
<1>4. ConsoleTypes'
  <2>1. <<>> \in Seq(GoogleRows)
    BY EmptySeq
  <2>. QED
    BY <1>1, <1>3, <2>1, LockGivenBack DEF ConsoleInv, ConsoleTypes, Resting
<1>5. Figures(rows, fetched)' /\ OneImport(rows)'
  BY <1>1, <1>2 DEF ConsoleInv, Figures, OneImport, GoogleOf, GoogleRow, NaverOf
<1>6. JobInv'
  BY <1>1, LockGivenBack DEF JobInv, Resting
<1>7. ASSUME NEW u \in Uploads
      PROVE  UploadInv(u)'
  <2>1. writer.who # u /\ writer'.who # u
    BY <1>1, LockGivenBack DEF ConsoleAssumption
  <2>. QED
    BY <1>1, <2>1 DEF UploadInv, ConsoleInv, OneImport, NaverOf
<1>. QED
  BY <1>4, <1>5, <1>6, <1>7 DEF ConsoleInv

LEMMA SyncStopsKeeps ==
    ASSUME ConsoleInv, ConsoleAssumption, SyncStops
    PROVE  ConsoleInv'
<1>1. /\ job' = Resting /\ Unlocked("job")
      /\ UNCHANGED <<date, google, rows, upload, imports, fetched>>
  BY DEF SyncStops
<1>2. ConsoleTypes'
  <2>1. <<>> \in Seq(GoogleRows)
    BY EmptySeq
  <2>. QED
    BY <1>1, <2>1, LockGivenBack DEF ConsoleInv, ConsoleTypes, Resting
<1>3. Figures(rows, fetched)' /\ OneImport(rows)'
  BY <1>1 DEF ConsoleInv, Figures, OneImport, GoogleOf, GoogleRow, NaverOf
<1>4. JobInv'
  BY <1>1, LockGivenBack DEF JobInv, Resting
<1>5. ASSUME NEW u \in Uploads
      PROVE  UploadInv(u)'
  <2>1. u # "job" /\ (writer'.who = u <=> writer.who = u) /\ (writer.who = u => writer' = writer)
    BY <1>1, LockGivenBack DEF ConsoleAssumption
  <2>. QED
    BY <1>1, <2>1 DEF UploadInv, ConsoleInv, OneImport, NaverOf, Others
<1>. QED
  BY <1>2, <1>3, <1>4, <1>5 DEF ConsoleInv

-----------------------------------------------------------------------------
(* The upload.                                                             *)

(* What the job still has to know of a step that is not its own.           *)
LEMMA JobUndisturbed ==
    ASSUME ConsoleInv, ConsoleAssumption, job' = job, fetched' = fetched,
           writer.who = "job" <=> writer'.who = "job",
           writer.who = "job" => writer' = writer /\ rows' = rows
    PROVE  JobInv'
<1>1. FetchedWith(job.sheet)' = FetchedWith(job.sheet)
  BY DEF FetchedWith
<1>2. ASSUME writer.who = "job"
      PROVE  NaverOf(writer.rows)' = NaverOf(rows)' /\ Figures(writer.rows, FetchedWith(job.sheet))'
  BY <1>1, <1>2 DEF ConsoleInv, JobInv, NaverOf, Figures, GoogleOf, GoogleRow
<1>. QED
  BY <1>2 DEF ConsoleInv, JobInv

LEMMA UploadKeeps ==
    ASSUME ConsoleInv, ConsoleAssumption, NEW u \in Uploads,
           NEW sheet \in SUBSET (Queries \X (1..2)), Upload(u, sheet)
    PROVE  ConsoleInv'
<1>. DEFINE written == {[source |-> "naver", query |-> x[1], line |-> x[2], import |-> imports',
                         date |-> date] : x \in sheet}
<1>1. /\ upload[u].at = "idle" /\ imports < MaxImports /\ imports' = imports + 1
      /\ upload' = [upload EXCEPT ![u] = [at |-> "delete", todo |-> <<>>, sheet |-> written]]
      /\ UNCHANGED <<date, google, rows, job, writer, fetched>>
  BY DEF Upload
<1>2. imports' \in 1..MaxImports
  BY <1>1 DEF ConsoleInv, ConsoleTypes, ConsoleAssumption
<1>3. written \in SUBSET NaverRows
  <2>1. date \in Dates
    BY DEF ConsoleInv, ConsoleTypes
  <2>. QED
    BY <1>2, <2>1 DEF NaverRows
<1>4. OneImport(written)
  BY DEF OneImport, NaverOf
<1>. HIDE DEF written
<1>5. ConsoleTypes'
  BY <1>1, <1>2, <1>3 DEF ConsoleInv, ConsoleTypes
<1>6. Figures(rows, fetched)' /\ OneImport(rows)'
  BY <1>1 DEF ConsoleInv, Figures, OneImport, GoogleOf, GoogleRow, NaverOf
<1>7. JobInv'
  BY <1>1, JobUndisturbed
<1>8. ASSUME NEW v \in Uploads
      PROVE  UploadInv(v)'
  <2>1. CASE v = u
    <3>1. upload'[v] = [at |-> "delete", todo |-> <<>>, sheet |-> written] /\ writer.who # v
      BY <1>1, <2>1 DEF ConsoleInv, ConsoleTypes, UploadInv
    <3>2. OneImport(upload'[v].sheet)
      BY <1>4, <3>1
    <3>. QED
      BY <1>1, <3>1, <3>2 DEF UploadInv, OneImport, NaverOf
  <2>2. CASE v # u
    <3>1. upload'[v] = upload[v]
      BY <1>1, <2>2 DEF ConsoleInv, ConsoleTypes
    <3>. QED
      BY <1>1, <3>1 DEF UploadInv, ConsoleInv, OneImport, NaverOf, Others
  <2>. QED
    BY <2>1, <2>2
<1>. QED
  BY <1>5, <1>6, <1>7, <1>8 DEF ConsoleInv

LEMMA DeleteKeeps ==
    ASSUME ConsoleInv, ConsoleAssumption, NEW u \in Uploads, DeleteSnapshot(u)
    PROVE  ConsoleInv'
<1>1. /\ upload[u].at = "delete" /\ writer.who # u /\ writer.who = NoWriter
      /\ UNCHANGED <<date, google, rows, job, imports, fetched>>
      /\ upload' = [upload EXCEPT ![u].at = "commit"]
  BY DEF DeleteSnapshot, CanWrite, ConsoleInv, UploadInv
<1>2. writer' = [who |-> u, rows |-> Others(rows)]
  BY <1>1 DEF DeleteSnapshot, View
<1>3. Others(rows) \in SUBSET QueryRows
  BY DEF Others, ConsoleInv, ConsoleTypes
<1>4. ConsoleTypes'
  BY <1>1, <1>2, <1>3 DEF ConsoleInv, ConsoleTypes
<1>5. Figures(rows, fetched)' /\ OneImport(rows)'
  BY <1>1 DEF ConsoleInv, Figures, OneImport, GoogleOf, GoogleRow, NaverOf
<1>6. JobInv'
  <2>1. writer.who # "job" /\ writer'.who # "job"
    BY <1>1, <1>2 DEF ConsoleAssumption
  <2>. QED
    BY <1>1, <2>1, JobUndisturbed
<1>7. ASSUME NEW v \in Uploads
      PROVE  UploadInv(v)'
  <2>1. CASE v = u
    <3>1. upload'[v].at = "commit" /\ upload'[v].sheet = upload[v].sheet
      BY <1>1, <2>1 DEF ConsoleInv, ConsoleTypes
    <3>2. OneImport(upload[u].sheet)
      BY DEF ConsoleInv, UploadInv
    <3>3. OneImport(upload[v].sheet)'
      BY <2>1, <3>1, <3>2 DEF OneImport, NaverOf
    <3>4. writer'.who = v /\ writer'.rows = Others(rows)'
      BY <1>1, <1>2, <2>1 DEF Others
    <3>. QED
      BY <3>1, <3>3, <3>4 DEF UploadInv
  <2>2. CASE v # u
    <3>1. upload'[v] = upload[v] /\ writer'.who # v /\ writer.who # v
      BY <1>1, <1>2, <2>2 DEF ConsoleInv, ConsoleTypes, ConsoleAssumption
    <3>2. UploadInv(v)
      BY DEF ConsoleInv
    <3>3. OneImport(upload[v].sheet)'
      BY <3>1, <3>2 DEF UploadInv, OneImport, NaverOf
    <3>. QED
      BY <3>1, <3>2, <3>3 DEF UploadInv
  <2>. QED
    BY <2>1, <2>2
<1>. QED
  BY <1>4, <1>5, <1>6, <1>7 DEF ConsoleInv

(* An upload ends: another is left as it is.                               *)
LEMMA OthersGoOn ==
    ASSUME ConsoleInv, ConsoleAssumption, NEW u \in Uploads, Unlocked(u),
           upload' = [upload EXCEPT ![u] = Resting],
           writer.who = u \/ rows' = rows
    PROVE  \A v \in Uploads : UploadInv(v)'
<1>. SUFFICES ASSUME NEW v \in Uploads
              PROVE  UploadInv(v)'
  OBVIOUS
<1>1. CASE v = u
  <2>1. upload'[v] = Resting /\ writer'.who # v
    BY <1>1, LockGivenBack DEF ConsoleInv, ConsoleTypes
  <2>. QED
    BY <2>1 DEF UploadInv, Resting, OneImport, NaverOf
<1>2. CASE v # u
  <2>1. /\ upload'[v] = upload[v] /\ (writer'.who = v <=> writer.who = v)
        /\ writer.who = v => writer' = writer /\ rows' = rows
    BY <1>2, LockGivenBack DEF ConsoleInv, ConsoleTypes
  <2>. QED
    BY <2>1 DEF UploadInv, ConsoleInv, OneImport, NaverOf, Others
<1>. QED
  BY <1>1, <1>2

LEMMA UploadEnds ==
    ASSUME ConsoleInv, ConsoleAssumption, NEW u \in Uploads, ImportCommit(u) \/ UploadStops(u)
    PROVE  ConsoleInv'
<1>1. /\ UNCHANGED <<date, google, job, imports, fetched>> /\ Unlocked(u)
      /\ upload' = [upload EXCEPT ![u] = Resting]
      /\ \/ writer.who = u /\ rows' = Others(rows) \cup upload[u].sheet
         \/ rows' = rows
  <2>1. UploadInv(u)
    BY DEF ConsoleInv
  <2>2. CASE ImportCommit(u)
    <3>1. writer.who = u /\ View(u) = Others(rows)
      BY <2>1, <2>2 DEF ImportCommit, View, UploadInv
    <3>. QED
      BY <2>2, <3>1 DEF ImportCommit
  <2>3. CASE UploadStops(u)
    BY <2>3 DEF UploadStops
  <2>. QED
    BY <2>2, <2>3
<1>2. upload[u].sheet \in SUBSET NaverRows /\ OneImport(upload[u].sheet)
  BY DEF ConsoleInv, ConsoleTypes, UploadInv
<1>3. rows' \in SUBSET QueryRows /\ Figures(rows', fetched) /\ OneImport(rows')
  <2>1. rows \in SUBSET QueryRows /\ Figures(rows, fetched) /\ OneImport(rows)
    BY DEF ConsoleInv, ConsoleTypes
  <2>2. CASE rows' = rows
    BY <2>1, <2>2
  <2>3. CASE rows' = Others(rows) \cup upload[u].sheet
    <3>1. PICK sheet \in SUBSET NaverRows : sheet = upload[u].sheet /\ OneImport(sheet)
      BY <1>2
    <3>2. /\ Others(rows) \cup sheet \in SUBSET QueryRows
          /\ Figures(Others(rows) \cup sheet, fetched) /\ OneImport(Others(rows) \cup sheet)
      BY <2>1, <3>1, SnapshotReplaced
    <3>. QED
      BY <2>3, <3>1, <3>2
  <2>. QED
    BY <1>1, <2>2, <2>3
<1>4. Resting \in [at: {"idle", "delete", "commit"}, todo: {<<>>}, sheet: SUBSET NaverRows]
  BY DEF Resting
<1>5. ConsoleTypes'
  BY <1>1, <1>3, <1>4, LockGivenBack DEF ConsoleInv, ConsoleTypes
<1>6. Figures(rows, fetched)' /\ OneImport(rows)'
  BY <1>1, <1>3 DEF Figures, OneImport, GoogleOf, GoogleRow, NaverOf
<1>7. JobInv'
  <2>1. /\ u # "job" /\ (writer.who = "job" <=> writer'.who = "job")
        /\ writer.who = "job" => writer' = writer /\ rows' = rows
    BY <1>1, LockGivenBack DEF ConsoleAssumption
  <2>. QED
    BY <1>1, <2>1, JobUndisturbed
<1>8. \A v \in Uploads : UploadInv(v)'
  BY <1>1, OthersGoOn
<1>. QED
  BY <1>5, <1>6, <1>7, <1>8 DEF ConsoleInv

LEMMA WorldKeeps ==
    ASSUME ConsoleInv, ConsoleAssumption,
           NextDate \/ (\E k \in GoogleKeys : Revise(k)) \/ UNCHANGED consoleVars
    PROVE  ConsoleInv'
<1>1. UNCHANGED <<rows, job, upload, writer, imports, fetched>>
  BY DEF NextDate, Revise, consoleVars
<1>2. date' \in Dates
  BY DEF NextDate, Revise, consoleVars, ConsoleInv, ConsoleTypes, ConsoleAssumption, Dates
<1>3. google' \in [GoogleKeys -> 0..MaxFigure]
  <2>1. google \in [GoogleKeys -> 0..MaxFigure]
    BY DEF ConsoleInv, ConsoleTypes
  <2>. QED
    BY <2>1 DEF NextDate, Revise, consoleVars, ConsoleAssumption
<1>4. ConsoleTypes'
  BY <1>1, <1>2, <1>3 DEF ConsoleInv, ConsoleTypes
<1>5. Figures(rows, fetched)' /\ OneImport(rows)'
  BY <1>1 DEF ConsoleInv, Figures, OneImport, GoogleOf, GoogleRow, NaverOf
<1>6. JobInv'
  BY <1>1, JobUndisturbed
<1>7. ASSUME NEW u \in Uploads
      PROVE  UploadInv(u)'
  BY <1>1 DEF UploadInv, ConsoleInv, OneImport, NaverOf, Others
<1>. QED
  BY <1>4, <1>5, <1>6, <1>7 DEF ConsoleInv

LEMMA ConsoleInvariance == ConsoleSpec => []ConsoleInv
<1>1. ConsoleInit => ConsoleInv
  BY InitConsole, ConsoleAssumption
<1>2. ConsoleInv /\ [ConsoleNext]_consoleVars => ConsoleInv'
  <2>. SUFFICES ASSUME ConsoleInv, [ConsoleNext]_consoleVars
                PROVE  ConsoleInv'
    OBVIOUS
  <2>. USE ConsoleAssumption
  <2>1. CASE NextDate \/ (\E k \in GoogleKeys : Revise(k)) \/ UNCHANGED consoleVars
    BY <2>1, WorldKeeps
  <2>2. CASE Fetch
    BY <2>2, FetchKeeps
  <2>3. CASE MergeRow
    BY <2>3, MergeKeeps
  <2>4. CASE SyncCommit
    BY <2>4, SyncKeeps
  <2>5. CASE SyncStops
    BY <2>5, SyncStopsKeeps
  <2>6. ASSUME NEW u \in Uploads, NEW sheet \in SUBSET (Queries \X (1..2)), Upload(u, sheet)
        PROVE  ConsoleInv'
    BY <2>6, UploadKeeps
  <2>7. ASSUME NEW u \in Uploads, DeleteSnapshot(u)
        PROVE  ConsoleInv'
    BY <2>7, DeleteKeeps
  <2>8. ASSUME NEW u \in Uploads, ImportCommit(u) \/ UploadStops(u)
        PROVE  ConsoleInv'
    BY <2>8, UploadEnds
  <2>. QED
    BY <2>1, <2>2, <2>3, <2>4, <2>5, <2>6, <2>7, <2>8 DEF ConsoleNext
<1>. QED
  BY <1>1, <1>2, PTL DEF ConsoleSpec

(* Whatever overlaps, is stopped or fails, the console lists for Naver the *)
(* rows of one uploaded sheet, and for Google one row of each query and    *)
(* day, with the figure the last complete run of the job fetched.          *)
THEOREM ConsoleListsWhatCame == ConsoleSpec => []ListedIsFetched
<1>1. ConsoleInv => ListedIsFetched
  <2>. SUFFICES ASSUME ConsoleInv
                PROVE  ListedIsFetched
    OBVIOUS
  <2>1. NaverIsOneSnapshot
    BY DEF NaverIsOneSnapshot, ListQueries, ConsoleInv, OneImport, NaverOf
  <2>2. ASSUME NEW k \in GoogleKeys
        PROVE  {r.clicks : r \in {x \in rows : x.source = "google" /\ x.key = k}} =
                   IF fetched[k] = 0 THEN {} ELSE {fetched[k]}
    <3>1. GoogleOf(rows, k) = GoogleRow(k, fetched[k])
      BY DEF ConsoleInv, Figures
    <3>2. GoogleOf(rows, k) = {x \in rows : x.source = "google" /\ x.key = k}
      BY DEF GoogleOf
    <3>3. CASE fetched[k] = 0
      BY <3>1, <3>2, <3>3 DEF GoogleRow
    <3>4. CASE fetched[k] # 0
      <4>. DEFINE row == [source |-> "google", key |-> k, clicks |-> fetched[k]]
      <4>1. {x \in rows : x.source = "google" /\ x.key = k} = {row}
        BY <3>1, <3>2, <3>4 DEF GoogleRow
      <4>2. row.clicks = fetched[k]
        OBVIOUS
      <4>. HIDE DEF row
      <4>. QED
        BY <3>4, <4>1, <4>2
    <3>. QED
      BY <3>3, <3>4
  <2>. QED
    BY <2>1, <2>2 DEF ListedIsFetched, GoogleIsLatest
<1>. QED
  BY <1>1, ConsoleInvariance, PTL


-----------------------------------------------------------------------------
(* The reviews of games.                                                   *)

(* A position, cached or under analysis, of a game that has only grown: as *)
(* far as the move asked for, unless it was asked for ahead of the game.   *)
Reflects(e) ==
    e.id \notin altered =>
        /\ record[e.id] \in Records
        /\ \E n \in 0..Len(record[e.id]) :
              /\ e.position = SubSeq(record[e.id], 1, n)
              /\ n <= e.move /\ (n < e.move => <<e.id, e.move>> \in ahead)

ReviewFields == [at: {"idle", "replay", "engine"}, id: ReviewIds \cup {0},
                 move: MoveNumbers, position: Records]
ReviewTypes ==
    /\ record \in [ReviewIds -> Records \cup {Nothing}]
    /\ analyses \in SUBSET [id: ReviewIds, move: MoveNumbers, position: Records]
    /\ review \in [Reviewers -> ReviewFields]
    /\ ahead \in SUBSET (ReviewIds \X MoveNumbers)

(* The game of a review that has begun is there, or was deleted since.     *)
UnderReview(k) ==
    k.at # "idle" => k.id \in ReviewIds /\ (k.id \notin altered => record[k.id] \in Records)

ReviewInv ==
    /\ ReviewTypes
    /\ \A e \in analyses : Entry(e.id, e.move) = {e} /\ Reflects(e)
    /\ \A r \in Reviewers :
          /\ UnderReview(review[r])
          /\ review[r].at = "engine" => Reflects(review[r])

-----------------------------------------------------------------------------
(* Records are sequences.                                                  *)

LEMMA RecordIsSeq ==
    ASSUME ReviewsAssumption, NEW m
    PROVE  m \in Records <=> m \in Seq(Plays) /\ Len(m) <= MaxRecord
<1>1. ASSUME m \in Records
      PROVE  m \in Seq(Plays) /\ Len(m) <= MaxRecord
  <2>1. PICK n \in 0..MaxRecord : m \in [1..n -> Plays]
    BY <1>1 DEF Records
  <2>2. n \in Nat /\ n <= MaxRecord
    BY <2>1 DEF ReviewsAssumption
  <2>3. m \in Seq(Plays)
    BY <2>1, <2>2, SeqDef
  <2>4. Len(m) = n
    BY <2>1, <2>2, <2>3, LenProperties
  <2>. QED
    BY <2>2, <2>3, <2>4
<1>2. ASSUME m \in Seq(Plays), Len(m) <= MaxRecord
      PROVE  m \in Records
  <2>1. m \in [1..Len(m) -> Plays] /\ Len(m) \in 0..MaxRecord
    BY <1>2, LenProperties DEF ReviewsAssumption
  <2>. QED
    BY <2>1 DEF Records
<1>. QED
  BY <1>1, <1>2

LEMMA NothingPlayed ==
    ASSUME ReviewsAssumption
    PROVE  <<>> \in Records
<1>1. PICK m : m = <<>>
  OBVIOUS
<1>2. m \in Seq(Plays) /\ Len(m) = 0
  BY <1>1, EmptySeq
<1>3. Len(m) <= MaxRecord
  BY <1>2 DEF ReviewsAssumption
<1>. QED
  BY <1>1, <1>2, <1>3, RecordIsSeq

LEMMA PrefixIsRecord ==
    ASSUME ReviewsAssumption, NEW m \in Records, NEW n \in 0..Len(m)
    PROVE  /\ SubSeq(m, 1, n) \in Records
           /\ Len(SubSeq(m, 1, n)) = n
           /\ \A i \in 1..n : SubSeq(m, 1, n)[i] = m[i]
<1>1. m \in Seq(Plays) /\ Len(m) <= MaxRecord /\ Len(m) \in Nat
  BY RecordIsSeq, LenProperties
<1>2. SubSeq(m, 1, n) \in Seq(Plays) /\ Len(SubSeq(m, 1, n)) = n
      /\ \A i \in 1..n : SubSeq(m, 1, n)[i] = m[i]
  BY <1>1, SubSeqProperties
<1>3. n <= MaxRecord
  BY <1>1 DEF ReviewsAssumption
<1>. QED
  BY <1>2, <1>3, RecordIsSeq

(* A move more leaves the positions before it.                             *)
LEMMA LongerRecord ==
    ASSUME ReviewsAssumption, NEW m \in Records, NEW p \in Plays, Len(m) < MaxRecord
    PROVE  /\ Append(m, p) \in Records /\ Len(Append(m, p)) = Len(m) + 1
           /\ \A n \in 0..Len(m) : SubSeq(Append(m, p), 1, n) = SubSeq(m, 1, n)
<1>1. m \in Seq(Plays) /\ Len(m) \in Nat /\ MaxRecord \in Nat
  BY RecordIsSeq, LenProperties DEF ReviewsAssumption
<1>2. /\ Append(m, p) \in Seq(Plays) /\ Len(Append(m, p)) = Len(m) + 1
      /\ \A i \in 1..Len(m) : Append(m, p)[i] = m[i]
  BY <1>1, AppendProperties
<1>3. Append(m, p) \in Records
  <2>1. PICK q : q = Append(m, p)
    OBVIOUS
  <2>2. q \in Seq(Plays) /\ Len(q) <= MaxRecord
    BY <1>1, <1>2, <2>1
  <2>. QED
    BY <2>1, <2>2, RecordIsSeq
<1>4. ASSUME NEW n \in 0..Len(m)
      PROVE  SubSeq(Append(m, p), 1, n) = SubSeq(m, 1, n)
  <2>1. n \in 0..Len(Append(m, p))
    BY <1>1, <1>2
  <2>2. PICK q : q = Append(m, p)
    OBVIOUS
  <2>3. /\ SubSeq(q, 1, n) \in Records /\ SubSeq(m, 1, n) \in Records
        /\ Len(SubSeq(q, 1, n)) = n /\ Len(SubSeq(m, 1, n)) = n
        /\ \A i \in 1..n : SubSeq(q, 1, n)[i] = q[i] /\ SubSeq(m, 1, n)[i] = m[i]
    BY <1>3, <2>1, <2>2, PrefixIsRecord
  <2>4. \A i \in 1..n : q[i] = m[i]
    BY <1>1, <1>2, <2>2
  <2>5. SubSeq(q, 1, n) \in Seq(Plays) /\ SubSeq(m, 1, n) \in Seq(Plays)
    BY <2>3, RecordIsSeq
  <2>6. PICK x, y : x = SubSeq(q, 1, n) /\ y = SubSeq(m, 1, n)
    OBVIOUS
  <2>7. x \in Seq(Plays) /\ y \in Seq(Plays) /\ Len(x) = Len(y) /\ \A i \in 1..Len(x) : x[i] = y[i]
    BY <2>3, <2>4, <2>5, <2>6
  <2>8. x = y
    BY <2>7, SeqEqual
  <2>. QED
    BY <2>2, <2>6, <2>8
<1>. QED
  BY <1>2, <1>3, <1>4

-----------------------------------------------------------------------------
(* Every step keeps the invariant.                                         *)

LEMMA InitReviews ==
    ASSUME ReviewsInit, ReviewsAssumption
    PROVE  ReviewInv
<1>1. <<>> \in Records
  BY NothingPlayed
<1>2. NoReview \in ReviewFields
  BY <1>1 DEF NoReview, ReviewFields, MoveNumbers, ReviewsAssumption
<1>. QED
  BY <1>2 DEF ReviewsInit, ReviewInv, ReviewTypes, UnderReview, NoReview

(* A step of the games keeps what is cached if every position keeps        *)
(* reflecting its game.                                                    *)
LEMMA GamesMove ==
    ASSUME ReviewInv, ReviewsAssumption, UNCHANGED <<analyses, review, ahead>>,
           record' \in [ReviewIds -> Records \cup {Nothing}],
           altered \subseteq altered',
           \A g \in ReviewIds : g \notin altered' /\ record[g] \in Records =>
               /\ record'[g] \in Records /\ Len(record[g]) <= Len(record'[g])
               /\ \A n \in 0..Len(record[g]) : SubSeq(record'[g], 1, n) = SubSeq(record[g], 1, n)
    PROVE  ReviewInv'
<1>1. ASSUME NEW e, e.id \in ReviewIds, Reflects(e)
      PROVE  Reflects(e)'
  <2>. SUFFICES ASSUME e.id \notin altered'
                PROVE  /\ record'[e.id] \in Records
                       /\ \E n \in 0..Len(record'[e.id]) :
                             /\ e.position = SubSeq(record'[e.id], 1, n)
                             /\ n <= e.move /\ (n < e.move => <<e.id, e.move>> \in ahead)
    BY DEF Reflects
  <2>1. record[e.id] \in Records
    BY <1>1 DEF Reflects
  <2>2. PICK n \in 0..Len(record[e.id]) :
              /\ e.position = SubSeq(record[e.id], 1, n)
              /\ n <= e.move /\ (n < e.move => <<e.id, e.move>> \in ahead)
    BY <1>1 DEF Reflects
  <2>3. /\ record'[e.id] \in Records /\ Len(record[e.id]) <= Len(record'[e.id])
        /\ SubSeq(record'[e.id], 1, n) = SubSeq(record[e.id], 1, n)
    BY <1>1, <2>1
  <2>4. Len(record[e.id]) \in Nat /\ Len(record'[e.id]) \in Nat
    BY <2>1, <2>3, RecordIsSeq, LenProperties
  <2>5. n \in 0..Len(record'[e.id])
    BY <2>3, <2>4
  <2>. QED
    BY <2>2, <2>3, <2>5
<1>2. ASSUME NEW e \in analyses
      PROVE  Entry(e.id, e.move)' = {e} /\ Reflects(e)'
  <2>1. e.id \in ReviewIds /\ Reflects(e) /\ Entry(e.id, e.move) = {e}
    BY DEF ReviewInv, ReviewTypes
  <2>. QED
    BY <1>1, <2>1 DEF Entry
<1>3. ASSUME NEW r \in Reviewers, review[r].at = "engine"
      PROVE  Reflects(review[r])'
  <2>1. review[r].id \in ReviewIds /\ Reflects(review[r])
    BY <1>3 DEF ReviewInv, UnderReview
  <2>2. PICK k : k = review[r]
    OBVIOUS
  <2>3. Reflects(k)'
    BY <1>1, <2>1, <2>2
  <2>. QED
    BY <2>2, <2>3 DEF Reflects
<1>4. ASSUME NEW r \in Reviewers
      PROVE  UnderReview(review[r])'
  BY DEF ReviewInv, UnderReview
<1>. QED
  BY <1>2, <1>3, <1>4 DEF ReviewInv, ReviewTypes

LEMMA BeginKeeps ==
    ASSUME ReviewInv, ReviewsAssumption, BeginGame
    PROVE  ReviewInv'
<1>. DEFINE g == 1 + Max({0} \cup InPlay)
<1>1. /\ g \in ReviewIds /\ record' = [record EXCEPT ![g] = <<>>]
      /\ UNCHANGED <<analyses, review, altered, ahead>>
  BY DEF BeginGame
<1>2. g \notin InPlay
  <2>1. InPlay \subseteq 1..MaxReviewed /\ MaxReviewed \in Nat
    BY DEF InPlay, ReviewIds, ReviewsAssumption
  <2>2. \A x \in InPlay : x \in Nat /\ x <= Max({0} \cup InPlay)
    BY <2>1, MaxOfIds
  <2>3. Max({0} \cup InPlay) \in Nat
    BY <2>1, MaxOfIds
  <2>. QED
    BY <2>2, <2>3
<1>. HIDE DEF g
<1>3. record[g] \notin Records
  BY <1>1, <1>2 DEF InPlay, ReviewInv, ReviewTypes, ReviewsAssumption
<1>4. <<>> \in Records
  BY NothingPlayed
<1>5. record' \in [ReviewIds -> Records \cup {Nothing}]
  BY <1>1, <1>4 DEF ReviewInv, ReviewTypes
<1>6. ASSUME NEW h \in ReviewIds, record[h] \in Records
      PROVE  record'[h] = record[h] /\ Len(record[h]) <= Len(record'[h])
  <2>1. record'[h] = record[h]
    BY <1>1, <1>3, <1>6 DEF ReviewInv, ReviewTypes
  <2>2. Len(record[h]) \in Nat
    BY <1>6, RecordIsSeq, LenProperties
  <2>. QED
    BY <2>1, <2>2
<1>. QED
  BY <1>1, <1>5, <1>6, GamesMove

LEMMA PlayOnKeeps ==
    ASSUME ReviewInv, ReviewsAssumption, NEW g \in ReviewIds, NEW p \in Plays, PlayOn(g, p)
    PROVE  ReviewInv'
<1>1. /\ record[g] \in Records /\ Len(record[g]) < MaxRecord
      /\ record' = [record EXCEPT ![g] = Append(record[g], p)]
      /\ UNCHANGED <<analyses, review, altered, ahead>>
  BY DEF PlayOn, InPlay, ReviewInv, ReviewTypes
<1>2. /\ Append(record[g], p) \in Records /\ Len(Append(record[g], p)) = Len(record[g]) + 1
      /\ \A n \in 0..Len(record[g]) : SubSeq(Append(record[g], p), 1, n) = SubSeq(record[g], 1, n)
  BY <1>1, LongerRecord
<1>3. record' \in [ReviewIds -> Records \cup {Nothing}]
  BY <1>1, <1>2 DEF ReviewInv, ReviewTypes
<1>4. ASSUME NEW h \in ReviewIds, record[h] \in Records
      PROVE  /\ record'[h] \in Records /\ Len(record[h]) <= Len(record'[h])
             /\ \A n \in 0..Len(record[h]) : SubSeq(record'[h], 1, n) = SubSeq(record[h], 1, n)
  <2>1. record'[h] = IF h = g THEN Append(record[g], p) ELSE record[h]
    BY <1>1 DEF ReviewInv, ReviewTypes
  <2>2. Len(record[h]) \in Nat
    BY <1>4, RecordIsSeq, LenProperties
  <2>3. CASE h = g
    BY <1>2, <2>1, <2>2, <2>3
  <2>4. CASE h # g
    BY <1>4, <2>1, <2>2, <2>4
  <2>. QED
    BY <2>3, <2>4
<1>. QED
  BY <1>1, <1>3, <1>4, GamesMove

LEMMA UndoKeeps ==
    ASSUME ReviewInv, ReviewsAssumption, NEW g \in ReviewIds, UndoLast(g) \/ DropGame(g)
    PROVE  ReviewInv'
<1>1. /\ record[g] \in Records /\ altered' = altered \cup {g} /\ UNCHANGED <<analyses, review, ahead>>
      /\ \/ record' = [record EXCEPT ![g] = Nothing]
         \/ record[g] # <<>> /\ record' = [record EXCEPT ![g] = SubSeq(record[g], 1, Len(record[g]) - 1)]
  BY DEF UndoLast, DropGame, InPlay, ReviewInv, ReviewTypes
<1>2. record' \in [ReviewIds -> Records \cup {Nothing}]
  <2>1. CASE record' = [record EXCEPT ![g] = Nothing]
    BY <2>1 DEF ReviewInv, ReviewTypes
  <2>2. CASE record[g] # <<>> /\ record' = [record EXCEPT ![g] = SubSeq(record[g], 1, Len(record[g]) - 1)]
    <3>1. record[g] \in Seq(Plays) /\ Len(record[g]) \in Nat
      BY <1>1, RecordIsSeq, LenProperties
    <3>2. Len(record[g]) # 0
      BY <2>2, <3>1, EmptySeq
    <3>3. Len(record[g]) - 1 \in 0..Len(record[g])
      BY <3>1, <3>2
    <3>4. SubSeq(record[g], 1, Len(record[g]) - 1) \in Records
      BY <1>1, <3>3, PrefixIsRecord
    <3>. QED
      BY <2>2, <3>4 DEF ReviewInv, ReviewTypes
  <2>. QED
    BY <1>1, <2>1, <2>2
<1>3. ASSUME NEW h \in ReviewIds, h \notin altered', record[h] \in Records
      PROVE  record'[h] = record[h] /\ Len(record[h]) <= Len(record'[h])
  <2>1. record'[h] = record[h]
    BY <1>1, <1>3 DEF ReviewInv, ReviewTypes
  <2>2. Len(record[h]) \in Nat
    BY <1>3, RecordIsSeq, LenProperties
  <2>. QED
    BY <2>1, <2>2
<1>. QED
  BY <1>1, <1>2, <1>3, GamesMove

(* The end of the replay is the move asked for, or the end of the record.  *)
LEMMA WhereItStops ==
    ASSUME NEW n \in Nat, NEW l \in Nat
    PROVE  Min({n, l}) \in {n, l} /\ Min({n, l}) <= n /\ Min({n, l}) <= l
<1>1. \E x \in {n, l} : \A y \in {n, l} : x <= y
  <2>1. CASE n <= l
    BY <2>1
  <2>2. CASE l < n
    BY <2>2
  <2>. QED
    BY <2>1, <2>2
<1>2. Min({n, l}) \in {n, l} /\ \A y \in {n, l} : Min({n, l}) <= y
  BY <1>1 DEF Min
<1>. QED
  BY <1>2

(* A step that only moves one review on.                                   *)
LEMMA ReviewMoves ==
    ASSUME ReviewInv, ReviewsAssumption, NEW r \in Reviewers, NEW k \in ReviewFields,
           UNCHANGED <<record, analyses, altered>>, review' = [review EXCEPT ![r] = k],
           ahead \subseteq ahead', ahead' \subseteq ReviewIds \X MoveNumbers,
           UnderReview(k)', k.at = "engine" => Reflects(k)'
    PROVE  ReviewInv'
<1>1. ASSUME NEW e, Reflects(e)
      PROVE  Reflects(e)'
  BY <1>1 DEF Reflects
<1>2. \A e \in analyses' : Entry(e.id, e.move)' = {e} /\ Reflects(e)'
  BY <1>1 DEF ReviewInv, Entry
<1>3. review' \in [Reviewers -> ReviewFields] /\ \A s \in Reviewers :
          review'[s] = IF s = r THEN k ELSE review[s]
  BY DEF ReviewInv, ReviewTypes
<1>4. ASSUME NEW s \in Reviewers
      PROVE  UnderReview(review[s])' /\ (review'[s].at = "engine" => Reflects(review[s])')
  <2>1. CASE s = r
    <3>1. review'[s] = k
      BY <1>3, <2>1
    <3>. QED
      BY <3>1 DEF UnderReview, Reflects
  <2>2. CASE s # r
    <3>1. PICK x : x = review[s]
      OBVIOUS
    <3>2. x = review'[s] /\ UnderReview(x) /\ (x.at = "engine" => Reflects(x))
      BY <1>3, <2>2, <3>1 DEF ReviewInv
    <3>3. x.at = "engine" => Reflects(x)'
      BY <1>1, <3>2
    <3>. QED
      BY <3>2, <3>3 DEF UnderReview, Reflects
  <2>. QED
    BY <2>1, <2>2
<1>. QED
  BY <1>2, <1>3, <1>4 DEF ReviewInv, ReviewTypes

LEMMA AnalyzeKeeps ==
    ASSUME ReviewInv, ReviewsAssumption, NEW r \in Reviewers, NEW g \in ReviewIds,
           NEW n \in MoveNumbers, Analyze(r, g, n)
    PROVE  ReviewInv'
<1>1. PICK k : k = [NoReview EXCEPT !.at = "replay", !.id = g, !.move = n]
  OBVIOUS
<1>2. /\ record[g] \in Records /\ UNCHANGED <<record, analyses, altered, ahead>>
      /\ review' = [review EXCEPT ![r] = k]
  BY <1>1 DEF Analyze, InPlay, ReviewInv, ReviewTypes
<1>3. k \in ReviewFields /\ k.id = g /\ k.at = "replay"
  BY <1>1, NothingPlayed DEF NoReview, ReviewFields
<1>4. UnderReview(k)'
  BY <1>2, <1>3 DEF UnderReview
<1>5. ahead' \subseteq ReviewIds \X MoveNumbers
  BY <1>2 DEF ReviewInv, ReviewTypes
<1>. QED
  BY <1>2, <1>3, <1>4, <1>5, ReviewMoves

LEMMA ReplayKeeps ==
    ASSUME ReviewInv, ReviewsAssumption, NEW r \in Reviewers, Replay(r)
    PROVE  ReviewInv'
<1>1. PICK g, n, l : g = review[r].id /\ n = review[r].move /\ l = Len(Moves(g))
  OBVIOUS
<1>2. PICK k : k = [review[r] EXCEPT !.at = "engine", !.position = StateAt(g, n)]
  OBVIOUS
<1>3. /\ review[r].at = "replay" /\ UNCHANGED <<record, analyses, altered>>
      /\ review' = [review EXCEPT ![r] = k]
      /\ ahead' = IF n > l THEN ahead \cup {<<g, n>>} ELSE ahead
  BY <1>1, <1>2 DEF Replay, ReviewInv, ReviewTypes, ReviewFields
<1>4. /\ g \in ReviewIds /\ n \in MoveNumbers /\ n \in Nat
      /\ g \notin altered => record[g] \in Records
  BY <1>1, <1>3 DEF ReviewInv, ReviewTypes, ReviewFields, UnderReview, MoveNumbers, ReviewsAssumption
<1>5. Moves(g) \in Records
  BY <1>4, NothingPlayed DEF Moves, ReviewInv, ReviewTypes
<1>6. l \in Nat
  BY <1>1, <1>5, RecordIsSeq, LenProperties
<1>7. PICK m : m = Min({n, l})
  OBVIOUS
<1>8. m \in {n, l} /\ m <= n /\ m \in 0..l
  BY <1>4, <1>6, <1>7, WhereItStops
<1>9. StateAt(g, n) = SubSeq(Moves(g), 1, m) /\ StateAt(g, n) \in Records
  BY <1>1, <1>5, <1>7, <1>8, PrefixIsRecord DEF StateAt
<1>10. /\ k \in ReviewFields /\ k.id = g /\ k.move = n /\ k.at = "engine"
       /\ k.position = SubSeq(Moves(g), 1, m)
  BY <1>1, <1>2, <1>9 DEF ReviewInv, ReviewTypes, ReviewFields
<1>11. UnderReview(k)'
  BY <1>3, <1>4, <1>10 DEF UnderReview
<1>12. Reflects(k)'
  <2>. SUFFICES ASSUME g \notin altered
                PROVE  /\ record[g] \in Records
                       /\ \E x \in 0..Len(record[g]) :
                             /\ k.position = SubSeq(record[g], 1, x)
                             /\ x <= n /\ (x < n => <<g, n>> \in ahead')
    BY <1>3, <1>10 DEF Reflects
  <2>1. record[g] \in Records /\ Moves(g) = record[g]
    BY <1>4 DEF Moves, ReviewsAssumption
  <2>2. m < n => <<g, n>> \in ahead'
    BY <1>3, <1>4, <1>6, <1>8
  <2>. QED
    BY <1>1, <1>8, <1>10, <2>1, <2>2
<1>13. ahead \subseteq ahead' /\ ahead' \subseteq ReviewIds \X MoveNumbers
  BY <1>3, <1>4 DEF ReviewInv, ReviewTypes
<1>. QED
  BY <1>3, <1>10, <1>11, <1>12, <1>13, ReviewMoves

LEMMA FreeReviewer ==
    ASSUME ReviewsAssumption
    PROVE  NoReview \in ReviewFields /\ NoReview.at = "idle"
BY NothingPlayed DEF NoReview, ReviewFields, MoveNumbers, ReviewsAssumption

LEMMA FailsKeeps ==
    ASSUME ReviewInv, ReviewsAssumption, NEW r \in Reviewers, AnalyzeFails(r)
    PROVE  ReviewInv'
<1>1. PICK k : k = NoReview
  OBVIOUS
<1>2. /\ UNCHANGED <<record, analyses, altered, ahead>> /\ review' = [review EXCEPT ![r] = k]
      /\ ahead' \subseteq ReviewIds \X MoveNumbers
  BY <1>1 DEF AnalyzeFails, ReviewInv, ReviewTypes
<1>3. k \in ReviewFields /\ k.at = "idle"
  BY <1>1, FreeReviewer
<1>4. UnderReview(k)'
  BY <1>3 DEF UnderReview
<1>. QED
  BY <1>2, <1>3, <1>4, ReviewMoves

LEMMA AnalyzedKeeps ==
    ASSUME ReviewInv, ReviewsAssumption, NEW r \in Reviewers, AnalyzeDone(r)
    PROVE  ReviewInv'
<1>. DEFINE e == [id |-> review[r].id, move |-> review[r].move, position |-> review[r].position]
<1>1. /\ review[r].at = "engine" /\ review' = [review EXCEPT ![r] = NoReview]
      /\ UNCHANGED <<record, altered, ahead>>
      /\ analyses' = Inserted(e)
  BY DEF AnalyzeDone
<1>2. review[r].id \in ReviewIds /\ Reflects(review[r])
  BY <1>1 DEF ReviewInv, UnderReview
<1>3. e \in [id: ReviewIds, move: MoveNumbers, position: Records]
  BY <1>2 DEF ReviewInv, ReviewTypes, ReviewFields
<1>4. Reflects(e)
  BY <1>2 DEF Reflects
<1>. HIDE DEF e
<1>5. /\ analyses' \in SUBSET [id: ReviewIds, move: MoveNumbers, position: Records]
      /\ \A x \in analyses' : Entry(x.id, x.move)' = {x} /\ Reflects(x)
  <2>1. CASE analyses' = analyses
    BY <2>1 DEF ReviewInv, ReviewTypes, Entry
  <2>2. CASE analyses' = analyses \cup {e} /\ Entry(e.id, e.move) = {}
    <3>1. \A x \in analyses : x.id = e.id /\ x.move = e.move => FALSE
      BY <2>2 DEF Entry
    <3>2. \A x \in analyses : Entry(x.id, x.move) = {x} /\ Reflects(x)
      BY DEF ReviewInv
    <3>3. ASSUME NEW x \in analyses'
          PROVE  Entry(x.id, x.move)' = {x} /\ Reflects(x)
      <4>1. Entry(x.id, x.move)' = Entry(x.id, x.move) \cup (IF x.id = e.id /\ x.move = e.move
                                                            THEN {e} ELSE {})
        BY <2>2 DEF Entry
      <4>. QED
        BY <1>4, <2>2, <3>1, <3>2, <4>1
    <3>. QED
      BY <1>3, <2>2, <3>3 DEF ReviewInv, ReviewTypes
  <2>. QED
    BY <1>1, <2>1, <2>2 DEF Inserted
<1>6. \A s \in Reviewers : review'[s] = IF s = r THEN NoReview ELSE review[s]
  BY <1>1 DEF ReviewInv, ReviewTypes
<1>7. ReviewTypes'
  BY <1>1, <1>5, FreeReviewer DEF ReviewInv, ReviewTypes
<1>8. ASSUME NEW s \in Reviewers
      PROVE  UnderReview(review[s])' /\ (review'[s].at = "engine" => Reflects(review[s])')
  <2>1. CASE s = r
    BY <1>6, <2>1, FreeReviewer DEF UnderReview
  <2>2. CASE s # r
    BY <1>1, <1>6, <2>2 DEF ReviewInv, UnderReview, Reflects
  <2>. QED
    BY <2>1, <2>2
<1>9. \A x \in analyses' : Entry(x.id, x.move)' = {x} /\ Reflects(x)'
  BY <1>1, <1>5 DEF Reflects
<1>. QED
  BY <1>7, <1>8, <1>9 DEF ReviewInv

LEMMA ReviewsInvariance == ReviewsSpec => []ReviewInv
<1>1. ReviewsInit => ReviewInv
  BY InitReviews, ReviewsAssumption
<1>2. ReviewInv /\ [ReviewsNext]_reviewVars => ReviewInv'
  <2>. SUFFICES ASSUME ReviewInv, [ReviewsNext]_reviewVars
                PROVE  ReviewInv'
    OBVIOUS
  <2>. USE ReviewsAssumption
  <2>1. CASE BeginGame
    BY <2>1, BeginKeeps
  <2>2. ASSUME NEW g \in ReviewIds, NEW p \in Plays, PlayOn(g, p)
        PROVE  ReviewInv'
    BY <2>2, PlayOnKeeps
  <2>3. ASSUME NEW g \in ReviewIds, UndoLast(g) \/ DropGame(g)
        PROVE  ReviewInv'
    BY <2>3, UndoKeeps
  <2>4. ASSUME NEW r \in Reviewers, NEW g \in ReviewIds, NEW n \in MoveNumbers, Analyze(r, g, n)
        PROVE  ReviewInv'
    BY <2>4, AnalyzeKeeps
  <2>5. ASSUME NEW r \in Reviewers, Replay(r) \/ AnalyzeDone(r) \/ AnalyzeFails(r)
        PROVE  ReviewInv'
    BY <2>5, ReplayKeeps, AnalyzedKeeps, FailsKeeps
  <2>6. CASE UNCHANGED reviewVars
    BY <2>6 DEF reviewVars, ReviewInv, ReviewTypes, UnderReview, Reflects, Entry
  <2>. QED
    BY <2>1, <2>2, <2>3, <2>4, <2>5, <2>6 DEF ReviewsNext
<1>. QED
  BY <1>1, <1>2, PTL DEF ReviewsSpec

(* Of a game nothing was taken back from, a cached review shows the board  *)
(* at the move asked for, or, when that was asked for before it was        *)
(* played, an earlier one; and a move has one cached review, whatever is   *)
(* played and reviewed meanwhile.                                          *)
THEOREM ReviewsShowTheGame == ReviewsSpec => []ReviewOfGrowingGame
<1>1. ReviewInv => ReviewOfGrowingGame
  BY DEF ReviewInv, Reflects, ReviewOfGrowingGame
<1>. QED
  BY <1>1, ReviewsInvariance, PTL

-----------------------------------------------------------------------------
(* The shelves.                                                            *)

StrictOrder(R, S) ==
    /\ \A x \in S : <<x, x>> \notin R
    /\ \A x, y \in S : x # y => <<x, y>> \in R \/ <<y, x>> \in R
    /\ \A x, y, z \in S : <<x, y>> \in R /\ <<y, z>> \in R => <<x, z>> \in R

(* A strict order of a finite set can be written down in a row: an element *)
(* stands where the number of those before it says.                        *)
LEMMA RowExists ==
    ASSUME NEW S, IsFiniteSet(S), NEW R, StrictOrder(R, S)
    PROVE  \E list \in [1..Cardinality(S) -> S] :
              \A m, n \in DOMAIN list : m < n => <<list[m], list[n]>> \in R
<1>. DEFINE below == [x \in S |-> {y \in S : <<y, x>> \in R}]
            place == [x \in S |-> Cardinality(below[x]) + 1]
<1>1. PICK N \in Nat : N = Cardinality(S)
  BY FS_CardinalityType
<1>2. ASSUME NEW x \in S
      PROVE  /\ IsFiniteSet(below[x]) /\ Cardinality(below[x]) \in Nat
             /\ place[x] = Cardinality(below[x]) + 1
             /\ IsFiniteSet(below[x] \cup {x})
             /\ Cardinality(below[x] \cup {x}) = place[x]
  <2>1. IsFiniteSet(below[x]) /\ x \notin below[x]
    BY FS_Subset DEF StrictOrder
  <2>2. Cardinality(below[x]) \in Nat
    BY <2>1, FS_CardinalityType
  <2>3. /\ IsFiniteSet(below[x] \cup {x})
        /\ Cardinality(below[x] \cup {x}) = Cardinality(below[x]) + 1
    BY <2>1, FS_AddElement
  <2>4. place[x] = Cardinality(below[x]) + 1
    OBVIOUS
  <2>. QED
    BY <2>1, <2>2, <2>3, <2>4
<1>3. place \in [S -> Int] /\ DOMAIN place = S
  <2>1. ASSUME NEW x \in S
        PROVE  Cardinality(below[x]) + 1 \in Int
    <3>1. Cardinality(below[x]) \in Nat
      BY <1>2
    <3>. HIDE DEF below, place
    <3>. QED
      BY <3>1
  <2>. HIDE DEF below
  <2>. QED
    BY <2>1
<1>4. ASSUME NEW x \in S, NEW y \in S, <<x, y>> \in R
      PROVE  below[x] \cup {x} \in SUBSET below[y]
  BY <1>4 DEF StrictOrder
<1>5. ASSUME NEW x \in S
      PROVE  below[x] \cup {x} \in SUBSET S
  OBVIOUS
<1>. HIDE DEF place, below
<1>6. ASSUME NEW x \in S
      PROVE  place[x] \in 1..N
  <2>1. Cardinality(below[x] \cup {x}) <= N
    BY <1>1, <1>5, FS_Subset
  <2>. QED
    BY <1>1, <1>2, <2>1
<1>7. ASSUME NEW x \in S, NEW y \in S, <<x, y>> \in R
      PROVE  place[x] < place[y]
  <2>1. Cardinality(below[x] \cup {x}) <= Cardinality(below[y])
    BY <1>2, <1>4, <1>7, FS_Subset
  <2>2. Cardinality(below[y]) \in Nat /\ place[y] = Cardinality(below[y]) + 1
    BY <1>2
  <2>3. Cardinality(below[x] \cup {x}) = place[x] /\ place[x] \in 1..N
    BY <1>2, <1>6
  <2>. QED
    BY <2>1, <2>2, <2>3
<1>8. ASSUME NEW x \in S, NEW y \in S, place[x] = place[y]
      PROVE  x = y
  <2>1. place[x] \in Int /\ (x # y => <<x, y>> \in R \/ <<y, x>> \in R)
    BY <1>6 DEF StrictOrder
  <2>2. (<<x, y>> \in R => place[x] < place[y]) /\ (<<y, x>> \in R => place[y] < place[x])
    BY <1>7
  <2>. QED
    BY <1>8, <2>1, <2>2
<1>9. place \in Injection(S, 1..N)
  <2>1. place \in [S -> 1..N]
    BY <1>3, <1>6
  <2>. QED
    BY <1>3, <1>8, <2>1 DEF Injection, IsInjective
<1>10. IsFiniteSet(1..N) /\ Cardinality(1..N) = N
  BY FS_Interval
<1>11. place \in Surjection(S, 1..N)
  BY <1>1, <1>9, <1>10, FS_Injection
<1>12. \A n \in 1..N : \E x \in S : place[x] = n
  BY <1>11 DEF Surjection
<1>. DEFINE list == [n \in 1..N |-> CHOOSE x \in S : place[x] = n]
<1>13. \A n \in 1..N : list[n] \in S /\ place[list[n]] = n
  BY <1>12
<1>14. list \in [1..N -> S] /\ DOMAIN list = 1..N
  BY <1>13
<1>. HIDE DEF list
<1>15. ASSUME NEW m \in 1..N, NEW n \in 1..N, m < n
       PROVE  <<list[m], list[n]>> \in R
  <2>1. list[m] # list[n]
    BY <1>13, <1>15
  <2>2. <<list[n], list[m]>> \notin R
    <3>1. SUFFICES ASSUME <<list[n], list[m]>> \in R
                   PROVE  FALSE
      OBVIOUS
    <3>2. place[list[n]] < place[list[m]]
      BY <1>7, <1>13, <3>1
    <3>. QED
      BY <1>13, <1>15, <3>2
  <2>. QED
    BY <1>13, <2>1, <2>2 DEF StrictOrder
<1>. QED
  BY <1>1, <1>14, <1>15

(* Such a row shows every element once.                                    *)
LEMMA RowShowsOnce ==
    ASSUME NEW S, IsFiniteSet(S), NEW R, StrictOrder(R, S),
           NEW list \in [1..Cardinality(S) -> S],
           \A m, n \in DOMAIN list : m < n => <<list[m], list[n]>> \in R
    PROVE  /\ \A x \in S : \E n \in 1..Cardinality(S) : list[n] = x
           /\ \A m, n \in 1..Cardinality(S) : list[m] = list[n] => m = n
<1>1. PICK N \in Nat : N = Cardinality(S)
  BY FS_CardinalityType
<1>2. DOMAIN list = 1..N /\ list \in [1..N -> S] /\ \A n \in 1..N : list[n] \in S
  BY <1>1
<1>3. ASSUME NEW m \in 1..N, NEW n \in 1..N, list[m] = list[n]
      PROVE  m = n
  <2>1. ~(m < n) /\ ~(n < m)
    BY <1>2, <1>3 DEF StrictOrder
  <2>. QED
    BY <2>1
<1>4. list \in Injection(1..N, S)
  BY <1>2, <1>3 DEF Injection, IsInjective
<1>5. Cardinality(1..N) = N
  BY FS_Interval
<1>6. list \in Surjection(1..N, S)
  BY <1>1, <1>4, <1>5, FS_Injection
<1>7. \A x \in S : \E n \in 1..N : list[n] = x
  BY <1>6 DEF Surjection
<1>. QED
  BY <1>1, <1>3, <1>7

(* Each place is on one page, at one place of it.                          *)
LEMMA PageAndPlace ==
    ASSUME NEW p \in Nat \ {0}, NEW size \in Nat \ {0}
    PROVE  \E k \in 0..(p - 1), n \in 1..size :
              /\ p = k * size + n
              /\ \A j \in Nat, m \in 1..size : p = j * size + m => j = k /\ m = n
<1>1. PICK k \in Nat, r \in 0..(size - 1) : p - 1 = k * size + r /\ k <= p - 1
  <2>1. /\ p - 1 = size * ((p - 1) \div size) + ((p - 1) % size)
        /\ (p - 1) % size \in 0..(size - 1) /\ (p - 1) \div size \in Nat
    OBVIOUS
  <2>2. PICK k \in Nat, r \in 0..(size - 1) : p - 1 = size * k + r
    BY <2>1
  <2>3. size * k = k * size /\ k * size \in Nat
    BY <2>2
  <2>4. k <= k * size
    BY <2>2
  <2>. QED
    BY <2>2, <2>3, <2>4
<1>2. k \in 0..(p - 1) /\ r + 1 \in 1..size /\ p = k * size + (r + 1)
  <2>1. k * size \in Nat
    OBVIOUS
  <2>. QED
    BY <1>1, <2>1
<1>3. ASSUME NEW i \in Nat, NEW j \in Nat, i < j
      PROVE  j * size >= i * size + size
  <2>1. PICK d \in Nat : j = i + 1 + d
    <3>1. j - i - 1 \in Nat /\ j = i + 1 + (j - i - 1)
      BY <1>3
    <3>. QED
      BY <3>1
  <2>2. (i + 1 + d) * size = i * size + size + d * size
    OBVIOUS
  <2>3. d * size \in Nat /\ i * size \in Nat
    OBVIOUS
  <2>. QED
    BY <2>1, <2>2, <2>3
<1>4. ASSUME NEW j \in Nat, NEW m \in 1..size, p = j * size + m
      PROVE  j = k /\ m = r + 1
  <2>1. j * size \in Nat /\ k * size \in Nat
    OBVIOUS
  <2>2. ~(j < k)
    <3>1. SUFFICES ASSUME j < k
                   PROVE  FALSE
      OBVIOUS
    <3>2. k * size >= j * size + size
      BY <1>3, <3>1
    <3>. QED
      BY <1>2, <1>4, <2>1, <3>2
  <2>3. ~(k < j)
    <3>1. SUFFICES ASSUME k < j
                   PROVE  FALSE
      OBVIOUS
    <3>2. j * size >= k * size + size
      BY <1>3, <3>1
    <3>. QED
      BY <1>2, <1>4, <2>1, <3>2
  <2>4. j = k
    BY <2>2, <2>3
  <2>. QED
    BY <1>2, <1>4, <2>1, <2>4
<1>. QED
  BY <1>2, <1>4

LEMMA ShelfDates ==
    ASSUME ShelvesTypeOK, ShelvesAssumption
    PROVE  /\ today \in Int /\ Year \in Int /\ Year > 0 /\ NoDate \notin Int
           /\ OnShelf \subseteq Kifus /\ IsFiniteSet(OnShelf)
           /\ \A g \in Kifus : g \in Nat /\ g # NoGame
           /\ \A g \in OnShelf : /\ shelf[g].collection \in Collections
                                 /\ shelf[g].date # NoDate => shelf[g].date \in Nat
<1>1. /\ today \in Int /\ Year \in Int /\ Year > 0 /\ NoDate \notin Int
      /\ \A g \in Kifus : g \in Nat /\ g # NoGame
  BY DEF ShelvesTypeOK, ShelvesAssumption, Months
<1>2. OnShelf \subseteq Kifus /\ IsFiniteSet(Kifus)
  BY DEF OnShelf, ShelvesAssumption
<1>3. IsFiniteSet(OnShelf)
  BY <1>2, FS_Subset
<1>4. \A g \in OnShelf : shelf[g] \in ShelfRows
  BY DEF OnShelf, ShelvesTypeOK
<1>5. \A g \in OnShelf : /\ shelf[g].collection \in Collections
                         /\ shelf[g].date # NoDate => shelf[g].date \in Nat
  BY <1>4 DEF ShelfRows, Months, ShelvesAssumption
<1>. QED
  BY <1>1, <1>2, <1>3, <1>5

LEMMA PrecedesIsStrict ==
    ASSUME ShelvesTypeOK, ShelvesAssumption, NEW S \in SUBSET OnShelf
    PROVE  StrictOrder({p \in S \X S : Precedes(p[1], p[2])}, S)
<1>. DEFINE on(g) == shelf[g].date
            R == {p \in S \X S : Precedes(p[1], p[2])}
<1>1. \A g \in S : g \in Nat /\ (on(g) # NoDate => on(g) \in Nat)
  BY ShelfDates
<1>2. \A x, y \in S : Precedes(x, y) <=>
         \/ on(x) = on(y) /\ x > y
         \/ on(x) # NoDate /\ (on(y) = NoDate \/ on(x) > on(y))
  BY DEF Precedes
<1>3. \A x, y \in S : <<x, y>> \in R <=> Precedes(x, y)
  OBVIOUS
<1>. HIDE DEF R
<1>4. \A x \in S : <<x, x>> \notin R
  BY <1>1, <1>2, <1>3
<1>5. ASSUME NEW x \in S, NEW y \in S, x # y
      PROVE  <<x, y>> \in R \/ <<y, x>> \in R
  BY <1>1, <1>2, <1>3, <1>5
<1>6. ASSUME NEW x \in S, NEW y \in S, NEW z \in S, <<x, y>> \in R, <<y, z>> \in R
      PROVE  <<x, z>> \in R
  BY <1>1, <1>2, <1>3, <1>6
<1>. QED
  BY <1>4, <1>5, <1>6 DEF StrictOrder, R

(* What is shown in an order is shown once.                                *)
ShownOnce(list, S) ==
    /\ list \in [1..Cardinality(S) -> S] /\ DOMAIN list = 1..Cardinality(S)
    /\ \A x \in S : \E n \in 1..Cardinality(S) : list[n] = x
    /\ \A m, n \in 1..Cardinality(S) : list[m] = list[n] => m = n

LEMMA TabInOrder ==
    ASSUME ShelvesTypeOK, ShelvesAssumption, NEW S \in SUBSET OnShelf
    PROVE  ShownOnce(InOrder(S, Precedes), S)
<1>. DEFINE R == {p \in S \X S : Precedes(p[1], p[2])}
            list == InOrder(S, Precedes)
            Sorted(l) == \A m, n \in DOMAIN l : m < n => Precedes(l[m], l[n])
            Lists == [1..Cardinality(S) -> S]
<1>1. StrictOrder(R, S) /\ IsFiniteSet(S)
  BY PrecedesIsStrict, ShelfDates, FS_Subset
<1>2. \A l \in Lists : Sorted(l) <=> \A m, n \in DOMAIN l : m < n => <<l[m], l[n]>> \in R
  OBVIOUS
<1>. HIDE DEF R
<1>3. \E l \in Lists : \A m, n \in DOMAIN l : m < n => <<l[m], l[n]>> \in R
  BY <1>1, RowExists
<1>4. list \in Lists /\ Sorted(list)
  BY <1>2, <1>3 DEF InOrder
<1>5. PICK l \in Lists : l = list
  BY <1>4
<1>. HIDE DEF list
<1>6. \A m, n \in DOMAIN l : m < n => <<l[m], l[n]>> \in R
  BY <1>2, <1>4, <1>5
<1>7. /\ \A x \in S : \E n \in 1..Cardinality(S) : l[n] = x
      /\ \A m, n \in 1..Cardinality(S) : l[m] = l[n] => m = n
  BY <1>1, <1>6, RowShowsOnce
<1>. QED
  BY <1>5, <1>7 DEF ShownOnce, list

LEMMA IdsInOrder ==
    ASSUME ShelvesTypeOK, ShelvesAssumption, NEW S \in SUBSET OnShelf
    PROVE  ShownOnce(InOrder(S, <), S)
<1>. DEFINE R == {p \in S \X S : p[1] < p[2]}
            list == InOrder(S, <)
            Sorted(l) == \A m, n \in DOMAIN l : m < n => l[m] < l[n]
            Lists == [1..Cardinality(S) -> S]
<1>1. IsFiniteSet(S) /\ S \subseteq Nat
  BY ShelfDates, FS_Subset
<1>2. StrictOrder(R, S)
  <2>1. \A x, y \in S : <<x, y>> \in R <=> x < y
    OBVIOUS
  <2>. HIDE DEF R
  <2>. QED
    BY <1>1, <2>1 DEF StrictOrder
<1>3. \A l \in Lists : Sorted(l) <=> \A m, n \in DOMAIN l : m < n => <<l[m], l[n]>> \in R
  OBVIOUS
<1>. HIDE DEF R
<1>4. \E l \in Lists : \A m, n \in DOMAIN l : m < n => <<l[m], l[n]>> \in R
  BY <1>1, <1>2, RowExists
<1>5. list \in Lists /\ Sorted(list)
  BY <1>3, <1>4 DEF InOrder
<1>6. PICK l \in Lists : l = list
  BY <1>5
<1>. HIDE DEF list
<1>7. \A m, n \in DOMAIN l : m < n => <<l[m], l[n]>> \in R
  BY <1>3, <1>5, <1>6
<1>8. /\ \A x \in S : \E n \in 1..Cardinality(S) : l[n] = x
      /\ \A m, n \in 1..Cardinality(S) : l[m] = l[n] => m = n
  BY <1>1, <1>2, <1>7, RowShowsOnce
<1>. QED
  BY <1>6, <1>8 DEF ShownOnce, list

LEMMA ShelvesInvariance == ShelvesSpec => []ShelvesTypeOK
<1>1. ShelvesInit => ShelvesTypeOK
  BY ShelvesAssumption DEF ShelvesInit, ShelvesTypeOK, Months
<1>2. ShelvesTypeOK /\ [ShelvesNext]_shelfVars => ShelvesTypeOK'
  <2>. SUFFICES ASSUME ShelvesTypeOK, [ShelvesNext]_shelfVars
                PROVE  ShelvesTypeOK'
    OBVIOUS
  <2>1. ASSUME NEW g \in Kifus, NEW event \in Events, NEW on \in Months \cup {NoDate},
               NEW uploaded \in BOOLEAN, Import(g, event, on, uploaded)
        PROVE  ShelvesTypeOK'
    <3>1. (IF uploaded THEN "recent" ELSE Classify(event)) \in Collections
      BY DEF Classify, Collections
    <3>2. [collection |-> IF uploaded THEN "recent" ELSE Classify(event), event |-> event,
           date |-> on] \in ShelfRows
      BY <3>1 DEF ShelfRows
    <3>. QED
      BY <2>1, <3>2 DEF Import, ShelvesTypeOK
  <2>2. CASE \E g \in Kifus : Withdraw(g)
    BY <2>2 DEF Withdraw, ShelvesTypeOK
  <2>3. CASE NextMonth
    BY <2>3, ShelvesAssumption DEF NextMonth, ShelvesTypeOK, Months
  <2>4. CASE UNCHANGED shelfVars
    BY <2>4 DEF shelfVars, ShelvesTypeOK
  <2>. QED
    BY <2>1, <2>2, <2>3, <2>4 DEF ShelvesNext
<1>. QED
  BY <1>1, <1>2, PTL DEF ShelvesSpec

(* The cutoff that ends "recent" is where the other tabs begin.            *)
LEMMA OneTabEach ==
    ASSUME ShelvesTypeOK, ShelvesAssumption, NEW g \in OnShelf, shelf[g].collection # "recent"
    PROVE  Cardinality({tab \in Collections : g \in Tab(tab)}) = 1
<1>1. /\ shelf[g].collection \in Collections /\ today - Year \in Int
      /\ shelf[g].date # NoDate => shelf[g].date \in Nat
  BY ShelfDates
<1>2. Since(g, today - Year) <=> ~NotRecent(g)
  BY <1>1 DEF Since, NotRecent, Before
<1>3. PICK here \in Collections :
         here = IF Since(g, today - Year) THEN "recent" ELSE shelf[g].collection
  BY <1>1 DEF Collections
<1>4. \A tab \in Collections : g \in Tab(tab) <=> tab = here
  BY <1>2, <1>3 DEF Tab
<1>5. {tab \in Collections : g \in Tab(tab)} = {here}
  BY <1>3, <1>4
<1>. QED
  BY <1>5, FS_Singleton

LEMMA EachOnAPage ==
    ASSUME ShelvesTypeOK, ShelvesAssumption, NEW tab \in Collections,
           NEW limit \in 1..(Cardinality(Kifus) + 1), NEW g \in Tab(tab)
    PROVE  LET Page(k) == PageOf(tab, limit, k * limit)
               Shows(k, n) == n \in DOMAIN Page(k) /\ Page(k)[n] = g
           IN  \E k \in 0..Cardinality(Kifus), n \in 1..limit :
                  /\ Shows(k, n)
                  /\ \A j \in 0..Cardinality(Kifus), m \in 1..limit :
                        Shows(j, m) => <<j, m>> = <<k, n>>
<1>. DEFINE S == Tab(tab)
            Page(k) == PageOf(tab, limit, k * limit)
            Shows(k, n) == n \in DOMAIN Page(k) /\ Page(k)[n] = g
<1>1. S \in SUBSET OnShelf /\ OnShelf \subseteq Kifus /\ IsFiniteSet(Kifus)
  BY ShelfDates DEF Tab, ShelvesAssumption
<1>2. PICK N \in Nat, all \in Nat : N = Cardinality(S) /\ all = Cardinality(Kifus) /\ N <= all
  <2>1. IsFiniteSet(S) /\ Cardinality(S) <= Cardinality(Kifus)
    BY <1>1, FS_Subset
  <2>2. Cardinality(S) \in Nat /\ Cardinality(Kifus) \in Nat
    BY <1>1, <2>1, FS_CardinalityType
  <2>. QED
    BY <2>1, <2>2
<1>3. PICK list : list = InOrder(S, Precedes) /\ ShownOnce(list, S)
  BY <1>1, TabInOrder
<1>4. /\ DOMAIN list = 1..N /\ \A m, n \in 1..N : list[m] = list[n] => m = n
      /\ \E p \in 1..N : list[p] = g
  BY <1>2, <1>3 DEF ShownOnce
<1>5. limit \in Nat \ {0}
  BY <1>2
<1>6. ASSUME NEW k \in Nat, NEW n \in 1..limit
      PROVE  Shows(k, n) <=> k * limit + n \in 1..N /\ list[k * limit + n] = g
  <2>1. Page(k) = [i \in {i \in 1..limit : k * limit + i \in DOMAIN list} |-> list[k * limit + i]]
    BY <1>3 DEF PageOf
  <2>2. n \in DOMAIN Page(k) <=> k * limit + n \in 1..N
    BY <1>4, <2>1
  <2>3. n \in DOMAIN Page(k) => Page(k)[n] = list[k * limit + n]
    BY <2>1
  <2>. HIDE DEF Page
  <2>. QED
    BY <2>2, <2>3
<1>. HIDE DEF Page, Shows
<1>7. PICK p \in 1..N : list[p] = g
  BY <1>4
<1>8. ASSUME NEW k \in Nat, NEW n \in 1..limit
      PROVE  Shows(k, n) <=> k * limit + n = p
  BY <1>4, <1>6, <1>7
<1>9. PICK k \in 0..(p - 1), n \in 1..limit :
         /\ p = k * limit + n
         /\ \A j \in Nat, m \in 1..limit : p = j * limit + m => j = k /\ m = n
  <2>1. p \in Nat \ {0}
    OBVIOUS
  <2>. QED
    BY <1>5, <2>1, PageAndPlace
<1>10. k \in 0..all /\ k \in Nat /\ \A j \in 0..all : j \in Nat
  BY <1>2
<1>11. Shows(k, n) /\ \A j \in 0..all, m \in 1..limit : Shows(j, m) => j = k /\ m = n
  BY <1>8, <1>9, <1>10
<1>12. \E i \in 0..Cardinality(Kifus), h \in 1..limit :
          /\ Shows(i, h)
          /\ \A j \in 0..Cardinality(Kifus), m \in 1..limit : Shows(j, m) => <<j, m>> = <<i, h>>
  BY <1>2, <1>10, <1>11
<1>. QED
  BY <1>12 DEF Shows, Page

LEMMA EachMonthPicks ==
    ASSUME ShelvesTypeOK, ShelvesAssumption, NEW m \in 0..(Year - 1),
           NEW digest \in 0..Cardinality(Kifus)
    PROVE  LET pick == Pick(m, digest)
           IN  /\ pick = NoGame <=> \A g \in OnShelf : ~InMonth(g, m)
               /\ pick # NoGame => /\ InMonth(pick, m)
                                   /\ (\E g \in Theme("masterpieces") : InMonth(g, m))
                                         => pick \in Theme("masterpieces")
<1>. DEFINE S == Candidates(m)
            all == {g \in OnShelf : InMonth(g, m)}
            masters == {g \in OnShelf : InMonth(g, m) /\ shelf[g].collection = "masterpiece"}
<1>1. S = IF masters # {} THEN masters ELSE all
  BY DEF Candidates
<1>2. masters \subseteq all /\ S \in SUBSET OnShelf /\ (S = {} <=> all = {})
  BY <1>1
<1>3. \A g : g \in masters <=> g \in Theme("masterpieces") /\ InMonth(g, m)
  BY DEF Theme
<1>4. ASSUME S = {}
      PROVE  Pick(m, digest) = NoGame
  BY <1>4 DEF Pick
<1>5. ASSUME S # {}
      PROVE  Pick(m, digest) \in S
  <2>1. IsFiniteSet(S)
    BY <1>2, ShelfDates, FS_Subset
  <2>2. PICK N \in Nat : N = Cardinality(S) /\ N # 0
    BY <1>5, <2>1, FS_CardinalityType, FS_EmptySet
  <2>3. digest \in Nat
    <3>1. Cardinality(Kifus) \in Nat
      BY FS_CardinalityType DEF ShelvesAssumption
    <3>. QED
      BY <3>1
  <2>4. PickIndex(digest, N) \in 1..N
    BY <2>2, <2>3 DEF PickIndex
  <2>5. InOrder(S, <)[PickIndex(digest, N)] \in S
    <3>1. PICK list : list = InOrder(S, <) /\ ShownOnce(list, S)
      BY <1>2, IdsInOrder
    <3>2. list \in [1..N -> S]
      BY <2>2, <3>1 DEF ShownOnce
    <3>. QED
      BY <2>4, <3>1, <3>2
  <2>. QED
    BY <1>5, <2>2, <2>5 DEF Pick
<1>6. \A g \in S : g # NoGame
  BY <1>2, ShelfDates
<1>7. Pick(m, digest) = NoGame <=> S = {}
  BY <1>4, <1>5, <1>6
<1>. HIDE DEF S
<1>8. Pick(m, digest) # NoGame => Pick(m, digest) \in all
  BY <1>1, <1>2, <1>5, <1>7
<1>9. Pick(m, digest) # NoGame /\ masters # {} => Pick(m, digest) \in masters
  BY <1>1, <1>5, <1>7
<1>. QED
  BY <1>2, <1>3, <1>7, <1>8, <1>9

(* Whatever is on the shelves, every game but a recent one is on one tab,  *)
(* pages of any size show each once, and each month with a game has its    *)
(* pick.                                                                   *)
THEOREM ShelvesShowAll == ShelvesSpec => []ShelvesAreComplete
<1>1. ShelvesTypeOK => OneTab
  BY ShelvesAssumption, OneTabEach, EachOnAPage DEF OneTab
<1>2. ShelvesTypeOK => MonthHasPick
  BY ShelvesAssumption, EachMonthPicks DEF MonthHasPick
<1>. QED
  BY <1>1, <1>2, ShelvesInvariance, PTL DEF ShelvesAreComplete

-----------------------------------------------------------------------------
(* The five components together keep their types.                           *)

LEMMA PuzzleTypes ==
    ASSUME CatalogueIsSound, PuzzleInv
    PROVE  PuzzlesTypeOK
<1>1. ASSUME screen # NoPuzzle
      PROVE  /\ screen.base \in DOMAIN Challenges /\ screen.turn \in Symmetries
             /\ \A n \in DOMAIN screen.setup :
                   ToXY(screen.setup[n].point, Challenges[screen.base].size)
                       \in Board(Challenges[screen.base].size)
  <2>1. PICK k \in DOMAIN Challenges, t \in Symmetries : screen = Variant(k, t)
    BY <1>1 DEF PuzzleInv
  <2>. DEFINE base == Challenges[k]
              size == base.size
  <2>2. /\ screen.base = k /\ screen.turn = t /\ DOMAIN screen.setup = DOMAIN base.setup
        /\ \A n \in DOMAIN base.setup :
              ToXY(screen.setup[n].point, size) = Transform(ToXY(base.setup[n].point, size), size, t)
    BY <2>1, VariantStones
  <2>3. size \in Nat /\ \A n \in DOMAIN base.setup : ToXY(base.setup[n].point, size) \in Board(size)
    BY DEF CatalogueIsSound
  <2>4. \A n \in DOMAIN base.setup :
           Transform(ToXY(base.setup[n].point, size), size, t) \in Board(size)
    BY <2>3, TransformStays
  <2>. QED
    BY <2>2, <2>4
<1>2. ASSUME NEW o \in open
      PROVE  o.id[2] \in IdSuffixes
  <2>1. PICK k \in DOMAIN Challenges, t \in Symmetries : o.id = Variant(k, t).id
    BY DEF PuzzleInv, IsVariant
  <2>2. o.id = <<Challenges[k].name, IF t = 0 THEN Whole ELSE t>>
    BY <2>1, VariantStones
  <2>3. o.id[2] = IF t = 0 THEN Whole ELSE t
    BY <2>2
  <2>. QED
    BY <2>3 DEF Symmetries, Whole, IdSuffixes
<1>. QED
  BY <1>1, <1>2 DEF PuzzlesTypeOK, PuzzleInv

(* Every part keeps its types; the puzzles do if the catalogue the import  *)
(* of ingest_gogameguru.py makes is sound.                                 *)
THEOREM ContentTypes ==
    ASSUME CatalogueIsSound
    PROVE  ContentSpec => []ContentTypeOK
<1>1. ContentInit => LibraryInit /\ ShelvesInit /\ PuzzlesInit /\ ConsoleInit /\ ReviewsInit
  BY DEF ContentInit
<1>2. [ContentNext]_<<part, libVars, shelfVars, puzzleVars, consoleVars, reviewVars>>
        => /\ [LibraryNext]_libVars /\ [ShelvesNext]_shelfVars /\ [PuzzlesNext]_puzzleVars
           /\ [ConsoleNext]_consoleVars /\ [ReviewsNext]_reviewVars
  BY DEF ContentNext
<1>3. ContentSpec => LibrarySpec /\ ShelvesSpec /\ PuzzlesSpec /\ ConsoleSpec /\ ReviewsSpec
  BY <1>1, <1>2, PTL DEF ContentSpec, LibrarySpec, ShelvesSpec, PuzzlesSpec, ConsoleSpec,
                         ReviewsSpec
<1>4. LibInv => LibraryTypeOK
  <2>. SUFFICES ASSUME LibInv
                PROVE  LibraryTypeOK
    OBVIOUS
  <2>1. \A p \in Importers : imp[p] \in Runs
    BY DEF LibInv, LibTypes
  <2>2. \A p \in Importers : /\ imp[p].at \in {"idle", "crawl", "read", "save"}
                             /\ imp[p].todo \subseteq Files /\ imp[p].seen \subseteq Hashes
                             /\ imp[p].adds \subseteq [hash: Hashes, round: BOOLEAN]
    BY <2>1 DEF Runs, AddedRows
  <2>. QED
    BY <2>2 DEF LibInv, LibTypes, LibraryTypeOK
<1>5. PuzzleInv => PuzzlesTypeOK
  BY PuzzleTypes
<1>6. ConsoleInv => ConsoleTypeOK
  BY DEF ConsoleInv, ConsoleTypes, ConsoleTypeOK, QueryRows
<1>7. ReviewInv => ReviewsTypeOK
  BY DEF ReviewInv, ReviewTypes, ReviewFields, ReviewsTypeOK
<1>8. LibraryTypeOK /\ ShelvesTypeOK /\ PuzzlesTypeOK /\ ConsoleTypeOK /\ ReviewsTypeOK
        => ContentTypeOK
  BY DEF ContentTypeOK
<1>9. PuzzlesSpec => []PuzzleInv
  BY PuzzleInvariance
<1>. QED
  BY <1>3, <1>4, <1>5, <1>6, <1>7, <1>8, <1>9, LibraryInvariance, ShelvesInvariance,
     ConsoleInvariance, ReviewsInvariance, PTL
=============================================================================
