------------------------------ MODULE Puzzles ------------------------------
(* The daily challenge's catalogue: imported problem files beside curated  *)
(* ones, the eight variants of each, the id under which a variant travels  *)
(* to the browser and back, today's puzzle and the random next one, and    *)
(* the grading of an answer, apart from the engine (see EngineSlots).      *)
(*                                                                         *)
(* A GTP coordinate is a pair of column and row, both from 1; a point is a *)
(* pair of column and row from 0, the row counted from the top.            *)
EXTENDS Integers, FiniteSets, Sequences, SequencesExt

CONSTANTS
    Curated,      \* the puzzles written by hand, a sequence
    Archive,      \* the problem files of the archive, a set
    Fewest,       \* stones below which a file is no puzzle
    MaxDay,       \* bound: the calendar
    MaxAsked,     \* bound: puzzles asked for
    NoPuzzle,
    Unset         \* a filter that is not set

ASSUME PuzzlesAssumption == MaxDay \in Nat /\ MaxAsked \in Nat

Symmetries == 0..7
Whole == -1                      \* an id without ".t<idx>"
IdSuffixes == Whole..8             \* 8 stands for every suffix that is none

(***************************************************************************)
(* sgf_coord.py and the geometry                                           *)
(***************************************************************************)
Board(size) == (0..(size - 1)) \X (0..(size - 1))
ToXY(coord, size) == <<coord[1] - 1, size - coord[2]>>
ToGtp(p, size) == <<p[1] + 1, size - p[2]>>

LineCount(size) == size          \* mutant: lines counted from 1
LastLine(size) == size - 1
Transform(p, size, t) ==
    LET x == p[1]  y == p[2]  n == LastLine(size)
    IN  CASE t = 0 -> <<x, y>>         [] t = 1 -> <<n - y, x>>
          [] t = 2 -> <<n - x, n - y>> [] t = 3 -> <<y, n - x>>
          [] t = 4 -> <<n - x, y>>     [] t = 5 -> <<x, n - y>>
          [] t = 6 -> <<y, x>>         [] t = 7 -> <<n - y, n - x>>

Neighbours(p, q) ==
    \/ p[1] = q[1] /\ (p[2] = q[2] + 1 \/ q[2] = p[2] + 1)
    \/ p[2] = q[2] /\ (p[1] = q[1] + 1 \/ q[1] = p[1] + 1)

(***************************************************************************)
(* ingest_gogameguru.py: black's points, then white's, those off the board *)
(* and those already taken left out; a file that is too sparse is no puzzle*)
(***************************************************************************)
Taken(setup, point) == \E k \in DOMAIN setup : setup[k].point = point
Place(size, setup, stone) ==
    IF stone.point \notin Board(size) \/ Taken(setup, ToGtp(stone.point, size)) THEN setup
    ELSE Append(setup, [color |-> stone.color, point |-> ToGtp(stone.point, size)])

ParseSgf(file) ==
    [name |-> <<"ggg", file.difficulty, file.number>>, size |-> file.size,
     difficulty |-> file.difficulty, topic |-> "life_death", toMove |-> file.first,
     setup |-> FoldLeft(LAMBDA setup, stone : Place(file.size, setup, stone), <<>>,
                        file.black \o file.white)]

Alphabetical(d) == CHOOSE k \in 1..3 : <<"easy", "hard", "medium">>[k] = d
Imported ==
    SetToSortSeq({p \in {ParseSgf(file) : file \in {f \in Archive : f.first # "?"}} :
                    Len(p.setup) >= Fewest},
                 LAMBDA p, q : \/ Alphabetical(p.difficulty) < Alphabetical(q.difficulty)
                               \/ p.difficulty = q.difficulty /\ p.name[3] < q.name[3])

\* CHALLENGES, _BY_ID and filter_challenges
Challenges == Curated \o Imported
Named(name) == {k \in DOMAIN Challenges : Challenges[k].name = name}
Matches(size, difficulty, topic) ==
    {k \in DOMAIN Challenges :
        /\ size \in {Unset, Challenges[k].size}
        /\ difficulty \in {Unset, Challenges[k].difficulty}
        /\ topic \in {Unset, Challenges[k].topic}}

\* What the curated list must keep, and the import ensures of its own:
\* names are unique, stones stand on different points of the board
Stones == [color: {"B", "W"}, point: Int \X Int]
CatalogueIsSound ==
    /\ Challenges \in Seq(Range(Challenges)) /\ Challenges # <<>>
    /\ \A k \in DOMAIN Challenges :
          LET p == Challenges[k]
          IN  /\ p.size \in Nat
              /\ \A j \in DOMAIN Challenges : Challenges[j].name = p.name => j = k
              /\ \A n \in DOMAIN p.setup :
                    /\ p.setup[n] \in Stones
                    /\ ToXY(p.setup[n].point, p.size) \in Board(p.size)
                    /\ \A m \in DOMAIN p.setup : p.setup[m].point = p.setup[n].point => m = n

(***************************************************************************)
(* Ids of variants, there and back                                         *)
(***************************************************************************)
Variant(k, t) ==                                            \* _apply_transform
    LET base == Challenges[k]
        moved(c) == ToGtp(Transform(ToXY(c, base.size), base.size, t), base.size)
    IN  IF t = 0 THEN [id |-> <<base.name, Whole>>, base |-> k, turn |-> 0, setup |-> base.setup]
        ELSE [id |-> <<base.name, t>>, base |-> k, turn |-> t,
              setup |-> [n \in DOMAIN base.setup |->
                            [base.setup[n] EXCEPT !.point = moved(@)]]]

Unturned(id) == IF id[2] = 8 THEN <<NoPuzzle, 0>> ELSE <<id[1], 0>>     \* mutant
SplitId(id) == CASE id[2] = Whole -> <<id[1], 0>>
                 [] id[2] \in Symmetries -> id
                 [] OTHER -> <<NoPuzzle, 0>>      \* the whole text is the name

GetById(id) ==
    LET named == Named(SplitId(id)[1])
    IN  IF named = {} THEN NoPuzzle ELSE Variant(CHOOSE k \in named : TRUE, SplitId(id)[2])

\* The points of a setup as the rules engine places them
Replayed(v) ==
    LET size == Challenges[v.base].size
    IN  {[color |-> v.setup[n].color, at |-> ToXY(v.setup[n].point, size)] : n \in DOMAIN v.setup}

DailyIndex(day) == (day % Len(Challenges)) + 1

\* pick_random: another base if the filter has one, else another turn of it
OtherTurns(id) == Symmetries \ {SplitId(id)[2]}
OtherBases(found, id) == {k \in found : Challenges[k].name # SplitId(id)[1]}
Picks(found, id) ==
    IF id = NoPuzzle THEN {Variant(k, t) : k \in found, t \in Symmetries}
    ELSE IF OtherBases(found, id) # {}
    THEN {Variant(k, t) : k \in OtherBases(found, id), t \in Symmetries}
    ELSE {Variant(k, t) : k \in found, t \in OtherTurns(id)}

-----------------------------------------------------------------------------
VARIABLES
    day,
    screen,    \* the puzzle the browser shows
    open,      \* ids of puzzles shown before, in other tabs or the history
    reply,     \* the last answer of the server
    asked
puzzleVars == <<day, screen, open, reply, asked>>

PuzzlesInit ==
    /\ day = 0 /\ asked = 0
    /\ screen = NoPuzzle
    /\ open = {}
    /\ reply = [kind |-> "none"]

Show(v) == /\ screen' = v
           /\ open' = open \cup {[id |-> v.id, stones |-> Replayed(v)]}
           /\ asked' = asked + 1

Midnight == /\ day < MaxDay
            /\ day' = day + 1
            /\ UNCHANGED <<screen, open, reply, asked>>

\* GET /api/daily-challenge
TodaysChallenge ==
    /\ asked < MaxAsked
    /\ Show(Variant(DailyIndex(day), 0))
    /\ reply' = [kind |-> "today"]
    /\ UNCHANGED day

\* GET /random with some filter: "next" excludes the puzzle on the screen
RandomChallenge(found, next) ==
    LET id == IF next /\ screen # NoPuzzle THEN screen.id ELSE NoPuzzle
    IN  /\ asked < MaxAsked
        /\ IF found = {}
           THEN /\ reply' = [kind |-> "no_match"]
                /\ UNCHANGED <<screen, open, asked>>
           ELSE /\ \E v \in Picks(found, id) : Show(v)
                /\ reply' = IF id = NoPuzzle THEN [kind |-> "random"]
                            ELSE [kind |-> "next", found |-> found]
        /\ UNCHANGED day

\* POST /answer: the move is best among the engine's five, or judged by the
\* winrate it costs, in steps of 0.05; an analysis may fail
Verdict(best, drop) == CASE best -> "best" [] drop < 1 -> "ok" [] drop < 3 -> "weak" [] OTHER -> "miss"
GradeAnswer(id) ==
    LET v == GetById(id)
    IN  /\ IF v = NoPuzzle THEN reply' = [kind |-> "challenge_not_found", id |-> id]
           ELSE \E verdict \in {"illegal", "analysis_failed"} \cup
                               {Verdict(best, drop) : best \in BOOLEAN, drop \in 0..3} :
                   reply' = [kind |-> "graded", id |-> id, verdict |-> verdict,
                             stones |-> Replayed(v), toMove |-> Challenges[v.base].toMove]
        /\ UNCHANGED <<day, screen, open, asked>>

Sizes == {Challenges[k].size : k \in DOMAIN Challenges}
Topics == {Challenges[k].topic : k \in DOMAIN Challenges}
Difficulties == {"easy", "medium", "hard"}
Filtered == {Matches(size, difficulty, topic) : size \in Sizes \cup {Unset},
                difficulty \in Difficulties \cup {Unset}, topic \in Topics \cup {Unset}}
PuzzlesNext ==
    \/ Midnight \/ TodaysChallenge
    \/ \E found \in Filtered, next \in BOOLEAN : RandomChallenge(found, next)
    \/ \E o \in open : \E s \in {o.id[2], Whole, 0, 8} : GradeAnswer(<<o.id[1], s>>)

PuzzlesSpec == PuzzlesInit /\ [][PuzzlesNext]_puzzleVars

-----------------------------------------------------------------------------
PuzzlesTypeOK ==
    /\ CatalogueIsSound
    /\ day \in 0..MaxDay /\ asked \in 0..MaxAsked
    /\ screen # NoPuzzle =>
          /\ screen.base \in DOMAIN Challenges /\ screen.turn \in Symmetries
          /\ \A n \in DOMAIN screen.setup :
                ToXY(screen.setup[n].point, Challenges[screen.base].size)
                    \in Board(Challenges[screen.base].size)
    /\ \A o \in open : o.id[2] \in IdSuffixes

(* An answer is graded on the position its browser shows: the id leads     *)
(* back to the same variant, however long ago it was sent out.             *)
GradedAsShown ==
    reply.kind = "graded" => \A o \in open : o.id = reply.id => o.stones = reply.stones

(* "Next puzzle" is never the one on the screen: it comes from another     *)
(* base if the filter has one, and is another turn of it otherwise.        *)
NextIsAnother ==
    [][reply'.kind = "next" =>
          /\ screen'.id # screen.id
          /\ screen'.base = screen.base => reply'.found = {screen.base} /\ screen'.turn # screen.turn
      ]_<<screen, asked>>

(* Whatever is shown plays like its base: no two stones share a point, and *)
(* the variant has the same stones in contact and on the edge as the base, *)
(* so chains, liberties and the answer's verdict are those of the problem. *)
Edge(p, size) == \E c \in {0, size - 1} : c \in {p[1], p[2]}
PlaysLikeBase ==
    screen # NoPuzzle =>
        LET size == Challenges[screen.base].size
            new(n) == ToXY(screen.setup[n].point, size)
            old(n) == ToXY(Challenges[screen.base].setup[n].point, size)
        IN  \A m, n \in DOMAIN screen.setup :
                /\ m # n => new(m) # new(n)
                /\ Neighbours(new(m), new(n)) <=> Neighbours(old(m), old(n))
                /\ Edge(new(m), size) <=> Edge(old(m), size)
=============================================================================
