----------------------------- MODULE MCContent -----------------------------
(* Instance for TLC of the five components that keep content.              *)
(* Each keeps what it needs of the rows of the others, so a behaviour runs *)
(* one of them and leaves the others where they begin.                     *)
EXTENDS Library, Shelves, Puzzles, SearchConsole, Reviews

\* Two curated puzzles, one of each side's move, and three problem files:
\* one with stones off the board and twice on a point, one that does not
\* say who moves, and one that is left with too few stones
Stone(c, x, y) == [color |-> c, point |-> <<x, y>>]
Written ==
    << [name |-> <<"ch", "opening", 1>>, size |-> 3, difficulty |-> "easy",
        topic |-> "opening", toMove |-> "W",
        setup |-> <<Stone("B", 1, 1), Stone("W", 2, 1), Stone("B", 2, 3)>>],
       [name |-> <<"ch", "life_death", 1>>, size |-> 2, difficulty |-> "hard",
        topic |-> "life_death", toMove |-> "B",
        setup |-> <<Stone("W", 1, 1), Stone("B", 1, 2)>>] >>
Problems ==
    { [difficulty |-> "medium", number |-> 1, size |-> 3, first |-> "B",
       black |-> <<Stone("B", 0, 0), Stone("B", 3, 0)>>,
       white |-> <<Stone("W", 0, 0), Stone("W", 0, 1)>>],
      [difficulty |-> "hard", number |-> 2, size |-> 3, first |-> "?",
       black |-> <<Stone("B", 0, 0), Stone("B", 1, 0)>>, white |-> <<>>],
      [difficulty |-> "easy", number |-> 4, size |-> 3, first |-> "W",
       black |-> <<Stone("B", 2, 0), Stone("B", 5, 1)>>, white |-> <<>>] }

VARIABLE part

\* The library begins with a misread row, or with all files on the site but
\* one; when another part runs, in one way
ContentInit ==
    /\ part \in {"library", "shelves", "puzzles", "console", "reviews"}
    /\ LibraryInit /\ ShelvesInit /\ PuzzlesInit /\ ConsoleInit /\ ReviewsInit
    /\ library[1] = Absent \/ site.files = Files
    /\ part # "library" => library[1] = Absent /\ site.files = Files

ContentNext ==
    /\ UNCHANGED part
    /\ \/ /\ part = "library" /\ LibraryNext
          /\ UNCHANGED <<shelfVars, puzzleVars, consoleVars, reviewVars>>
       \/ /\ part = "shelves" /\ ShelvesNext
          /\ UNCHANGED <<libVars, puzzleVars, consoleVars, reviewVars>>
       \/ /\ part = "puzzles" /\ PuzzlesNext
          /\ UNCHANGED <<libVars, shelfVars, consoleVars, reviewVars>>
       \/ /\ part = "console" /\ ConsoleNext
          /\ UNCHANGED <<libVars, shelfVars, puzzleVars, reviewVars>>
       \/ /\ part = "reviews" /\ ReviewsNext
          /\ UNCHANGED <<libVars, shelfVars, puzzleVars, consoleVars>>

ContentSpec ==
    ContentInit /\ [][ContentNext]_<<part, libVars, shelfVars, puzzleVars, consoleVars,
                                     reviewVars>>

(* The five components keep their types, and the catalogue the import of   *)
(* ingest_gogameguru.py makes is sound.                                    *)
ContentTypeOK ==
    /\ LibraryTypeOK /\ ShelvesTypeOK /\ PuzzlesTypeOK /\ ConsoleTypeOK /\ ReviewsTypeOK
=============================================================================
