--------------------------- MODULE GoRulesProofs ---------------------------
(***************************************************************************)
(* core/rules for boards of every size: the flood fill visits exactly a    *)
(* connected region, so that after any game every group has a liberty and  *)
(* every stone is accounted for; comparing whole boards is the ko rule;    *)
(* and territory is what one side walls in, worth the same however it is   *)
(* counted.                                                                *)
(***************************************************************************)
EXTENDS GoRules, FiniteSetTheorems, TLAPS

-----------------------------------------------------------------------------
(* The board.                                                              *)

(* A point is a pair of numbers on the board.                              *)
LEMMA PointIsPair ==
    ASSUME NEW p \in Points
    PROVE  /\ p = <<p[1], p[2]>>
           /\ p[1] \in Int /\ 0 <= p[1] /\ p[1] <= Size - 1
           /\ p[2] \in Int /\ 0 <= p[2] /\ p[2] <= Size - 1
  BY RulesAssumption DEF Points

LEMMA PairIsPoint ==
    ASSUME NEW x \in Int, NEW y \in Int,
           0 <= x, x <= Size - 1, 0 <= y, y <= Size - 1
    PROVE  <<x, y>> \in Points
  BY RulesAssumption DEF Points

(* Next to each other is symmetric, and nothing is next to itself.         *)
LEMMA NeighborsSymmetric ==
    ASSUME NEW p \in Points, NEW q \in Neighbors(p)
    PROVE  q \in Points /\ p \in Neighbors(q) /\ q # p
<1>1. q \in Points
  BY DEF Neighbors
<1>2. p = <<p[1], p[2]>> /\ q = <<q[1], q[2]>>
      /\ p[1] \in Int /\ p[2] \in Int /\ q[1] \in Int /\ q[2] \in Int
  BY <1>1, PointIsPair
<1>3. \/ q[1] = p[1] + 1 /\ q[2] = p[2]
      \/ q[1] = p[1] - 1 /\ q[2] = p[2]
      \/ q[1] = p[1] /\ q[2] = p[2] + 1
      \/ q[1] = p[1] /\ q[2] = p[2] - 1
  BY <1>2 DEF Neighbors
<1>4. \/ p = <<q[1] + 1, q[2]>> \/ p = <<q[1] - 1, q[2]>>
      \/ p = <<q[1], q[2] + 1>> \/ p = <<q[1], q[2] - 1>>
  BY <1>2, <1>3
<1>5. p \in Neighbors(q)
  BY <1>4 DEF Neighbors
<1>6. q # p
  BY <1>2, <1>3
<1>. QED
  BY <1>1, <1>5, <1>6

LEMMA PointsFinite == IsFiniteSet(Points)
<1>1. IsFiniteSet(0..(Size - 1))
  BY RulesAssumption, FS_Interval
<1>. QED
  BY <1>1, FS_Product DEF Points

-----------------------------------------------------------------------------
(* The flood fill.  Grow is one round of it; what it ends with is the      *)
(* least set of points that has its start and that no round makes larger.  *)

Grow(b, v, S) == S \cup {q \in UNION {Neighbors(r) : r \in S} : b[q] = v}
Filled(b, v, S) == {q \in Points : \A T \in SUBSET Points : S \subseteq T /\ Grow(b, v, T) = T => q \in T}
FillOf(b, v, f) == [S \in SUBSET Points |-> IF Grow(b, v, S) = S THEN S ELSE f[Grow(b, v, S)]]

LEMMA GrowStays ==
    ASSUME NEW b, NEW v, NEW S \in SUBSET Points
    PROVE  Grow(b, v, S) \in SUBSET Points /\ S \subseteq Grow(b, v, S)
  BY DEF Grow, Neighbors

LEMMA GrowMonotonic ==
    ASSUME NEW b, NEW v, NEW S, NEW T, S \subseteq T
    PROVE  Grow(b, v, S) \subseteq Grow(b, v, T)
  BY DEF Grow

(* A round does not change where the fill ends.                            *)
LEMMA FilledStep ==
    ASSUME NEW b, NEW v, NEW S \in SUBSET Points
    PROVE  /\ Grow(b, v, S) = S => Filled(b, v, S) = S
           /\ Filled(b, v, Grow(b, v, S)) = Filled(b, v, S)
<1>1. ASSUME Grow(b, v, S) = S
      PROVE  Filled(b, v, S) = S
  BY <1>1 DEF Filled
<1>2. \A T \in SUBSET Points :
         S \subseteq T /\ Grow(b, v, T) = T <=> Grow(b, v, S) \subseteq T /\ Grow(b, v, T) = T
  BY GrowMonotonic, GrowStays
<1>3. Filled(b, v, Grow(b, v, S)) = Filled(b, v, S)
  BY <1>2 DEF Filled
<1>. QED
  BY <1>1, <1>3

(* The recursion has a solution.                                           *)
LEMMA FillExists ==
    ASSUME NEW b, NEW v
    PROVE  \E f : f = FillOf(b, v, f)
<1>. DEFINE f == [S \in SUBSET Points |-> Filled(b, v, S)]
<1>1. ASSUME NEW S \in SUBSET Points
      PROVE  f[S] = IF Grow(b, v, S) = S THEN S ELSE f[Grow(b, v, S)]
  BY FilledStep, GrowStays
<1>2. f = FillOf(b, v, f)
  BY <1>1 DEF FillOf
<1>. QED
  BY <1>2

(* It has no other: a set for which a solution went wrong and that lacks   *)
(* as few points as possible would grow into one that lacks fewer.         *)
LEMMA LeastNatural ==
    ASSUME NEW T \in SUBSET Nat, T # {}
    PROVE  \E x \in T : \A y \in T : x <= y
<1>1. \A x, y \in Nat : <<y, x>> \in OpToRel(<, Nat) <=> y < x
  BY DEF OpToRel
<1>2. PICK R : IsWellFoundedOn(R, Nat) /\ \A x, y \in Nat : <<y, x>> \in R <=> y < x
  BY <1>1, NatLessThanWellFounded, Zenon
<1>3. PICK x \in T : \A y \in T : ~ (<<y, x>> \in R)
  BY <1>2, WFMin
<1>4. ASSUME NEW y \in T
      PROVE  x <= y
  <2>1. x \in Nat /\ y \in Nat /\ ~ (y < x)
    BY <1>2, <1>3
  <2>. QED
    BY <2>1
<1>. QED
  BY <1>4

LEMMA FillUnique ==
    ASSUME NEW b, NEW v, NEW f, f = FillOf(b, v, f), NEW S \in SUBSET Points
    PROVE  f[S] = Filled(b, v, S)
<1>. DEFINE Wrong == {T \in SUBSET Points : f[T] # Filled(b, v, T)}
            Lacks(T) == Cardinality(Points \ T)
<1>1. \A T \in SUBSET Points : IsFiniteSet(Points \ T) /\ Lacks(T) \in Nat
  BY PointsFinite, FS_Difference, FS_CardinalityType
<1>2. SUFFICES ASSUME Wrong # {}
               PROVE  FALSE
  OBVIOUS
<1>3. PICK T \in Wrong : \A U \in Wrong : Lacks(T) <= Lacks(U)
  <2>1. {Lacks(T) : T \in Wrong} \in SUBSET Nat /\ {Lacks(T) : T \in Wrong} # {}
    BY <1>1, <1>2
  <2>. HIDE DEF Wrong, Lacks
  <2>2. PICK n \in {Lacks(T) : T \in Wrong} : \A m \in {Lacks(T) : T \in Wrong} : n <= m
    BY <2>1, LeastNatural
  <2>. QED
    BY <2>2
<1>. DEFINE U == Grow(b, v, T)
<1>4. T \in SUBSET Points /\ U \in SUBSET Points /\ T \subseteq U
  BY GrowStays
<1>5. f[T] = IF U = T THEN T ELSE f[U]
  BY <1>4 DEF FillOf
<1>6. U # T
  BY <1>3, <1>4, <1>5, FilledStep
<1>7. U \in Wrong
  BY <1>3, <1>4, <1>5, <1>6, FilledStep
<1>8. Lacks(U) < Lacks(T)
  <2>1. Points \ U \in SUBSET (Points \ T) /\ Points \ U # Points \ T
    BY <1>4, <1>6
  <2>2. /\ Lacks(U) <= Lacks(T)
        /\ Lacks(U) = Lacks(T) => Points \ U = Points \ T
    BY <1>1, <1>4, <2>1, FS_Subset
  <2>. QED
    BY <1>1, <1>4, <2>1, <2>2
<1>9. Lacks(T) <= Lacks(U) /\ Lacks(T) \in Nat /\ Lacks(U) \in Nat
  <2>. HIDE DEF Lacks, Wrong, U
  <2>. QED
    BY <1>1, <1>3, <1>4, <1>7
<1>. QED
  <2>. HIDE DEF Lacks
  <2>. QED
    BY <1>8, <1>9

LEMMA FloodIsFilled ==
    ASSUME NEW b, NEW p \in Points
    PROVE  Flood(b, p) = Filled(b, b[p], {p})
<1>. DEFINE f == CHOOSE f : f = FillOf(b, b[p], f)
<1>1. f = FillOf(b, b[p], f)
  BY FillExists
<1>2. Flood(b, p) = f[{p}]
  BY DEF Flood, FillOf, Grow
<1>. QED
  BY <1>1, <1>2, FillUnique

-----------------------------------------------------------------------------
(* What the fill of a point is.                                            *)

Alike(b, v, S) == \A r \in S : \A q \in Neighbors(r) : b[q] = v => q \in S

(* The region of a point is connected to it, looks like it, has all that   *)
(* is next to it and looks like it, and is in every set that has.          *)
LEMMA FloodIsRegion ==
    ASSUME NEW b, NEW p \in Points
    PROVE  /\ Flood(b, p) \subseteq Points /\ p \in Flood(b, p)
           /\ \A q \in Flood(b, p) : b[q] = b[p]
           /\ Alike(b, b[p], Flood(b, p))
           /\ \A S \in SUBSET Points : p \in S /\ Alike(b, b[p], S) => Flood(b, p) \subseteq S
<1>. DEFINE F == Flood(b, p)
<1>1. F = Filled(b, b[p], {p})
  BY FloodIsFilled
<1>2. F \subseteq Points /\ p \in F
  BY <1>1 DEF Filled
<1>3. \A S \in SUBSET Points : Grow(b, b[p], S) = S <=> Alike(b, b[p], S)
  BY DEF Grow, Alike
<1>4. ASSUME NEW S \in SUBSET Points, p \in S, Alike(b, b[p], S)
      PROVE  F \subseteq S
  BY <1>1, <1>3, <1>4 DEF Filled
<1>5. Alike(b, b[p], F)
  <2>1. SUFFICES ASSUME NEW r \in F, NEW q \in Neighbors(r), b[q] = b[p]
                 PROVE  q \in F
    BY DEF Alike
  <2>2. q \in Points
    BY DEF Neighbors
  <2>3. ASSUME NEW T \in SUBSET Points, {p} \subseteq T, Grow(b, b[p], T) = T
        PROVE  q \in T
    <3>1. r \in T
      BY <1>1, <2>3 DEF Filled
    <3>. QED
      BY <2>1, <2>3, <3>1 DEF Grow
  <2>. QED
    BY <1>1, <2>2, <2>3 DEF Filled
<1>6. \A q \in F : b[q] = b[p]
  <2>. DEFINE S == {q \in F : b[q] = b[p]}
  <2>1. S \in SUBSET Points /\ p \in S
    BY <1>2
  <2>2. Alike(b, b[p], S)
    BY <1>5 DEF Alike
  <2>. QED
    BY <1>4, <2>1, <2>2
<1>. QED
  BY <1>2, <1>4, <1>5, <1>6

(* A set of points that has a point has its region, or a point just        *)
(* outside the set belongs to that region.                                 *)
LEMMA RegionLeaves ==
    ASSUME NEW b, NEW S \in SUBSET Points, NEW p \in S, \A q \in Border(S) : b[q] # b[p]
    PROVE  Flood(b, p) \subseteq S
<1>1. Alike(b, b[p], S)
  BY DEF Alike, Border
<1>. QED
  BY <1>1, FloodIsRegion

-----------------------------------------------------------------------------
(* What a move does to the board.                                          *)

LEMMA ColorsDiffer ==
    ASSUME NEW c \in Colors
    PROVE  /\ Opponent(c) \in Colors /\ Opponent(c) # c /\ Opponent(Opponent(c)) = c
           /\ c # EMPTY /\ \A d \in Colors \cup {EMPTY} : d # c /\ d # Opponent(c) => d = EMPTY
  BY DEF Colors, Opponent, BLACK, WHITE, EMPTY

(* Only stones of the opponent are captured, whole regions without a       *)
(* liberty, and all of those next to the new stone.                        *)
LEMMA CapturedAre ==
    ASSUME NEW b \in Boards, NEW p \in Points, NEW c \in Colors, b[p] = EMPTY
    PROVE  LET b1 == Place(b, p, c)
           IN  /\ b1 \in Boards /\ b1[p] = c /\ \A q \in Points \ {p} : b1[q] = b[q]
               /\ Captured(b, p, c) \in SUBSET {q \in Points \ {p} : b[q] = Opponent(c)}
               /\ \A r \in Neighbors(p) : b1[r] = Opponent(c) /\ r \notin Captured(b, p, c)
                      => Liberties(b1, Flood(b1, r)) # {}
               /\ Captured(b, p, c) # {} => \E r \in Neighbors(p) : r \in Captured(b, p, c)
<1>. DEFINE b1 == Place(b, p, c)
<1>1. b1 \in Boards /\ b1[p] = c /\ \A q \in Points \ {p} : b1[q] = b[q]
  BY DEF Place, Boards
<1>2. \A r \in Neighbors(p) : r \in Points
  BY DEF Neighbors
<1>3. ASSUME NEW q \in Captured(b, p, c)
      PROVE  /\ q \in Points \ {p} /\ b[q] = Opponent(c)
             /\ \E r \in Neighbors(p) : r \in Captured(b, p, c)
  <2>1. PICK r \in Neighbors(p) : /\ b1[r] = Opponent(c) /\ Liberties(b1, Flood(b1, r)) = {}
                                  /\ q \in Flood(b1, r)
    BY DEF Captured
  <2>2. /\ q \in Points /\ b1[q] = Opponent(c) /\ r \in Flood(b1, r)
    BY <1>2, <2>1, FloodIsRegion
  <2>3. r \in Captured(b, p, c)
    BY <2>1, <2>2 DEF Captured
  <2>. QED
    BY <1>1, <2>2, <2>3, ColorsDiffer
<1>4. ASSUME NEW r \in Neighbors(p), b1[r] = Opponent(c), r \notin Captured(b, p, c)
      PROVE  Liberties(b1, Flood(b1, r)) # {}
  <2>1. r \in Flood(b1, r)
    BY <1>2, FloodIsRegion
  <2>. QED
    BY <1>4, <2>1 DEF Captured
<1>. QED
  BY <1>1, <1>3, <1>4

LEMMA PlaceWithCapturesIs ==
    ASSUME NEW b \in Boards, NEW p \in Points, NEW c \in Colors, b[p] = EMPTY
    PROVE  /\ PlaceWithCaptures(b, p, c) \in Boards
           /\ PlaceWithCaptures(b, p, c)[p] = c
           /\ \A q \in Points \ {p} :
                 PlaceWithCaptures(b, p, c)[q] = IF q \in Captured(b, p, c) THEN EMPTY ELSE b[q]
  BY CapturedAre DEF PlaceWithCaptures, Remove, Boards

-----------------------------------------------------------------------------
(* Every stone breathes.                                                   *)

Breathes(b) ==
    \A c \in Colors : \A S \in (SUBSET {p \in Points : b[p] = c}) \ {{}} :
        \E q \in Border(S) : b[q] # Opponent(c)

(* Stones around one whose region has a liberty are not walled in.         *)
LEMMA LibertyIsAir ==
    ASSUME NEW b, NEW d \in Colors, NEW S \in SUBSET Points, \A q \in S : b[q] = d,
           NEW r \in S, Liberties(b, Flood(b, r)) # {}
    PROVE  \E q \in Border(S) : b[q] # Opponent(d)
<1>1. SUFFICES ASSUME \A q \in Border(S) : b[q] = Opponent(d)
               PROVE  FALSE
  OBVIOUS
<1>2. Flood(b, r) \subseteq S
  BY <1>1, ColorsDiffer, RegionLeaves
<1>3. PICK q \in Border(Flood(b, r)) : b[q] = EMPTY
  BY DEF Liberties
<1>4. q \in Border(S)
  <2>1. q \notin S
    BY <1>3, ColorsDiffer
  <2>. QED
    BY <1>2, <1>3, <2>1 DEF Border
<1>5. Opponent(d) # EMPTY
  BY ColorsDiffer
<1>. QED
  BY <1>1, <1>3, <1>4, <1>5

LEMMA OpponentBreathes ==
    ASSUME NEW b \in Boards, NEW p \in Points, NEW c \in Colors, b[p] = EMPTY, Breathes(b),
           NEW S \in (SUBSET {q \in Points : PlaceWithCaptures(b, p, c)[q] = Opponent(c)}) \ {{}}
    PROVE  \E q \in Border(S) : PlaceWithCaptures(b, p, c)[q] # c
<1>. DEFINE d == Opponent(c)
            b1 == Place(b, p, c)
            b2 == PlaceWithCaptures(b, p, c)
<1>1. d \in Colors /\ d # c /\ c # EMPTY /\ d # EMPTY /\ Opponent(d) = c
  BY ColorsDiffer
<1>2. /\ b2[p] = c
      /\ \A q \in Points \ {p} : b2[q] = IF q \in Captured(b, p, c) THEN EMPTY ELSE b[q]
  BY PlaceWithCapturesIs
<1>3. \A q \in Points \ {p} : b1[q] = b[q]
  BY CapturedAre
<1>4. b1[p] = c
  BY CapturedAre
<1>5. \A q \in S : q \in Points \ {p} /\ q \notin Captured(b, p, c) /\ b[q] = d /\ b1[q] = d
  BY <1>1, <1>2, <1>3
<1>6. \A q \in Border(S) : q \in Points /\ \E r \in S : q \in Neighbors(r)
  BY DEF Border, Neighbors
<1>7. PICK q \in Border(S) : b[q] # c
  BY <1>1, <1>5 DEF Breathes
<1>8. CASE q # p
  BY <1>1, <1>2, <1>6, <1>7, <1>8
<1>9. CASE q = p
  <2>1. PICK r \in S : p \in Neighbors(r)
    BY <1>6, <1>9
  <2>2. r \in Neighbors(p)
    BY <1>5, <2>1, NeighborsSymmetric
  <2>3. Liberties(b1, Flood(b1, r)) # {}
    BY <1>5, <2>1, <2>2, CapturedAre
  <2>4. S \in SUBSET Points /\ \A x \in S : b1[x] = d
    BY <1>5
  <2>. HIDE DEF b1, d
  <2>5. PICK x \in Border(S) : b1[x] # Opponent(d)
    BY <1>1, <2>1, <2>3, <2>4, LibertyIsAir
  <2>6. x \in Points \ {p} /\ b[x] # c
    BY <1>1, <1>3, <1>4, <1>6, <2>5
  <2>. QED
    BY <1>1, <1>2, <2>5, <2>6
<1>. QED
  BY <1>8, <1>9

LEMMA MoverBreathes ==
    ASSUME NEW b \in Boards, NEW p \in Points, NEW c \in Colors, b[p] = EMPTY, Breathes(b),
           ~ IsSuicide(b, p, c),
           NEW S \in (SUBSET {q \in Points : PlaceWithCaptures(b, p, c)[q] = c}) \ {{}}
    PROVE  \E q \in Border(S) : PlaceWithCaptures(b, p, c)[q] # Opponent(c)
<1>. DEFINE d == Opponent(c)
            b1 == Place(b, p, c)
            b2 == PlaceWithCaptures(b, p, c)
<1>1. d \in Colors /\ d # c /\ c # EMPTY /\ d # EMPTY
  BY ColorsDiffer
<1>2. /\ b2[p] = c
      /\ \A q \in Points \ {p} : b2[q] = IF q \in Captured(b, p, c) THEN EMPTY ELSE b[q]
  BY PlaceWithCapturesIs
<1>3. b1[p] = c /\ \A q \in Points \ {p} : b1[q] = b[q]
  BY CapturedAre
<1>4. \A q \in S : q \in Points /\ b2[q] = c
  OBVIOUS
<1>5. \A q \in Border(S) : q \in Points
  BY DEF Border, Neighbors
<1>6. CASE p \notin S
  <2>1. \A q \in S : q \in Points /\ b[q] = c
    BY <1>1, <1>2, <1>4, <1>6
  <2>2. PICK q \in Border(S) : b[q] # d
    BY <2>1 DEF Breathes
  <2>. QED
    BY <1>1, <1>2, <1>5, <2>2
<1>7. CASE p \in S /\ Captured(b, p, c) # {}
  <2>1. PICK r \in Neighbors(p) : r \in Captured(b, p, c)
    BY <1>7, CapturedAre
  <2>2. r \in Points \ {p}
    BY <2>1, CapturedAre
  <2>3. b2[r] = EMPTY
    BY <1>2, <2>1, <2>2
  <2>4. r \in Border(S)
    BY <1>1, <1>4, <1>7, <2>1, <2>3 DEF Border
  <2>. QED
    BY <1>1, <2>3, <2>4
<1>8. CASE p \in S /\ Captured(b, p, c) = {}
  <2>1. Liberties(b1, Flood(b1, p)) # {}
    BY <1>8 DEF IsSuicide
  <2>2. \A q \in Points : b2[q] = b1[q]
    BY <1>2, <1>3, <1>8
  <2>3. S \in SUBSET Points /\ \A q \in S : b1[q] = c
    BY <1>4, <2>2
  <2>. HIDE DEF b1
  <2>4. PICK q \in Border(S) : b1[q] # d
    BY <1>8, <2>1, <2>3, LibertyIsAir
  <2>. QED
    BY <1>5, <2>2, <2>4
<1>. QED
  BY <1>6, <1>7, <1>8

(* A move that is not suicide leaves every stone with air.                 *)
LEMMA PlayBreathes ==
    ASSUME NEW b \in Boards, NEW p \in Points, NEW c \in Colors, b[p] = EMPTY, Breathes(b),
           ~ IsSuicide(b, p, c)
    PROVE  Breathes(PlaceWithCaptures(b, p, c))
<1>1. SUFFICES ASSUME NEW e \in Colors,
                      NEW S \in (SUBSET {q \in Points : PlaceWithCaptures(b, p, c)[q] = e}) \ {{}}
               PROVE  \E q \in Border(S) : PlaceWithCaptures(b, p, c)[q] # Opponent(e)
  BY DEF Breathes
<1>2. CASE e = c
  BY <1>1, <1>2, MoverBreathes
<1>3. CASE e = Opponent(c)
  BY <1>1, <1>3, OpponentBreathes, ColorsDiffer
<1>4. e # EMPTY
  BY ColorsDiffer
<1>. QED
  BY <1>2, <1>3, <1>4, ColorsDiffer

-----------------------------------------------------------------------------
(* Stones and prisoners.                                                   *)

StonesOf(b, c) == {p \in Points : b[p] = c}

LEMMA StonesCount ==
    ASSUME NEW b, NEW c
    PROVE  /\ StonesOf(b, c) \in SUBSET Points /\ IsFiniteSet(StonesOf(b, c))
           /\ Cardinality(StonesOf(b, c)) \in Nat
<1>1. StonesOf(b, c) \in SUBSET Points
  BY DEF StonesOf
<1>. QED
  BY <1>1, PointsFinite, FS_Subset, FS_CardinalityType

(* A move puts one stone down and takes the captured ones off.             *)
LEMMA PlayCounts ==
    ASSUME NEW b \in Boards, NEW p \in Points, NEW c \in Colors, b[p] = EMPTY
    PROVE  LET b2 == PlaceWithCaptures(b, p, c)
               d == Opponent(c)
           IN  /\ Cardinality(Captured(b, p, c)) \in Nat
               /\ Cardinality(StonesOf(b2, c)) = Cardinality(StonesOf(b, c)) + 1
               /\ Cardinality(StonesOf(b2, d))
                      = Cardinality(StonesOf(b, d)) - Cardinality(Captured(b, p, c))
<1>. DEFINE b2 == PlaceWithCaptures(b, p, c)
            d == Opponent(c)
            C == Captured(b, p, c)
<1>1. d # c /\ c # EMPTY /\ d # EMPTY
  BY ColorsDiffer
<1>2. /\ b2[p] = c
      /\ \A q \in Points \ {p} : b2[q] = IF q \in C THEN EMPTY ELSE b[q]
  BY PlaceWithCapturesIs
<1>3. C \in SUBSET {q \in Points \ {p} : b[q] = d}
  BY CapturedAre
<1>. HIDE DEF b2, d, C
<1>4. StonesOf(b2, c) = StonesOf(b, c) \cup {p} /\ p \notin StonesOf(b, c)
  BY <1>1, <1>2, <1>3 DEF StonesOf
<1>5. StonesOf(b2, d) = StonesOf(b, d) \ C /\ C \subseteq StonesOf(b, d)
  BY <1>1, <1>2, <1>3 DEF StonesOf
<1>6. Cardinality(StonesOf(b2, c)) = Cardinality(StonesOf(b, c)) + 1
  BY <1>4, StonesCount, FS_AddElement
<1>7. IsFiniteSet(C) /\ Cardinality(C) \in Nat
  BY <1>5, StonesCount, FS_Subset, FS_CardinalityType
<1>8. Cardinality(StonesOf(b2, d)) = Cardinality(StonesOf(b, d)) - Cardinality(C)
  <2>1. StonesOf(b, d) \cap C = C
    BY <1>5
  <2>. QED
    BY <1>5, <2>1, StonesCount, FS_Difference
<1>. QED
  BY <1>6, <1>7, <1>8 DEF b2, d, C

-----------------------------------------------------------------------------
(* A position is sound.                                                    *)

LEMMA MoveType ==
    ASSUME TypeOK, [Next]_vars
    PROVE  TypeOK'
<1>1. CASE Play
  <2>1. PICK p \in Points : /\ IsLegal(p)
                            /\ board' = PlaceWithCaptures(board, p, to_move)
                            /\ captures' = Prisoners(to_move, Captured(board, p, to_move))
                            /\ last' = p
                            /\ lifted' = Captured(board, p, to_move)
    BY <1>1 DEF Play
  <2>2. board \in Boards /\ to_move \in Colors /\ board[p] = EMPTY
    BY <2>1 DEF TypeOK, IsLegal
  <2>3. board' \in Boards /\ previous_board' \in Boards
    BY <1>1, <2>1, <2>2, PlaceWithCapturesIs DEF Play
  <2>4. to_move' \in Colors /\ passes' \in 0..2
    BY <1>1, <2>2, ColorsDiffer DEF Play
  <2>5. Cardinality(Captured(board, p, to_move)) \in Nat
    BY <2>2, PlayCounts
  <2>6. captures' \in [Colors -> Nat] /\ laid' \in [Colors -> Nat]
    BY <1>1, <2>1, <2>2, <2>5 DEF Play, Prisoners, TypeOK
  <2>7. last' \in Points /\ lifted' \subseteq Points
    BY <2>1, <2>2, CapturedAre
  <2>. QED
    BY <2>3, <2>4, <2>6, <2>7 DEF TypeOK
<1>2. CASE PassMove
  <2>1. to_move' \in Colors
    BY <1>2, ColorsDiffer DEF PassMove, TypeOK
  <2>2. passes' \in 0..2
    BY <1>2 DEF PassMove, TypeOK, IsGameOver
  <2>. QED
    BY <1>2, <2>1, <2>2 DEF PassMove, TypeOK
<1>3. CASE UNCHANGED vars
  BY <1>3 DEF vars, TypeOK
<1>. QED
  BY <1>1, <1>2, <1>3 DEF Next

LEMMA MoveSound ==
    ASSUME TypeOK, Breathes(board), StonesAccounted, [Next]_vars
    PROVE  Breathes(board)' /\ StonesAccounted'
<1>1. CASE Play
  <2>1. PICK p \in Points : /\ IsLegal(p)
                            /\ board' = PlaceWithCaptures(board, p, to_move)
                            /\ captures' = Prisoners(to_move, Captured(board, p, to_move))
    BY <1>1 DEF Play
  <2>2. /\ board \in Boards /\ to_move \in Colors /\ board[p] = EMPTY
        /\ ~ IsSuicide(board, p, to_move)
    BY <2>1 DEF TypeOK, IsLegal
  <2>3. Breathes(board')
    BY <2>1, <2>2, PlayBreathes
  <2>. DEFINE d == Opponent(to_move)
              n == Cardinality(Captured(board, p, to_move))
  <2>4. /\ n \in Nat
        /\ Cardinality(StonesOf(board', to_move)) = Cardinality(StonesOf(board, to_move)) + 1
        /\ Cardinality(StonesOf(board', d)) = Cardinality(StonesOf(board, d)) - n
    BY <2>1, <2>2, PlayCounts
  <2>5. d \in Colors /\ d # to_move /\ Opponent(d) = to_move
    BY <2>2, ColorsDiffer
  <2>6. captures \in [Colors -> Nat] /\ laid \in [Colors -> Nat]
    BY DEF TypeOK
  <2>7. \A c \in Colors : /\ Cardinality(StonesOf(board, c)) \in Nat
                          /\ laid[c] = Cardinality(StonesOf(board, c)) + captures[Opponent(c)]
    BY StonesCount, ZenonT(60) DEF StonesAccounted, Stones, StonesOf
  <2>8. captures' = [captures EXCEPT ![to_move] = @ + n]
    BY <2>1 DEF Prisoners
  <2>9. laid' = [laid EXCEPT ![to_move] = @ + 1]
    BY <1>1 DEF Play
  <2>10. ASSUME NEW c \in Colors
         PROVE  laid'[c] = Cardinality(StonesOf(board', c)) + captures'[Opponent(c)]
    <3>. HIDE DEF d, n
    <3>1. CASE c = to_move
      BY <2>2, <2>4, <2>5, <2>6, <2>7, <2>8, <2>9, <3>1 DEF d
    <3>2. CASE c = d
      BY <2>2, <2>4, <2>5, <2>6, <2>7, <2>8, <2>9, <3>2
    <3>. QED
      BY <2>2, <3>1, <3>2, ColorsDiffer DEF d
  <2>11. StonesAccounted'
    BY <2>10 DEF StonesAccounted, Stones, StonesOf
  <2>. QED
    BY <2>3, <2>11 DEF Breathes
<1>2. CASE PassMove
  BY <1>2 DEF PassMove, Breathes, StonesAccounted, Stones
<1>3. CASE UNCHANGED vars
  BY <1>3 DEF vars, Breathes, StonesAccounted, Stones
<1>. QED
  BY <1>1, <1>2, <1>3 DEF Next

(* An empty board is sound.                                                *)
LEMMA InitSound == Init => TypeOK /\ Breathes(board) /\ StonesAccounted
<1>. SUFFICES ASSUME Init PROVE TypeOK /\ Breathes(board) /\ StonesAccounted
  OBVIOUS
<1>1. TypeOK
  BY DEF Init, TypeOK, EmptyBoard, Boards, Colors
<1>2. \A c \in Colors : {p \in Points : board[p] = c} = {}
  BY ColorsDiffer DEF Init, EmptyBoard
<1>3. Breathes(board)
  BY <1>2 DEF Breathes
<1>4. \A c \in Colors : Cardinality(Stones(c)) = 0
  BY <1>2, FS_EmptySet DEF Stones
<1>5. StonesAccounted
  BY <1>4, ColorsDiffer DEF StonesAccounted, Init
<1>. QED
  BY <1>1, <1>3, <1>5

(* For every board size, whatever is played: after a move and its captures *)
(* no set of one side's stones is walled in by the other's, and every      *)
(* stone put down is on the board or counted as a prisoner.                *)
THEOREM PositionsAreSound == Spec => []PositionIsSound
<1>. DEFINE I == TypeOK /\ Breathes(board) /\ StonesAccounted
<1>1. Init => I
  BY InitSound
<1>2. I /\ [Next]_vars => I'
  BY MoveType, MoveSound
<1>3. I => PositionIsSound
  BY DEF PositionIsSound, EveryStoneBreathes, Breathes, Stones
<1>. QED
  <2>. HIDE DEF I
  <2>. QED
    BY <1>1, <1>2, <1>3, PTL DEF Spec

-----------------------------------------------------------------------------
(* Ko.                                                                     *)

(* What the game remembers of its last step: a pass, or a stone and what   *)
(* it took.                                                                *)
Recalls ==
    \/ lifted = {} /\ previous_board \in {None, board}
    \/ /\ previous_board \in Boards /\ last \in Points /\ previous_board[last] = EMPTY
       /\ board = PlaceWithCaptures(previous_board, last, Opponent(to_move))
       /\ lifted = Captured(previous_board, last, Opponent(to_move))

LEMMA MoveRecalls ==
    ASSUME TypeOK, Recalls, [Next]_vars
    PROVE  Recalls'
<1>1. CASE Play
  <2>1. board \in Boards /\ to_move \in Colors
    BY DEF TypeOK
  <2>2. Opponent(to_move') = to_move
    BY <1>1, <2>1, ColorsDiffer DEF Play
  <2>. QED
    BY <1>1, <2>1, <2>2 DEF Play, Recalls, IsLegal
<1>2. CASE PassMove
  BY <1>2 DEF PassMove, Recalls
<1>3. CASE UNCHANGED vars
  BY <1>3 DEF vars, Recalls
<1>. QED
  BY <1>1, <1>2, <1>3 DEF Next

(* o: the board before the last stone, l: that stone, b: the board now.    *)
LEMMA RetakeIsKo ==
    ASSUME NEW c \in Colors, NEW o \in Boards, NEW l \in Points, o[l] = EMPTY,
           NEW b \in Boards, b = PlaceWithCaptures(o, l, Opponent(c)),
           NEW p \in Points, b[p] = EMPTY
    PROVE  PlaceWithCaptures(b, p, c) = o
               <=> Captured(o, l, Opponent(c)) = {p} /\ Captured(b, p, c) = {l}
<1>. DEFINE d == Opponent(c)
            C1 == Captured(o, l, d)
            C2 == Captured(b, p, c)
            n == PlaceWithCaptures(b, p, c)
<1>1. d \in Colors /\ d # c /\ c # EMPTY /\ d # EMPTY /\ Opponent(d) = c
  BY ColorsDiffer
<1>2. b[l] = d /\ \A q \in Points \ {l} : b[q] = IF q \in C1 THEN EMPTY ELSE o[q]
  BY <1>1, PlaceWithCapturesIs
<1>3. n[p] = c /\ \A q \in Points \ {p} : n[q] = IF q \in C2 THEN EMPTY ELSE b[q]
  BY PlaceWithCapturesIs
<1>4. C1 \in SUBSET {q \in Points \ {l} : o[q] = c}
  BY <1>1, CapturedAre
<1>5. C2 \in SUBSET {q \in Points \ {p} : b[q] = d}
  BY CapturedAre
<1>6. p # l
  BY <1>1, <1>2
<1>7. n \in Boards
  BY PlaceWithCapturesIs
<1>8. n = o <=> \A q \in Points : n[q] = o[q]
  BY <1>7 DEF Boards
<1>. HIDE DEF d, C1, C2, n
<1>9. ASSUME n = o
      PROVE  C1 = {p} /\ C2 = {l}
  <2>1. l \in C2
    BY <1>1, <1>2, <1>3, <1>6, <1>9
  <2>2. \A q \in C2 : q = l
    BY <1>1, <1>2, <1>3, <1>4, <1>5, <1>9
  <2>3. p \in C1
    BY <1>1, <1>2, <1>3, <1>6, <1>9
  <2>4. \A q \in C1 : q = p
    BY <1>1, <1>2, <1>3, <1>4, <1>5, <1>9
  <2>. QED
    BY <2>1, <2>2, <2>3, <2>4
<1>10. ASSUME C1 = {p}, C2 = {l}
       PROVE  n = o
  <2>1. n[p] = o[p]
    BY <1>3, <1>4, <1>10
  <2>2. n[l] = o[l]
    BY <1>3, <1>6, <1>10
  <2>3. ASSUME NEW q \in Points, q # p, q # l
        PROVE  n[q] = o[q]
    BY <1>2, <1>3, <1>10, <2>3
  <2>. QED
    BY <1>8, <2>1, <2>2, <2>3
<1>. QED
  BY <1>9, <1>10 DEF d, C1, C2, n

(* For every board size: refusing a move that brings back the whole board  *)
(* before the last step refuses exactly the retake of a single stone that  *)
(* has just taken a single stone, and never anything after a pass.         *)
THEOREM KoIsRetakeOnly == Spec => []KoIsRetake
<1>1. Init => TypeOK /\ Recalls
  BY InitSound DEF Init, Recalls
<1>2. TypeOK /\ Recalls /\ [Next]_vars => TypeOK' /\ Recalls'
  BY MoveType, MoveRecalls
<1>3. ASSUME TypeOK, Recalls
      PROVE  KoIsRetake
  <2>1. SUFFICES ASSUME NEW p \in Points, board[p] = EMPTY
                 PROVE  IsKoViolation(p)
                            <=> lifted = {p} /\ Captured(board, p, to_move) = {last}
    BY DEF KoIsRetake
  <2>2. board \in Boards /\ to_move \in Colors
    BY <1>3 DEF TypeOK
  <2>3. CASE lifted = {} /\ previous_board \in {None, board}
    <3>1. /\ PlaceWithCaptures(board, p, to_move) \in Boards
          /\ PlaceWithCaptures(board, p, to_move)[p] = to_move
      BY <2>1, <2>2, PlaceWithCapturesIs
    <3>2. PlaceWithCaptures(board, p, to_move) # previous_board
      BY <2>1, <2>2, <2>3, <3>1, ColorsDiffer, RulesAssumption
    <3>. QED
      BY <2>3, <3>2 DEF IsKoViolation
  <2>4. CASE ~ (lifted = {} /\ previous_board \in {None, board})
    BY <1>3, <2>1, <2>2, <2>4, RetakeIsKo DEF Recalls, IsKoViolation
  <2>. QED
    BY <2>3, <2>4
<1>. QED
  BY <1>1, <1>2, <1>3, PTL DEF Spec

-----------------------------------------------------------------------------
(* Territory.                                                              *)

Gap(x, y) == IF x < y THEN y - x ELSE x - y
Distance(p, q) == Gap(p[1], q[1]) + Gap(p[2], q[2])

(* Some neighbour of a point is nearer to where one wants to go.           *)
LEMMA StepNearer ==
    ASSUME NEW p \in Points, NEW q \in Points, p # q
    PROVE  \E r \in Neighbors(p) : Distance(r, q) < Distance(p, q)
<1>1. /\ p = <<p[1], p[2]>> /\ p[1] \in Int /\ p[2] \in Int
      /\ 0 <= p[1] /\ p[1] <= Size - 1 /\ 0 <= p[2] /\ p[2] <= Size - 1
  BY PointIsPair
<1>2. /\ q = <<q[1], q[2]>> /\ q[1] \in Int /\ q[2] \in Int
      /\ 0 <= q[1] /\ q[1] <= Size - 1 /\ 0 <= q[2] /\ q[2] <= Size - 1
  BY PointIsPair
<1>3. Size \in Nat
  BY RulesAssumption
<1>4. CASE p[1] < q[1]
  <2>1. <<p[1] + 1, p[2]>> \in Points
    BY <1>1, <1>2, <1>3, <1>4, PairIsPoint
  <2>2. Distance(<<p[1] + 1, p[2]>>, q) < Distance(p, q)
    BY <1>1, <1>2, <1>4 DEF Distance, Gap
  <2>. QED
    BY <2>1, <2>2 DEF Neighbors
<1>5. CASE p[1] > q[1]
  <2>1. <<p[1] - 1, p[2]>> \in Points
    BY <1>1, <1>2, <1>3, <1>5, PairIsPoint
  <2>2. Distance(<<p[1] - 1, p[2]>>, q) < Distance(p, q)
    BY <1>1, <1>2, <1>5 DEF Distance, Gap
  <2>. QED
    BY <2>1, <2>2 DEF Neighbors
<1>6. CASE p[1] = q[1] /\ p[2] < q[2]
  <2>1. <<p[1], p[2] + 1>> \in Points
    BY <1>1, <1>2, <1>3, <1>6, PairIsPoint
  <2>2. Distance(<<p[1], p[2] + 1>>, q) < Distance(p, q)
    BY <1>1, <1>2, <1>6 DEF Distance, Gap
  <2>. QED
    BY <2>1, <2>2 DEF Neighbors
<1>7. CASE p[1] = q[1] /\ p[2] > q[2]
  <2>1. <<p[1], p[2] - 1>> \in Points
    BY <1>1, <1>2, <1>3, <1>7, PairIsPoint
  <2>2. Distance(<<p[1], p[2] - 1>>, q) < Distance(p, q)
    BY <1>1, <1>2, <1>7 DEF Distance, Gap
  <2>. QED
    BY <2>1, <2>2 DEF Neighbors
<1>. QED
  BY <1>1, <1>2, <1>4, <1>5, <1>6, <1>7

(* The board is connected: only all of it has no border.                   *)
LEMMA BoardIsConnected ==
    ASSUME NEW S \in SUBSET Points, S # {}, Border(S) = {}
    PROVE  S = Points
<1>1. SUFFICES ASSUME NEW q \in Points, q \notin S
               PROVE  FALSE
  OBVIOUS
<1>2. \A p \in Points : Distance(p, q) \in Nat
  BY PointIsPair DEF Distance, Gap
<1>. DEFINE D == {Distance(p, q) : p \in S}
<1>3. D \in SUBSET Nat /\ D # {}
  BY <1>2
<1>4. PICK n \in D : \A m \in D : n <= m
  <2>. HIDE DEF D
  <2>. QED
    BY <1>3, LeastNatural
<1>5. PICK p \in S : n = Distance(p, q)
  BY <1>4
<1>6. PICK r \in Neighbors(p) : Distance(r, q) < Distance(p, q)
  BY <1>1, <1>5, StepNearer
<1>7. r \in S
  BY DEF Border
<1>8. n <= Distance(r, q)
  BY <1>4, <1>7
<1>. QED
  BY <1>2, <1>5, <1>6, <1>7, <1>8

(* What a flood fill finds to be one side's is what that side walls in.    *)
LEMMA TerritoryIs ==
    ASSUME NEW b, NEW c \in Colors
    PROVE  Territory(b, c) =
               UNION {S \in SUBSET {q \in Points : b[q] = EMPTY} :
                          Border(S) # {} /\ \A q \in Border(S) : b[q] = c}
<1>. DEFINE Walled == {S \in SUBSET {q \in Points : b[q] = EMPTY} :
                          Border(S) # {} /\ \A q \in Border(S) : b[q] = c}
<1>1. c # EMPTY
  BY ColorsDiffer
<1>2. ASSUME NEW p \in Territory(b, c)
      PROVE  \E S \in Walled : p \in S
  <2>1. p \in Points /\ b[p] = EMPTY /\ {b[q] : q \in Border(Flood(b, p))} = {c}
    BY <1>2 DEF Territory, IsTerritory
  <2>2. p \in Flood(b, p) /\ Flood(b, p) \in SUBSET {q \in Points : b[q] = EMPTY}
    BY <2>1, FloodIsRegion
  <2>3. Border(Flood(b, p)) # {} /\ \A q \in Border(Flood(b, p)) : b[q] = c
    BY <2>1
  <2>. QED
    BY <2>2, <2>3
<1>3. ASSUME NEW S \in Walled, NEW p \in S
      PROVE  p \in Territory(b, c)
  <2>1. S \in SUBSET Points /\ p \in Points /\ b[p] = EMPTY /\ \A q \in S : b[q] = EMPTY
    OBVIOUS
  <2>2. Flood(b, p) \subseteq S
    BY <1>1, <1>3, <2>1, RegionLeaves
  <2>3. ASSUME NEW q \in Border(Flood(b, p))
        PROVE  b[q] = c
    <3>1. PICK r \in Flood(b, p) : q \in Neighbors(r) /\ q \notin Flood(b, p)
      BY <2>3 DEF Border
    <3>2. b[q] # EMPTY
      BY <2>1, <3>1, FloodIsRegion DEF Alike
    <3>3. q \in Border(S)
      BY <2>1, <2>2, <3>1, <3>2 DEF Border
    <3>. QED
      BY <1>3, <3>3
  <2>4. Border(Flood(b, p)) # {}
    <3>1. SUFFICES ASSUME Border(Flood(b, p)) = {}
                   PROVE  FALSE
      OBVIOUS
    <3>2. Flood(b, p) = Points
      BY <2>1, <3>1, FloodIsRegion, BoardIsConnected
    <3>3. S = Points
      BY <2>1, <2>2, <3>2
    <3>4. PICK q \in Border(S) : TRUE
      BY <1>3
    <3>5. q \in Points
      BY DEF Border, Neighbors
    <3>. QED
      BY <3>3, <3>4, <3>5 DEF Border
  <2>. QED
    BY <2>1, <2>3, <2>4 DEF Territory, IsTerritory
<1>. QED
  BY <1>2, <1>3

(* Declaring stones dead takes them off their side's count.                *)
LEMMA DeadCount ==
    ASSUME NEW b \in Boards, NEW c \in Colors, NEW dead \in SUBSET Points
    PROVE  /\ Cardinality({p \in dead : b[p] = c}) \in Nat
           /\ Cardinality(StonesOf(Remove(b, dead), c))
                  = Cardinality(StonesOf(b, c)) - Cardinality({p \in dead : b[p] = c})
<1>. DEFINE D == {p \in dead : b[p] = c}
<1>1. StonesOf(Remove(b, dead), c) = StonesOf(b, c) \ D
  BY ColorsDiffer DEF StonesOf, Remove
<1>2. D \in SUBSET StonesOf(b, c) /\ StonesOf(b, c) \cap D = D
  BY DEF StonesOf
<1>. HIDE DEF D
<1>3. IsFiniteSet(D) /\ Cardinality(D) \in Nat
  BY <1>2, StonesCount, FS_Subset, FS_CardinalityType
<1>4. Cardinality(StonesOf(b, c) \ D) = Cardinality(StonesOf(b, c)) - Cardinality(D)
  BY <1>2, StonesCount, FS_Difference
<1>. QED
  BY <1>1, <1>3, <1>4 DEF D

LEMMA AreaIsScore ==
    ASSUME TypeOK, StonesAccounted, laid[BLACK] = laid[WHITE], NEW dead \in SUBSET Points
    PROVE  Score(board, captures, dead, BLACK) - Score(board, captures, dead, WHITE) + Komi
               = 2 * (Area(BLACK, dead) - Area(WHITE, dead))
<1>. DEFINE b == Remove(board, dead)
            T(c) == Cardinality(Territory(b, c))
            D(c) == Cardinality({p \in dead : board[p] = c})
            N(c) == Cardinality(StonesOf(board, c))
<1>1. BLACK \in Colors /\ WHITE \in Colors /\ BLACK # WHITE
      /\ Opponent(BLACK) = WHITE /\ Opponent(WHITE) = BLACK
  BY DEF Colors, Opponent, BLACK, WHITE
<1>2. \A c \in Colors : T(c) \in Nat
  BY PointsFinite, FS_Subset, FS_CardinalityType DEF Territory
<1>3. \A c \in Colors : D(c) \in Nat /\ Cardinality(StonesOf(b, c)) = N(c) - D(c)
  BY DeadCount DEF TypeOK
<1>4. \A c \in Colors : N(c) \in Nat /\ captures[c] \in Nat /\ laid[c] \in Nat
  BY StonesCount DEF TypeOK
<1>5. \A c \in Colors : laid[c] = N(c) + captures[Opponent(c)]
  BY DEF StonesAccounted, Stones, StonesOf
<1>6. \A c \in Colors : Area(c, dead) = T(c) + (N(c) - D(c))
  BY <1>3 DEF Area, StonesOf
<1>7. Score(board, captures, dead, BLACK) = 2 * (T(BLACK) + captures[BLACK] + D(WHITE)) + 0
  BY <1>1 DEF Score
<1>8. Score(board, captures, dead, WHITE) = 2 * (T(WHITE) + captures[WHITE] + D(BLACK)) + Komi
  BY <1>1 DEF Score
<1>. HIDE DEF T, D, N
<1>9. N(BLACK) + captures[WHITE] = N(WHITE) + captures[BLACK]
  BY <1>1, <1>5
<1>. QED
  BY <1>1, <1>2, <1>3, <1>4, <1>6, <1>7, <1>8, <1>9, RulesAssumption

(* For every board size and komi: in every position a game can end in, a   *)
(* side's territory is the union of the empty areas that it alone walls    *)
(* in, and when both sides have put down as many stones the difference of  *)
(* the scores is that of the areas, whichever stones are declared dead.    *)
THEOREM ScoresAreFair == Spec => []ScoreIsFair
<1>. DEFINE I == TypeOK /\ Breathes(board) /\ StonesAccounted
<1>1. Init => I
  BY InitSound
<1>2. I /\ [Next]_vars => I'
  BY MoveType, MoveSound
<1>3. ASSUME I
      PROVE  ScoreIsFair
  <2>1. TerritoryIsWalled
    BY TerritoryIs DEF TerritoryIsWalled, Stones
  <2>2. \A dead \in SUBSET (Stones(BLACK) \cup Stones(WHITE)) : dead \in SUBSET Points
    BY DEF Stones
  <2>3. TerritoryIsArea
    BY <1>3, <2>2, AreaIsScore DEF TerritoryIsArea
  <2>. QED
    BY <2>1, <2>3 DEF ScoreIsFair
<1>. QED
  <2>. HIDE DEF I
  <2>. QED
    BY <1>1, <1>2, <1>3, PTL DEF Spec
=============================================================================
