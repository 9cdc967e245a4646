--------------------------- MODULE GradingProofs ---------------------------
(***************************************************************************)
(* What the grade of a move means, for every position, every engine output *)
(* that passes the checks, and every bound B on the engine's scores.       *)
(***************************************************************************)
EXTENDS Grading, FiniteSetTheorems, WellFoundedInduction, TLAPS

\* The lines that reach the ranking: some, with whole figures.
Figures(B) == [move : STRING, depth : Nat, wins : Int, draws : Int, losses : Int,
               score : -B .. B, legal : BOOLEAN]

Gradable(legal, chosen, lines, B) ==
    /\ B \in Nat /\ IsFiniteSet(legal)
    /\ lines \in [DOMAIN lines -> Figures(B)]
    /\ ~GradeRaises(legal, chosen, lines)

\* A set of naturals has a least member.
LEMMA LeastNatural ==
    ASSUME NEW S \in SUBSET Nat, S # {}
    PROVE  \E least \in S : \A s \in S : least <= s
<1> DEFINE R == OpToRel(<, Nat)
<1>1. \A x, y \in Nat : <<x, y>> \in R <=> x < y
  BY DEF OpToRel
<1>2. IsWellFoundedOn(R, Nat)
  BY NatLessThanWellFounded
<1> HIDE DEF R
<1>3. PICK x \in S : \A y \in S : ~(<<y, x>> \in R)
  BY <1>2, WFMin
<1>4. ASSUME NEW s \in S
      PROVE  x <= s
  <2>1. x \in Nat /\ s \in Nat /\ ~(s < x)
    BY <1>1, <1>3
  <2> QED BY <2>1
<1> QED
  BY <1>3, <1>4

\* Every line is worth between nothing and the full 2000 units.
LEMMA PointsInRange ==
    ASSUME NEW legal, NEW chosen, NEW lines, NEW B, Gradable(legal, chosen, lines, B),
           NEW k \in DOMAIN lines
    PROVE  Points(lines[k]) \in Nat /\ Points(lines[k]) <= POINT_UNITS
<1>1. lines[k] \in Figures(B)
  BY DEF Gradable
<1>2. /\ lines[k].wins + lines[k].draws + lines[k].losses = 1000
      /\ ~(lines[k].wins < 0) /\ ~(lines[k].draws < 0) /\ ~(lines[k].losses < 0)
  BY DEF Gradable, GradeRaises
<1>3. lines[k].wins \in Int /\ lines[k].draws \in Int /\ lines[k].losses \in Int
  BY <1>1 DEF Figures
<1> QED
  BY <1>2, <1>3 DEF Points, POINT_UNITS

\* The chosen move has a line.
LEMMA ChosenHasALine ==
    ASSUME NEW legal, NEW chosen, NEW lines, NEW B, Gradable(legal, chosen, lines, B)
    PROVE  /\ Chosen(lines, chosen) \in DOMAIN lines
           /\ lines[Chosen(lines, chosen)].move = chosen
<1>1. chosen \in {lines[k].move : k \in DOMAIN lines}
  BY DEF Gradable, GradeRaises, Roots
<1>2. \E k \in DOMAIN lines : lines[k].move = chosen
  BY <1>1
<1> QED
  BY <1>2 DEF Chosen

\* As many lines as legal moves, and every legal move first on one of them:
\* no move has two.
LEMMA OneLineEach ==
    ASSUME NEW legal, NEW chosen, NEW lines, NEW B, Gradable(legal, chosen, lines, B)
    PROVE  \A j, k \in DOMAIN lines : lines[j].move = lines[k].move => j = k
<1> DEFINE n == Cardinality(legal)
           first == [k \in 1 .. n |-> lines[k].move]
<1>1. n \in Nat /\ IsFiniteSet(legal)
  BY FS_CardinalityType DEF Gradable
<1>2. DOMAIN lines = 1 .. n /\ {lines[k].move : k \in DOMAIN lines} = legal
  BY DEF Gradable, GradeRaises, Roots
<1>3. IsFiniteSet(1 .. n) /\ Cardinality(1 .. n) = n
  <2> HIDE DEF n
  <2> QED BY <1>1, FS_Interval
<1>4. first \in Surjection(1 .. n, legal)
  BY <1>2 DEF Surjection
<1>5. first \in Injection(1 .. n, legal)
  <2>1. Cardinality(1 .. n) = Cardinality(legal)
    BY <1>3
  <2> HIDE DEF first
  <2> QED BY <2>1, <1>3, <1>4, FS_SurjSameCardinalityImpliesInj
<1>6. \A j, k \in 1 .. n : first[j] = first[k] => j = k
  <2> HIDE DEF first
  <2> QED BY <1>5 DEF Injection, IsInjective
<1> QED
  BY <1>2, <1>6

\* Some line leads the ranking: the fewest points missing from the full score
\* first, then the least distance from the highest score.
LEMMA SomeLineIsBest ==
    ASSUME NEW legal, NEW chosen, NEW lines, NEW B, Gradable(legal, chosen, lines, B)
    PROVE  /\ Best(lines) \in DOMAIN lines
           /\ \A j \in DOMAIN lines : NotBehind(lines[Best(lines)], lines[j])
<1> DEFINE Missing(k) == POINT_UNITS - Points(lines[k])
           Gaps       == {Missing(k) : k \in DOMAIN lines}
<1>1. \A k \in DOMAIN lines : Points(lines[k]) \in Int /\ Missing(k) \in Nat
  BY PointsInRange DEF POINT_UNITS
<1>2. \A k \in DOMAIN lines : lines[k].score \in -B .. B /\ B \in Nat
  BY DEF Gradable, Figures
<1>3. Gaps \in SUBSET Nat /\ Gaps # {}
  BY <1>1, ChosenHasALine
<1>4. PICK gap \in Gaps : \A g \in Gaps : gap <= g
  <2> HIDE DEF Gaps
  <2> QED BY <1>3, LeastNatural
<1> DEFINE Leaders == {k \in DOMAIN lines : Missing(k) = gap}
           Below(k) == B - lines[k].score
           Depth    == {Below(k) : k \in Leaders}
<1>5. Depth \in SUBSET Nat /\ Depth # {}
  BY <1>2, <1>4
<1>6. PICK least \in Depth : \A d \in Depth : least <= d
  <2> HIDE DEF Depth
  <2> QED BY <1>5, LeastNatural
<1>7. PICK k \in Leaders : Below(k) = least
  BY <1>6
<1>8. ASSUME NEW j \in DOMAIN lines
      PROVE  NotBehind(lines[k], lines[j])
  <2>1. Missing(k) <= Missing(j)
    BY <1>4, <1>7
  <2>2. Points(lines[k]) >= Points(lines[j])
    BY <2>1, <1>1, <1>7 DEF POINT_UNITS
  <2>3. CASE Points(lines[k]) = Points(lines[j])
    <3>1. j \in Leaders
      BY <2>3, <1>7
    <3>2. Below(k) <= Below(j)
      BY <3>1, <1>6, <1>7
    <3>3. lines[k].score >= lines[j].score
      BY <3>2, <1>2, <1>7
    <3> QED BY <2>3, <3>3 DEF NotBehind
  <2>4. CASE Points(lines[k]) # Points(lines[j])
    BY <2>2, <2>4, <1>1, <1>7 DEF NotBehind
  <2> QED BY <2>3, <2>4
<1>9. \E b \in DOMAIN lines : \A j \in DOMAIN lines : NotBehind(lines[b], lines[j])
  BY <1>7, <1>8
<1> QED
  BY <1>9 DEF Best

(* A submitted move loses between nothing and the whole point: classification *)
(* never raises on what grade_candidates computes.                            *)
THEOREM LossIsInRange ==
    ASSUME NEW legal, NEW chosen, NEW lines, NEW B, Gradable(legal, chosen, lines, B)
    PROVE  ~ClassificationRaises(Loss(lines, chosen))
<1> DEFINE b == Best(lines)  c == Chosen(lines, chosen)
<1>1. b \in DOMAIN lines /\ c \in DOMAIN lines /\ NotBehind(lines[b], lines[c])
  BY SomeLineIsBest, ChosenHasALine
<1>2. /\ Points(lines[b]) \in Nat /\ Points(lines[b]) <= POINT_UNITS
      /\ Points(lines[c]) \in Nat /\ Points(lines[c]) <= POINT_UNITS
  <2> HIDE DEF b, c
  <2> QED BY <1>1, PointsInRange
<1>3. Points(lines[b]) >= Points(lines[c])
  <2> HIDE DEF b, c
  <2> QED BY <1>1, <1>2 DEF NotBehind, POINT_UNITS
<1>4. Loss(lines, chosen) = Points(lines[b]) - Points(lines[c])
  BY DEF Loss
<1> HIDE DEF b, c
<1> QED
  BY <1>2, <1>3, <1>4 DEF ClassificationRaises, POINT_UNITS

(* The training targets and the grade agree: there is a better move exactly   *)
(* when points were lost, so a best move has none, and every grade from good  *)
(* down has one.                                                              *)
THEOREM BetterMovesMatchTheGrade ==
    ASSUME NEW legal, NEW chosen, NEW lines, NEW B, Gradable(legal, chosen, lines, B)
    PROVE  LET grade == GradeCandidates(lines, chosen)
           IN  /\ grade.better = {} <=> grade.loss = 0
               /\ grade.classification = "best" => grade.better = {}
               /\ grade.classification \in {"blunder", "mistake", "inaccuracy", "good"}
                      => grade.better # {}
               /\ chosen \notin grade.better
<1> DEFINE b == Best(lines)  c == Chosen(lines, chosen)
<1>1. /\ b \in DOMAIN lines /\ c \in DOMAIN lines
      /\ \A j \in DOMAIN lines : NotBehind(lines[b], lines[j])
  BY SomeLineIsBest, ChosenHasALine
<1>2. \A k \in DOMAIN lines : Points(lines[k]) \in Int
  BY PointsInRange DEF POINT_UNITS
<1>3. Loss(lines, chosen) = Points(lines[b]) - Points(lines[c])
  BY DEF Loss
<1>4. BetterMoves(lines, chosen) =
          {lines[k].move : k \in {j \in DOMAIN lines : Points(lines[j]) > Points(lines[c])}}
  BY DEF BetterMoves
<1> HIDE DEF b, c
<1>5. BetterMoves(lines, chosen) = {} <=> Loss(lines, chosen) = 0
  <2>1. CASE Loss(lines, chosen) = 0
    <3>1. \A k \in DOMAIN lines : ~(Points(lines[k]) > Points(lines[c]))
      BY <2>1, <1>1, <1>2, <1>3 DEF NotBehind
    <3> QED BY <2>1, <3>1, <1>4
  <2>2. CASE Loss(lines, chosen) # 0
    <3>1. Points(lines[b]) > Points(lines[c])
      BY <2>2, <1>1, <1>2, <1>3 DEF NotBehind
    <3>2. lines[b].move \in BetterMoves(lines, chosen)
      BY <3>1, <1>1, <1>4
    <3> QED BY <2>2, <3>2
  <2> QED BY <2>1, <2>2
<1>6. Loss(lines, chosen) \in Int
  BY <1>1, <1>2, <1>3
<1>7. /\ Classification(Loss(lines, chosen), IsBest(lines, chosen)) = "best"
             => Loss(lines, chosen) = 0
      /\ Classification(Loss(lines, chosen), IsBest(lines, chosen))
             \in {"blunder", "mistake", "inaccuracy", "good"} => Loss(lines, chosen) # 0
  BY <1>6 DEF Classification
<1>8. chosen \notin BetterMoves(lines, chosen)
  <2>1. lines[c].move = chosen
    BY ChosenHasALine DEF c
  <2>2. \A k \in DOMAIN lines : lines[k].move = chosen => k = c
    BY <2>1, <1>1, OneLineEach
  <2> QED
    BY <2>2, <1>1, <1>2, <1>4
<1> QED
  BY <1>5, <1>7, <1>8 DEF GradeCandidates
=============================================================================
