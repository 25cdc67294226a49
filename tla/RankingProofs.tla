--------------------------- MODULE RankingProofs ---------------------------
(***************************************************************************)
(* What the ranking on the screen means, for every score: it is the order  *)
(* of the engine's values, and the coach's grades follow it.  Then what the *)
(* search and the reader of its lines do with the root moves, for any       *)
(* number of moves, lines and iterations: the state invariants of Ranking.  *)
(***************************************************************************)
EXTENDS Ranking, TLAPS, FiniteSetTheorems, FunctionTheorems

-----------------------------------------------------------------------------
(* The scale of the ranking *)

\* What a search of a root move may return, and what UCI::value() prints of it.
EngineValues == {v \in Int : v > -VALUE_MATE /\ v < VALUE_MATE}
Within(n) == {k \in Int : k >= -n /\ k <= n}
UciScore == [kind : {"cp"}, value : Within(15266)] \cup [kind : {"mate"}, value : Within(123) \ {0}]

IsMate(v) == ~(v > -VALUE_MATE_IN_MAX_PLY /\ v < VALUE_MATE_IN_MAX_PLY)
PliesToMate(v) == IF v > 0 THEN VALUE_MATE - v + 1 ELSE -VALUE_MATE - v - 1

LEMMA EngineValueType ==
  ASSUME NEW v \in EngineValues
  PROVE  v \in Int /\ v >= -31999 /\ v <= 31999
BY DEF EngineValues, VALUE_MATE

\* The division of C++ by the two divisors in use keeps the order.
LEMMA QuotientMonotone ==
  ASSUME NEW a \in Int, NEW b \in Int, a <= b
  PROVE  /\ Quotient(a, PawnValueEg) \in Int /\ Quotient(b, PawnValueEg) \in Int
         /\ Quotient(a, PawnValueEg) <= Quotient(b, PawnValueEg)
         /\ Quotient(a, 2) \in Int /\ Quotient(b, 2) \in Int
         /\ Quotient(a, 2) <= Quotient(b, 2)
<1>1. \A n \in Nat : n \div 208 \in Nat /\ n \div 2 \in Nat
  BY SMT
<1>2. \A m, n \in Nat : m <= n => m \div 208 <= n \div 208 /\ m \div 2 <= n \div 2
  BY SMT
<1>3. CASE a >= 0
  BY <1>1, <1>2, <1>3 DEF Quotient, PawnValueEg
<1>4. CASE a < 0 /\ b >= 0
  BY <1>1, <1>4 DEF Quotient, PawnValueEg
<1>5. CASE a < 0 /\ b < 0
  <2>1. -a \in Nat /\ -b \in Nat /\ -b <= -a
    BY <1>5
  <2> QED  BY <1>1, <1>2, <1>5, <2>1 DEF Quotient, PawnValueEg
<1> QED  BY <1>3, <1>4, <1>5

\* A printed score is a centipawn value far from the mates ...
LEMMA CpValue ==
  ASSUME NEW v \in EngineValues, ~IsMate(v)
  PROVE  /\ UciValue(v) = [kind |-> "cp", value |-> Quotient(v * 100, PawnValueEg)]
         /\ Quotient(v * 100, PawnValueEg) \in Within(15266)
<1>1. UciValue(v) = [kind |-> "cp", value |-> Quotient(v * 100, PawnValueEg)]
  BY DEF UciValue, IsMate
<1>2. v \in Int /\ v > -31754 /\ v < 31754
  BY DEF EngineValues, IsMate, VALUE_MATE_IN_MAX_PLY, VALUE_MATE, MAX_PLY
<1>3. \A n \in Nat : n \div 208 \in Nat /\ 208 * (n \div 208) <= n
  BY SMT
<1>4. CASE v >= 0
  <2>1. v * 100 \in Nat /\ v * 100 <= 3175300
    BY <1>2, <1>4
  <2> QED  BY <1>1, <1>3, <2>1 DEF Quotient, PawnValueEg, Within
<1>5. CASE v < 0
  <2>1. v * 100 < 0 /\ -(v * 100) \in Nat /\ -(v * 100) <= 3175300
    BY <1>2, <1>5
  <2> QED  BY <1>1, <1>3, <2>1 DEF Quotient, PawnValueEg, Within
<1> QED  BY <1>2, <1>4, <1>5

\* ... or a mate in one to 123 moves.
LEMMA MateValue ==
  ASSUME NEW v \in EngineValues, IsMate(v)
  PROVE  /\ UciValue(v) = [kind |-> "mate", value |-> Quotient(PliesToMate(v), 2)]
         /\ PliesToMate(v) \in Int /\ Quotient(PliesToMate(v), 2) \in Int
         /\ v > 0 => Quotient(PliesToMate(v), 2) >= 1 /\ Quotient(PliesToMate(v), 2) <= 123
         /\ v <= 0 => Quotient(PliesToMate(v), 2) <= -1 /\ Quotient(PliesToMate(v), 2) >= -123
<1>1. UciValue(v) = [kind |-> "mate", value |-> Quotient(PliesToMate(v), 2)]
  BY DEF UciValue, IsMate, PliesToMate
<1>2. v \in Int /\ v >= -31999 /\ v <= 31999 /\ (v >= 31754 \/ v <= -31754)
  <2>1. v \in Int /\ v >= -31999 /\ v <= 31999
    BY EngineValueType
  <2> QED  BY <2>1 DEF IsMate, VALUE_MATE_IN_MAX_PLY, VALUE_MATE, MAX_PLY
<1>3. \A n \in 2 .. 247 : n \div 2 \in 1 .. 123
  BY SMT
<1>4. CASE v > 0
  <2>1. PliesToMate(v) \in 2 .. 247
    BY <1>2, <1>4 DEF PliesToMate, VALUE_MATE
  <2>2. Quotient(PliesToMate(v), 2) \in 1 .. 123
    BY <1>3, <2>1 DEF Quotient
  <2>3. /\ PliesToMate(v) \in Int /\ Quotient(PliesToMate(v), 2) \in Int
        /\ Quotient(PliesToMate(v), 2) >= 1 /\ Quotient(PliesToMate(v), 2) <= 123
    BY <2>1, <2>2
  <2>4. ~(v <= 0)
    BY <1>2, <1>4
  <2> QED  BY <1>1, <1>4, <2>3, <2>4, Zenon
<1>5. CASE v <= 0
  <2>1. PliesToMate(v) \in Int /\ PliesToMate(v) < 0 /\ -PliesToMate(v) \in 2 .. 247
    BY <1>2, <1>5 DEF PliesToMate, VALUE_MATE
  <2>2. (-PliesToMate(v)) \div 2 \in 1 .. 123
    BY <1>3, <2>1
  <2>3. Quotient(PliesToMate(v), 2) = -((-PliesToMate(v)) \div 2)
    BY <2>1 DEF Quotient
  <2>4. /\ Quotient(PliesToMate(v), 2) \in Int
        /\ Quotient(PliesToMate(v), 2) <= -1 /\ Quotient(PliesToMate(v), 2) >= -123
    BY <2>2, <2>3
  <2>5. ~(v > 0)
    BY <1>2, <1>5
  <2> QED  BY <1>1, <1>5, <2>1, <2>4, <2>5, Zenon
<1> QED  BY <1>2, <1>4, <1>5

LEMMA UciValueType ==
  ASSUME NEW v \in EngineValues
  PROVE  UciValue(v) \in UciScore
<1>0. v \in Int
  BY EngineValueType
<1>1. CASE ~IsMate(v)
  BY <1>1, CpValue DEF UciScore
<1>2. CASE IsMate(v)
  <2>1. Quotient(PliesToMate(v), 2) \in Within(123) \ {0}
    BY <1>0, <1>2, MateValue DEF Within
  <2> QED  BY <1>2, <2>1, MateValue DEF UciScore
<1> QED  BY <1>1, <1>2

\* uci.cpp and UciInfo.kt together: the scale by which the app sorts keeps the
\* order of the engine's values, across centipawns and the mates of both sides.
Scale(score) == orderingScore([score |-> score])

LEMMA ScaleOfValue ==
  ASSUME NEW v \in EngineValues
  PROVE  /\ ~IsMate(v) => Scale(UciValue(v)) = Quotient(v * 100, PawnValueEg)
         /\ IsMate(v) /\ v > 0 => Scale(UciValue(v)) = 100000 - Quotient(PliesToMate(v), 2)
         /\ IsMate(v) /\ v <= 0 => Scale(UciValue(v)) = -(100000 + Quotient(PliesToMate(v), 2))
<1>0. v \in Int
  BY EngineValueType
<1>1. CASE ~IsMate(v)
  BY <1>1, CpValue DEF Scale, orderingScore
<1>2. CASE IsMate(v)
  BY <1>0, <1>2, MateValue DEF Scale, orderingScore
<1> QED  BY <1>1, <1>2

THEOREM ScaleKeepsOrder ==
  ASSUME NEW u \in EngineValues, NEW v \in EngineValues, u <= v
  PROVE  Scale(UciValue(u)) <= Scale(UciValue(v))
<1>0. u \in Int /\ v \in Int
  BY EngineValueType
<1>1. CASE ~IsMate(u) /\ ~IsMate(v)
  <2>1. u * 100 \in Int /\ v * 100 \in Int /\ u * 100 <= v * 100
    BY <1>0
  <2> QED  BY <1>1, <2>1, ScaleOfValue, QuotientMonotone
<1>2. CASE IsMate(u) /\ u <= 0
  <2>1. /\ Scale(UciValue(u)) = -(100000 + Quotient(PliesToMate(u), 2))
        /\ PliesToMate(u) \in Int /\ Quotient(PliesToMate(u), 2) \in Int
        /\ Quotient(PliesToMate(u), 2) >= -123
    BY <1>2, ScaleOfValue, MateValue
  <2>2. CASE ~IsMate(v)
    <3>1. Scale(UciValue(v)) \in Within(15266)
      BY <2>2, ScaleOfValue, CpValue
    <3> QED  BY <2>1, <3>1 DEF Within
  <2>3. CASE IsMate(v) /\ v > 0
    <3>1. Scale(UciValue(v)) = 100000 - Quotient(PliesToMate(v), 2)
      BY <2>3, ScaleOfValue
    <3>2. Quotient(PliesToMate(v), 2) \in Int /\ Quotient(PliesToMate(v), 2) <= 123
      BY <2>3, MateValue
    <3> QED  BY <2>1, <3>1, <3>2
  <2>4. CASE IsMate(v) /\ v <= 0
    <3>1. PliesToMate(v) \in Int /\ PliesToMate(v) <= PliesToMate(u)
      BY <1>0, <1>2, <2>4 DEF PliesToMate, VALUE_MATE
    <3>2. /\ Quotient(PliesToMate(v), 2) \in Int
          /\ Quotient(PliesToMate(v), 2) <= Quotient(PliesToMate(u), 2)
      BY <2>1, <3>1, QuotientMonotone
    <3>3. Scale(UciValue(v)) = -(100000 + Quotient(PliesToMate(v), 2))
      BY <2>4, ScaleOfValue
    <3> QED  BY <2>1, <3>2, <3>3
  <2> QED  BY <1>0, <2>2, <2>3, <2>4
<1>3. CASE IsMate(v) /\ v > 0 /\ ~(IsMate(u) /\ u <= 0)
  <2>1. /\ Scale(UciValue(v)) = 100000 - Quotient(PliesToMate(v), 2)
        /\ PliesToMate(v) \in Int /\ Quotient(PliesToMate(v), 2) \in Int
        /\ Quotient(PliesToMate(v), 2) <= 123
    BY <1>3, ScaleOfValue, MateValue
  <2>2. CASE ~IsMate(u)
    <3>1. Scale(UciValue(u)) \in Within(15266)
      BY <2>2, ScaleOfValue, CpValue
    <3> QED  BY <2>1, <3>1 DEF Within
  <2>3. CASE IsMate(u) /\ u > 0
    <3>1. PliesToMate(u) \in Int /\ PliesToMate(v) <= PliesToMate(u)
      BY <1>0, <1>3, <2>3 DEF PliesToMate, VALUE_MATE
    <3>2. /\ Quotient(PliesToMate(u), 2) \in Int
          /\ Quotient(PliesToMate(v), 2) <= Quotient(PliesToMate(u), 2)
      BY <2>1, <3>1, QuotientMonotone
    <3>3. Scale(UciValue(u)) = 100000 - Quotient(PliesToMate(u), 2)
      BY <2>3, ScaleOfValue
    <3> QED  BY <2>1, <3>2, <3>3
  <2> QED  BY <1>0, <1>3, <2>2, <2>3
<1>4. \/ ~IsMate(u) /\ ~IsMate(v)
      \/ IsMate(u) /\ u <= 0
      \/ IsMate(v) /\ v > 0 /\ ~(IsMate(u) /\ u <= 0)
  BY <1>0 DEF IsMate, VALUE_MATE_IN_MAX_PLY, VALUE_MATE, MAX_PLY
<1> QED  BY <1>1, <1>2, <1>3, <1>4

-----------------------------------------------------------------------------
(* Grades *)

LEMMA UpTo ==
  ASSUME NEW n \in Nat
  PROVE  IsFiniteSet(1 .. n) /\ Cardinality(1 .. n) = n
<1>1. IsFiniteSet(1 .. n) /\ Cardinality(1 .. n) = IF 1 > n THEN 0 ELSE n - 1 + 1
  BY FS_Interval
<1> QED  BY <1>1

\* A larger loss never gets a better grade.
LEMMA GradeForLossMonotone ==
  ASSUME NEW a \in Nat, NEW b \in Nat, a <= b
  PROVE  /\ GradeForLoss(a) \in Grades /\ GradeForLoss(b) \in Grades
         /\ GradeForLoss(a) <= GradeForLoss(b)
<1> DEFINE Passed(l) == {i \in DOMAIN Limits : l >= Limits[i]}
<1>1. DOMAIN Limits = 1 .. 5 /\ \A i \in 1 .. 5 : Limits[i] \in Nat
  BY DEF Limits
<1>2. IsFiniteSet(1 .. 5) /\ Cardinality(1 .. 5) = 5
  BY UpTo
<1>3. Passed(a) \subseteq Passed(b) /\ Passed(b) \subseteq 1 .. 5
  BY <1>1
<1>4. \A l \in {a, b} : GradeForLoss(l) = IF l <= NEGLIGIBLE THEN BEST ELSE EXCELLENT + Cardinality(Passed(l))
  BY DEF GradeForLoss
<1> HIDE DEF Passed
<1>5. IsFiniteSet(Passed(b)) /\ Cardinality(Passed(b)) <= 5
  BY <1>2, <1>3, FS_Subset
<1>6. IsFiniteSet(Passed(a)) /\ Cardinality(Passed(a)) <= Cardinality(Passed(b))
  BY <1>3, <1>5, FS_Subset
<1>7. Cardinality(Passed(a)) \in Nat /\ Cardinality(Passed(b)) \in Nat
  BY <1>5, <1>6, FS_CardinalityType
<1> QED  BY <1>4, <1>5, <1>6, <1>7 DEF NEGLIGIBLE, BEST, EXCELLENT, Grades

\* A loss is a number of per mille.
LEMMA LossType ==
  ASSUME NEW b, NEW x, b.winRate \in 0 .. 1000, x.winRate \in 0 .. 1000
  PROVE  Loss(b, x) \in Nat
<1> DEFINE rb == b.winRate
           rx == x.winRate
<1>1. Loss(b, x) = IF rb > rx THEN rb - rx ELSE 0
  BY DEF Loss
<1>2. rb \in 0 .. 1000 /\ rx \in 0 .. 1000
  OBVIOUS
<1> HIDE DEF rb, rx
<1> QED  BY <1>1, <1>2

LEMMA LossMonotone ==
  ASSUME NEW b, NEW x, NEW y, b.winRate \in 0 .. 1000, x.winRate \in 0 .. 1000, y.winRate \in 0 .. 1000,
         y.winRate <= x.winRate
  PROVE  Loss(b, x) \in Nat /\ Loss(b, y) \in Nat /\ Loss(b, x) <= Loss(b, y)
<1> DEFINE rb == b.winRate
           rx == x.winRate
           ry == y.winRate
<1>1. Loss(b, x) = (IF rb > rx THEN rb - rx ELSE 0) /\ Loss(b, y) = (IF rb > ry THEN rb - ry ELSE 0)
  BY DEF Loss
<1>2. rb \in 0 .. 1000 /\ rx \in 0 .. 1000 /\ ry \in 0 .. 1000 /\ ry <= rx
  OBVIOUS
<1> HIDE DEF rb, rx, ry
<1> QED  BY <1>1, <1>2

\* What a grade reads of a line: a centipawn score has a win rate.
Rated(line) ==
  /\ line.score \in UciScore
  /\ line.score.kind = "cp" => line.score.value \in DOMAIN WinRate

LEMMA CpLine ==
  ASSUME NEW line, Rated(line), line.score.kind = "cp"
  PROVE  /\ ~Mates(Score(line)) /\ ~IsMated(Score(line))
         /\ Score(line).winRate = WinRate[line.score.value]
         /\ Score(line).winRate \in 0 .. 1000
         /\ orderingScore(line) = line.score.value
         /\ orderingScore(line) \in Within(15266)
<1>1. line.score.value \in Within(15266) /\ line.score.value \in DOMAIN WinRate
  BY DEF Rated, UciScore
<1> QED  BY <1>1, WinRateAssumption DEF Score, orderingScore, Mates, IsMated

LEMMA MateLine ==
  ASSUME NEW line, Rated(line), line.score.kind # "cp"
  PROVE  \/ /\ Mates(Score(line)) /\ ~IsMated(Score(line))
            /\ orderingScore(line) \in Int /\ orderingScore(line) >= 99877
         \/ /\ ~Mates(Score(line)) /\ IsMated(Score(line))
            /\ orderingScore(line) \in Int /\ orderingScore(line) <= -99877
            /\ Score(line).winRate = 0
<1>1. line.score.value \in Within(123) \ {0}
  BY DEF Rated, UciScore
<1> QED  BY <1>1 DEF Within, Score, orderingScore, Mates, IsMated

\* buildSnapshot() and CoachEvaluator.kt: of two moves below the first of the
\* ranking, the one that stands higher has no worse a grade, wherever mates and
\* centipawns meet.
THEOREM GradesFollowRanking ==
  ASSUME NEW best, NEW x, NEW y, Rated(best), Rated(x), Rated(y),
         x.move # best.move, y.move # best.move,
         orderingScore(best) >= orderingScore(x), orderingScore(x) >= orderingScore(y)
  PROVE  Grade(Score(best), Score(x)) <= Grade(Score(best), Score(y))
<1> DEFINE B == Score(best)
           X == Score(x)
           Y == Score(y)
           lossX == Loss(B, X)
           lossY == Loss(B, Y)
<1>1. X.move # B.move /\ Y.move # B.move
  BY DEF Score
<1>2. /\ Mates(Y) => Mates(X)
      /\ Mates(X) => Mates(B)
      /\ IsMated(B) => IsMated(X)
      /\ IsMated(X) => IsMated(Y)
  <2>1. \A l \in {best, x, y} :
          \/ /\ ~Mates(Score(l)) /\ ~IsMated(Score(l))
             /\ orderingScore(l) \in Int /\ orderingScore(l) >= -15266 /\ orderingScore(l) <= 15266
          \/ /\ Mates(Score(l)) /\ ~IsMated(Score(l))
             /\ orderingScore(l) \in Int /\ orderingScore(l) >= 99877
          \/ /\ ~Mates(Score(l)) /\ IsMated(Score(l))
             /\ orderingScore(l) \in Int /\ orderingScore(l) <= -99877
    BY CpLine, MateLine DEF Within
  <2> QED  BY <2>1
<1>3. ASSUME ~Mates(B), IsMated(Y) => IsMated(B)
      PROVE  lossX \in Nat /\ lossY \in Nat /\ lossX <= lossY
  <2>1. CASE IsMated(Y)
    <3>1. IsMated(B) /\ IsMated(X)
      BY <1>2, <1>3, <2>1
    <3>2. B.winRate = 0 /\ X.winRate = 0 /\ Y.winRate = 0
      BY <2>1, <3>1, CpLine, MateLine
    <3> QED  BY <3>2 DEF Loss
  <2>2. CASE ~IsMated(Y)
    <3>1. /\ ~Mates(B) /\ ~IsMated(B)
          /\ ~Mates(X) /\ ~IsMated(X)
          /\ ~Mates(Y) /\ ~IsMated(Y)
      BY <1>2, <1>3, <2>2
    <3>2. best.score.kind = "cp" /\ x.score.kind = "cp" /\ y.score.kind = "cp"
      BY <3>1, MateLine
    <3>3. B.winRate \in 0 .. 1000 /\ X.winRate \in 0 .. 1000 /\ Y.winRate \in 0 .. 1000
      BY <3>2, CpLine
    <3>4. Y.winRate <= X.winRate
      <4>1. x.score.value \in DOMAIN WinRate /\ y.score.value \in DOMAIN WinRate
        BY <3>2 DEF Rated
      <4>2. x.score.value >= y.score.value /\ x.score.value \in Int /\ y.score.value \in Int
        BY <3>2, CpLine DEF Within
      <4> QED  BY <3>2, <4>1, <4>2, CpLine, WinRateAssumption
    <3> HIDE DEF B, X, Y
    <3> QED  BY <3>3, <3>4, LossMonotone
  <2> QED  BY <2>1, <2>2
<1>4. ASSUME NEW s \in {X, Y}, ~Mates(s), ~Mates(B), ~(IsMated(s) /\ ~IsMated(B))
      PROVE  Grade(B, s) = GradeForLoss(Loss(B, s))
  BY <1>1, <1>4 DEF Grade
<1>5. CASE Mates(Y)
  <2>1. Mates(X)
    BY <1>2, <1>5
  <2>2. Grade(B, X) = BEST /\ Grade(B, Y) = BEST
    BY <1>5, <2>1 DEF Grade
  <2> QED  BY <2>2 DEF BEST
<1>6. CASE ~Mates(Y) /\ Mates(B)
  <2>1. Grade(B, Y) = BLUNDER
    BY <1>1, <1>6 DEF Grade
  <2>2. Grade(B, X) = BEST \/ Grade(B, X) = BLUNDER
    BY <1>1, <1>6 DEF Grade
  <2> QED  BY <2>1, <2>2 DEF BEST, BLUNDER
<1>7. CASE ~Mates(B) /\ IsMated(Y) /\ ~IsMated(B)
  <2>1. ~Mates(X) /\ ~Mates(Y)
    BY <1>2, <1>7
  <2>2. Grade(B, Y) = BLUNDER
    BY <1>1, <1>7, <2>1 DEF Grade
  <2>3. CASE IsMated(X)
    <3>1. Grade(B, X) = BLUNDER
      BY <1>1, <1>7, <2>1, <2>3 DEF Grade
    <3> QED  BY <2>2, <3>1 DEF BLUNDER
  <2>4. CASE ~IsMated(X)
    <3>1. x.score.kind = "cp" /\ best.score.kind = "cp"
      BY <1>7, <2>1, <2>4, MateLine
    <3>2. B.winRate \in 0 .. 1000 /\ X.winRate \in 0 .. 1000
      BY <3>1, CpLine
    <3>3. Loss(B, X) \in Nat
      BY <3>2, LossType
    <3>4. Grade(B, X) = GradeForLoss(Loss(B, X))
      BY <1>4, <1>7, <2>1, <2>4
    <3>5. GradeForLoss(Loss(B, X)) \in Grades
      BY <3>3, GradeForLossMonotone
    <3> QED  BY <2>2, <3>4, <3>5 DEF Grades, BLUNDER
  <2> QED  BY <2>3, <2>4
<1>8. CASE ~Mates(B) /\ (IsMated(Y) => IsMated(B))
  <2>1. ~Mates(X) /\ ~Mates(Y) /\ (IsMated(X) => IsMated(B))
    BY <1>2, <1>8
  <2>2. Grade(B, X) = GradeForLoss(lossX) /\ Grade(B, Y) = GradeForLoss(lossY)
    BY <1>4, <1>8, <2>1
  <2>3. lossX \in Nat /\ lossY \in Nat /\ lossX <= lossY
    BY <1>3, <1>8
  <2>4. GradeForLoss(lossX) <= GradeForLoss(lossY)
    <3> HIDE DEF lossX, lossY
    <3> QED  BY <2>3, GradeForLossMonotone
  <2> QED  BY <2>2, <2>4
<1>9. Mates(Y) => Mates(B)
  BY <1>2
<1> QED  BY <1>5, <1>6, <1>7, <1>8, <1>9

-----------------------------------------------------------------------------
(* Orders of finite sets *)

\* R as a set of pairs is a strict total order of S.
Orders(R, S) ==
  /\ \A i \in S : <<i, i>> \notin R
  /\ \A i, j \in S : i # j => <<i, j>> \in R \/ <<j, i>> \in R
  /\ \A i, j, k \in S : <<i, j>> \in R /\ <<j, k>> \in R => <<i, k>> \in R

Below(R, S, j) == {i \in S : <<i, j>> \in R}
Rank(R, S) == [j \in S |-> Cardinality(Below(R, S, j))]

\* The number of elements before it is the place of an element.
LEMMA RankPlaces ==
  ASSUME NEW S, IsFiniteSet(S), NEW R, Orders(R, S)
  PROVE  /\ Rank(R, S) \in Bijection(S, 0 .. Cardinality(S) - 1)
         /\ \A i, j \in S : <<i, j>> \in R <=> Rank(R, S)[i] < Rank(R, S)[j]
<1> DEFINE n == Cardinality(S)
<1>1. n \in Nat
  BY FS_CardinalityType
<1>2. ASSUME NEW j \in S
      PROVE  IsFiniteSet(Below(R, S, j)) /\ Cardinality(Below(R, S, j)) \in 0 .. n - 1
  <2>1. Below(R, S, j) \subseteq S /\ j \notin Below(R, S, j)
    BY <1>2 DEF Below, Orders
  <2>2. IsFiniteSet(Below(R, S, j)) /\ Cardinality(Below(R, S, j)) <= n /\ Cardinality(Below(R, S, j)) # n
    BY <1>2, <2>1, FS_Subset
  <2>3. Cardinality(Below(R, S, j)) \in Nat
    BY <2>2, FS_CardinalityType
  <2> QED  BY <1>1, <2>2, <2>3
<1>3. ASSUME NEW i \in S, NEW j \in S, <<i, j>> \in R
      PROVE  Cardinality(Below(R, S, i)) < Cardinality(Below(R, S, j))
  <2>1. Below(R, S, i) \subseteq Below(R, S, j) /\ i \in Below(R, S, j) /\ i \notin Below(R, S, i)
    BY <1>3 DEF Below, Orders
  <2>2. /\ Cardinality(Below(R, S, i)) <= Cardinality(Below(R, S, j))
        /\ Cardinality(Below(R, S, i)) # Cardinality(Below(R, S, j))
    BY <1>2, <2>1, FS_Subset
  <2> QED  BY <1>2, <2>2
<1>4. Rank(R, S) \in [S -> 0 .. n - 1] /\ \A j \in S : Rank(R, S)[j] = Cardinality(Below(R, S, j))
  BY <1>2 DEF Rank
<1>5. \A i, j \in S : <<i, j>> \in R => Rank(R, S)[i] < Rank(R, S)[j]
  BY <1>3, <1>4
<1>0. \A j \in S : Rank(R, S)[j] \in Int
  BY <1>4
<1>6. \A i, j \in S : i = j \/ Rank(R, S)[i] < Rank(R, S)[j] \/ Rank(R, S)[j] < Rank(R, S)[i]
  <2>1. \A i, j \in S : i # j => <<i, j>> \in R \/ <<j, i>> \in R
    BY DEF Orders
  <2> QED  BY <1>5, <2>1
<1>7. Rank(R, S) \in Injection(S, 0 .. n - 1)
  <2>1. \A i, j \in S : Rank(R, S)[i] = Rank(R, S)[j] => i = j
    BY <1>0, <1>6
  <2> QED  BY <1>4, <2>1, Fun_IsInj
<1>8. IsFiniteSet(0 .. n - 1) /\ Cardinality(0 .. n - 1) = n
  <2>1. 0 \in Int /\ n - 1 \in Int
    BY <1>1
  <2>2. IsFiniteSet(0 .. n - 1) /\ Cardinality(0 .. n - 1) = IF 0 > n - 1 THEN 0 ELSE n - 1 - 0 + 1
    BY <2>1, FS_Interval
  <2> QED  BY <1>1, <2>2
<1>9. Rank(R, S) \in Surjection(S, 0 .. n - 1)
  BY <1>7, <1>8, FS_Injection
<1>10. Rank(R, S) \in Bijection(S, 0 .. n - 1)
  BY <1>7, <1>9, Fun_IsBij
<1>11. \A i, j \in S : Rank(R, S)[i] < Rank(R, S)[j] => <<i, j>> \in R
  <2> SUFFICES ASSUME NEW i \in S, NEW j \in S, Rank(R, S)[i] < Rank(R, S)[j]
               PROVE  <<i, j>> \in R
    OBVIOUS
  <2>1. Rank(R, S)[i] \in Int /\ Rank(R, S)[j] \in Int
    BY <1>0
  <2>2. i # j /\ ~(Rank(R, S)[j] < Rank(R, S)[i])
    BY <2>1
  <2>3. <<j, i>> \notin R
    BY <1>5, <2>2
  <2> QED  BY <2>2, <2>3 DEF Orders
<1> QED  BY <1>5, <1>10, <1>11

\* So a finite set can be put in order.
LEMMA InOrderOf ==
  ASSUME NEW S, IsFiniteSet(S), NEW R, Orders(R, S)
  PROVE  \E s \in SetToSeqs(S) : \A i, j \in DOMAIN s : i < j => <<s[i], s[j]>> \in R
<1> DEFINE n == Cardinality(S)
           D == 1 .. n
           at(k) == CHOOSE j \in S : Rank(R, S)[j] = k - 1
           s == [k \in D |-> at(k)]
<1>1. n \in Nat
  BY FS_CardinalityType
<1>2. /\ \A k \in 0 .. n - 1 : \E j \in S : Rank(R, S)[j] = k
      /\ \A i, j \in S : <<i, j>> \in R <=> Rank(R, S)[i] < Rank(R, S)[j]
  <2>1. Rank(R, S) \in Bijection(S, 0 .. n - 1)
    BY RankPlaces
  <2>2. \A k \in 0 .. n - 1 : \E j \in S : Rank(R, S)[j] = k
    BY <2>1 DEF Bijection, Surjection
  <2> QED  BY <2>2, RankPlaces
<1>3. \A k \in D : at(k) \in S /\ Rank(R, S)[at(k)] = k - 1
  <2> SUFFICES ASSUME NEW k \in D
               PROVE  at(k) \in S /\ Rank(R, S)[at(k)] = k - 1
    OBVIOUS
  <2>1. k - 1 \in 0 .. n - 1
    BY <1>1
  <2>2. \E j \in S : Rank(R, S)[j] = k - 1
    BY <1>2, <2>1
  <2> QED  BY <2>2
<1>4. s \in [D -> S] /\ DOMAIN s = D /\ \A k \in D : Rank(R, S)[s[k]] = k - 1
  BY <1>3
<1> HIDE DEF s, at
<1>5. D \subseteq Int
  BY <1>1
<1>6. \A i, j \in D : i # j => s[i] # s[j]
  BY <1>4, <1>5
<1>7. s \in SetToSeqs(S)
  BY <1>4, <1>6 DEF SetToSeqs
<1>8. \A i, j \in D : i < j => <<s[i], s[j]>> \in R
  BY <1>2, <1>4, <1>5
<1> QED  BY <1>4, <1>7, <1>8

\* What SetToSeqs gives, without the functions.
LEMMA SeqsFacts ==
  ASSUME NEW S, IsFiniteSet(S), NEW s \in SetToSeqs(S)
  PROVE  /\ Cardinality(S) \in Nat
         /\ DOMAIN s = 1 .. Cardinality(S) /\ Len(s) = Cardinality(S) /\ s \in Seq(S)
         /\ \A i \in DOMAIN s : s[i] \in S
         /\ \A i, j \in DOMAIN s : s[i] = s[j] => i = j
         /\ \A x \in S : \E i \in DOMAIN s : s[i] = x
<1> DEFINE n == Cardinality(S)
<1>1. n \in Nat
  BY FS_CardinalityType
<1>2. s \in [1 .. n -> S] /\ \A i, j \in 1 .. n : i # j => s[i] # s[j]
  BY DEF SetToSeqs
<1>3. IsFiniteSet(1 .. n) /\ Cardinality(1 .. n) = n
  BY <1>1, UpTo
<1>4. s \in Injection(1 .. n, S)
  BY <1>2, Fun_IsInj
<1>5. s \in Surjection(1 .. n, S)
  BY <1>3, <1>4, FS_Injection
<1>6. \A x \in S : \E i \in 1 .. n : s[i] = x
  BY <1>5 DEF Surjection
<1> HIDE DEF n
<1>7. s \in Seq(S) /\ Len(s) = n
  BY <1>1, <1>2
<1> QED  BY <1>1, <1>2, <1>6, <1>7 DEF n

\* A finite set of integers has a largest and a smallest element.
LEMMA MaxMin ==
  ASSUME NEW S, IsFiniteSet(S), S \subseteq Int, S # {}
  PROVE  /\ Max(S) \in S /\ \A x \in S : Max(S) >= x
         /\ Min(S) \in S /\ \A x \in S : Min(S) <= x
<1> DEFINE R == {p \in S \X S : p[1] < p[2]}
           n == Cardinality(S)
<1>1. \A i, j \in S : <<i, j>> \in R <=> i < j
  OBVIOUS
<1> HIDE DEF R
<1>2. Orders(R, S)
  BY <1>1 DEF Orders
<1>3. n \in Nat /\ n # 0
  BY FS_CardinalityType, FS_EmptySet
<1>4. PICK s \in SetToSeqs(S) : \A i, j \in DOMAIN s : i < j => <<s[i], s[j]>> \in R
  BY <1>2, InOrderOf
<1>5. /\ DOMAIN s = 1 .. n
      /\ \A i \in DOMAIN s : s[i] \in S
      /\ \A x \in S : \E i \in DOMAIN s : s[i] = x
  BY SeqsFacts
<1> HIDE DEF n
<1>6. \A x \in S : \E i \in 1 .. n : s[i] = x /\ (i = n \/ i < n) /\ (i = 1 \/ 1 < i)
  BY <1>3, <1>5
<1>7. 1 \in 1 .. n /\ n \in 1 .. n
  BY <1>3
<1>8. \A i, j \in 1 .. n : i < j => s[i] < s[j]
  BY <1>1, <1>4, <1>5
<1>9. s[n] \in S /\ s[1] \in S
  BY <1>5, <1>7
<1>10. \A x \in S : s[n] >= x /\ s[1] <= x
  <2> SUFFICES ASSUME NEW x \in S
               PROVE  s[n] >= x /\ s[1] <= x
    OBVIOUS
  <2>1. PICK i \in 1 .. n : s[i] = x /\ (i = n \/ i < n) /\ (i = 1 \/ 1 < i)
    BY <1>6
  <2>2. s[n] = x \/ x < s[n]
    BY <1>7, <1>8, <2>1
  <2>3. s[1] = x \/ s[1] < x
    BY <1>7, <1>8, <2>1
  <2>4. x \in Int /\ s[n] \in Int /\ s[1] \in Int
    BY <1>9
  <2> QED  BY <2>2, <2>3, <2>4
<1>11. Max(S) \in S /\ \A x \in S : Max(S) >= x
  BY <1>9, <1>10 DEF Max
<1>12. Min(S) \in S /\ \A x \in S : Min(S) <= x
  BY <1>9, <1>10 DEF Min
<1> QED  BY <1>11, <1>12

-----------------------------------------------------------------------------
(* The sort of the root moves *)

\* The list t is r, with the moves of the positions in Slots in their order, by f.
Sorts(f, r, t, Slots) ==
  /\ t = [p \in DOMAIN r |-> r[f[p]]]
  /\ f \in [DOMAIN r -> DOMAIN r]
  /\ \A p \in DOMAIN r : p \notin Slots => f[p] = p
  /\ \A p \in DOMAIN r : p \in Slots => f[p] \in Slots
  /\ \A p, q \in DOMAIN r : f[p] = f[q] => p = q
  /\ \A q \in DOMAIN r : \E p \in DOMAIN r : f[p] = q
  /\ \A p, q \in Slots : p < q => ~Before(r[f[q]], r[f[p]])

\* std::stable_sort loses no root move and puts none twice: it moves those of
\* its range, and none of them stays behind a worse one.
LEMMA StableSortSorts ==
  ASSUME NEW r, NEW from \in Int, NEW to \in Int, from .. to \subseteq DOMAIN r,
         \A i \in from .. to : r[i].score \in Int /\ r[i].prev \in Int
  PROVE  \E f : Sorts(f, r, StableSort(r, from, to), from .. to)
<1> DEFINE S == from .. to
           ahead(i, j) == Before(r[i], r[j]) \/ (~Before(r[j], r[i]) /\ i < j)
           R == {p \in S \X S : ahead(p[1], p[2])}
           place(j) == from + Cardinality({i \in S : ahead(i, j)})
           at(p) == CHOOSE j \in S : place(j) = p
           f == [p \in DOMAIN r |-> IF p \in S THEN at(p) ELSE p]
<1>1. \A i, j \in S : <<i, j>> \in R <=> ahead(i, j)
  OBVIOUS
<1>2. Orders(R, S)
  <2>1. \A i \in S : ~ahead(i, i)
    BY DEF Before
  <2>2. \A i, j \in S : i # j => ahead(i, j) \/ ahead(j, i)
    BY DEF Before
  <2>3. \A i, j, k \in S : ahead(i, j) /\ ahead(j, k) => ahead(i, k)
    BY DEF Before
  <2> HIDE DEF R, ahead
  <2> QED  BY <1>1, <2>1, <2>2, <2>3 DEF Orders
<1>3. IsFiniteSet(S) /\ Cardinality(S) = IF from > to THEN 0 ELSE to - from + 1
  BY FS_Interval
<1>4. /\ Rank(R, S) \in Bijection(S, 0 .. Cardinality(S) - 1)
      /\ \A i, j \in S : <<i, j>> \in R <=> Rank(R, S)[i] < Rank(R, S)[j]
  BY <1>2, <1>3, RankPlaces
<1>5. \A j \in S : place(j) = from + Rank(R, S)[j]
  <2> SUFFICES ASSUME NEW j \in S
               PROVE  place(j) = from + Rank(R, S)[j]
    OBVIOUS
  <2>1. {i \in S : ahead(i, j)} = Below(R, S, j)
    BY <1>1 DEF Below
  <2> QED  BY <2>1 DEF Rank
<1> HIDE DEF R, place
<1>6. \A p \in S : at(p) \in S /\ place(at(p)) = p
  <2> SUFFICES ASSUME NEW p \in S
               PROVE  at(p) \in S /\ place(at(p)) = p
    OBVIOUS
  <2>1. p - from \in 0 .. Cardinality(S) - 1
    BY <1>3
  <2>2. \E j \in S : Rank(R, S)[j] = p - from
    BY <1>4, <2>1 DEF Bijection, Surjection
  <2>3. \E j \in S : place(j) = p
    BY <1>5, <2>2
  <2> QED  BY <2>3
<1>7. \A i, j \in S : place(i) = place(j) => i = j
  <2>1. \A i, j \in S : Rank(R, S)[i] = Rank(R, S)[j] => i = j
    BY <1>4, Fun_BijectionProperties
  <2>2. \A i \in S : Rank(R, S)[i] \in Int
    BY <1>4 DEF Bijection, Injection
  <2> QED  BY <1>5, <2>1, <2>2
<1>8. \A i, j \in S : place(i) < place(j) => ahead(i, j)
  <2>1. \A i \in S : Rank(R, S)[i] \in Int
    BY <1>4 DEF Bijection, Injection
  <2>2. \A i, j \in S : place(i) < place(j) => Rank(R, S)[i] < Rank(R, S)[j]
    <3> HIDE DEF S
    <3> QED  BY <1>5, <2>1
  <2> HIDE DEF ahead
  <2> QED  BY <1>1, <1>4, <2>2
<1>9. \A i, j \in S : ahead(i, j) => ~Before(r[j], r[i])
  BY DEF Before
<1> HIDE DEF ahead
<1>10. StableSort(r, from, to) = [p \in DOMAIN r |-> IF p \in S THEN r[at(p)] ELSE r[p]]
  BY DEF StableSort, place, ahead
<1> HIDE DEF at
<1>11. StableSort(r, from, to) = [p \in DOMAIN r |-> r[f[p]]]
  BY <1>10
<1>12. Sorts(f, r, StableSort(r, from, to), S)
  <2>1. /\ DOMAIN f = DOMAIN r
        /\ \A p \in DOMAIN r : f[p] = IF p \in S THEN at(p) ELSE p
    OBVIOUS
  <2>2. f \in [DOMAIN r -> DOMAIN r]
    BY <1>6
  <2> HIDE DEF f, S
  <2>3. \A p, q \in DOMAIN r : f[p] = f[q] => p = q
    BY <1>6, <2>1
  <2>4. S \subseteq DOMAIN r
    BY DEF S
  <2>5. \A q \in S : at(place(q)) = q /\ place(q) \in S
    <3> SUFFICES ASSUME NEW q \in S
                 PROVE  at(place(q)) = q /\ place(q) \in S
      OBVIOUS
    <3>1. Rank(R, S)[q] \in 0 .. Cardinality(S) - 1
      BY <1>4 DEF Bijection, Injection
    <3>2. place(q) \in S
      BY <1>3, <1>5, <3>1 DEF S
    <3> QED  BY <1>6, <1>7, <3>2
  <2>6. \A q \in DOMAIN r : \E p \in DOMAIN r : f[p] = q
    <3> SUFFICES ASSUME NEW q \in DOMAIN r
                 PROVE  \E p \in DOMAIN r : f[p] = q
      OBVIOUS
    <3>1. CASE q \in S
      <4>1. f[place(q)] = q /\ place(q) \in DOMAIN r
        BY <2>1, <2>4, <2>5, <3>1
      <4> QED  BY <4>1
    <3>2. CASE q \notin S
      BY <2>1, <3>2
    <3> QED  BY <3>1, <3>2
  <2>7. \A p, q \in S : p < q => ~Before(r[f[q]], r[f[p]])
    BY <1>6, <1>8, <1>9, <2>1, <2>4
  <2>8. StableSort(r, from, to) = [p \in DOMAIN r |-> r[f[p]]]
    BY <1>11
  <2> QED  BY <1>6, <2>1, <2>2, <2>3, <2>4, <2>6, <2>7, <2>8 DEF Sorts
<1> QED  BY <1>12

-----------------------------------------------------------------------------
(* The inductive invariant *)

Scores == Values \cup {NOTHING}
Entries == [move : Moves, score : Scores, prev : Scores, at : Nat, prevAt : Nat]
Printed == {UciValue(v) : v \in Values \cup {0}}
Reports == [slot : 1 .. Lines, move : Moves, depth : Nat \ {0}, score : Printed, at : Nat]

TypeInv ==
  /\ depth \in Nat \ {0} /\ pvIdx \in 1 .. Lines
  /\ window \in [alpha : Int, beta : Int, delta : Int, tries : Nat]
  /\ ended \in BOOLEAN /\ stopped \in BOOLEAN
  /\ wire \in Seq(Reports)
  /\ lines \in [1 .. Lines -> {NoLine} \cup Reports]

HasScore(rm) == rm.score # NOTHING
HadScore(rm) == rm.prev # NOTHING

\* A list of the root moves in iteration d: every move once, scores of this
\* iteration or the last one, previous scores of the last one, and as many of
\* these as there are lines.
RootList(r, d) ==
  /\ r \in [1 .. N -> Entries]
  /\ \A i, j \in 1 .. N : r[i].move = r[j].move => i = j
  /\ \A i \in 1 .. N : HasScore(r[i]) => r[i].at \in {d - 1, d} \ {0}
  /\ \A i \in 1 .. N : HadScore(r[i]) => d > 1 /\ r[i].prevAt = d - 1
  /\ d > 1 => Cardinality({i \in 1 .. N : HadScore(r[i])}) >= Lines

\* While the search goes on, the lines before the one being searched are done.
RootInv ==
  /\ RootList(root, depth)
  /\ ~ended => \A i \in 1 .. pvIdx - 1 : HasScore(root[i]) /\ root[i].at = depth

EndInv ==
  /\ stopped => ended
  /\ completed = IF ended /\ ~stopped THEN depth ELSE depth - 1

\* What LinesAreFresh says of a line.
Cut == stopped /\ completed = 0
Fresh(line, cut) == line.at \in {line.depth, line.depth - 1} \ {0} \/ (cut /\ line.slot = 1)

\* The table of lines as it will be when all that is printed is read.
Latest(i) ==
  IF \E k \in DOMAIN wire : wire[k].slot = i THEN wire[CHOOSE k \in DOMAIN wire : wire[k].slot = i]
  ELSE lines[i]

TableInv ==
  /\ \A k, l \in DOMAIN wire : wire[k].slot = wire[l].slot => k = l
  /\ \A k \in DOMAIN wire : Fresh(wire[k], Cut)
  /\ \A i \in 1 .. Lines : lines[i] # NoLine => lines[i].slot = i /\ Fresh(lines[i], Cut)
  /\ completed > 0 =>
       /\ \A i \in 1 .. Lines : Latest(i) # NoLine /\ Latest(i).depth \in {completed, completed + 1}
       /\ \A i, j \in 1 .. Lines : Latest(i).move = Latest(j).move => i = j
  /\ ended /\ ~stopped =>
       /\ \A i \in 1 .. Lines : Latest(i) = Info(root, i) /\ HasScore(root[i])
       /\ \A i, j \in 1 .. Lines : i < j => root[i].score >= root[j].score

RankingInv == TypeInv /\ RootInv /\ EndInv /\ TableInv

-----------------------------------------------------------------------------
(* Constants and searches *)

\* Sequences as functions.
LEMMA SeqFacts ==
  ASSUME NEW S, NEW s \in Seq(S)
  PROVE  /\ Len(s) \in Nat /\ DOMAIN s = 1 .. Len(s) /\ s \in [1 .. Len(s) -> S]
         /\ \A k \in DOMAIN s : s[k] \in S
         /\ s = <<>> <=> Len(s) = 0
OBVIOUS

\* A function on 1 .. n is a sequence of n elements.
LEMMA FunSeq ==
  ASSUME NEW S, NEW n \in Nat, NEW f \in [1 .. n -> S]
  PROVE  f \in Seq(S) /\ Len(f) = n
OBVIOUS

\* One element in front.
LEMMA PrependFacts ==
  ASSUME NEW S, NEW x \in S, NEW s \in Seq(S)
  PROVE  /\ <<x>> \o s \in Seq(S) /\ DOMAIN (<<x>> \o s) = 1 .. Len(s) + 1
         /\ (<<x>> \o s)[1] = x
         /\ \A k \in 2 .. Len(s) + 1 : (<<x>> \o s)[k] = s[k - 1] /\ k - 1 \in DOMAIN s
OBVIOUS

\* The larger and the smaller of two integers.
LEMMA PairFacts ==
  ASSUME NEW a \in Int, NEW b \in Int
  PROVE  /\ Max({a, b}) \in {a, b} /\ Max({a, b}) >= a /\ Max({a, b}) >= b
         /\ Min({a, b}) \in {a, b} /\ Min({a, b}) <= a /\ Min({a, b}) <= b
<1>1. IsFiniteSet({a} \cup {b})
  BY FS_Singleton, FS_AddElement
<1>2. {a} \cup {b} = {a, b}
  OBVIOUS
<1>3. IsFiniteSet({a, b}) /\ {a, b} \subseteq Int /\ {a, b} # {}
  BY <1>1, <1>2
<1> QED  BY <1>3, MaxMin

\* What the constants of the search and of the app are.
LEMMA ConstantFacts ==
  /\ N \in Nat \ {0} /\ N = Cardinality(Moves) /\ IsFiniteSet(Moves)
  /\ Lines \in 1 .. N /\ (MultiPv >= N => Lines = N)
  /\ NOTHING = -32001 /\ \A s \in Scores : s \in Int /\ s >= NOTHING
  /\ \A v \in Values : v \in EngineValues /\ v > NOTHING
<1>1. N \in Nat \ {0} /\ IsFiniteSet(Moves)
  BY RankingAssumption, FS_CardinalityType, FS_EmptySet DEF N
<1>2. MultiPv \in 1 .. 500
  BY RankingAssumption
<1>3. Lines \in {MultiPv, N} /\ Lines <= MultiPv /\ Lines <= N
  <2>1. MultiPv \in Int /\ N \in Int
    BY <1>1, <1>2
  <2>2. Min({MultiPv, N}) \in {MultiPv, N} /\ Min({MultiPv, N}) <= MultiPv /\ Min({MultiPv, N}) <= N
    BY <2>1, PairFacts
  <2> QED  BY <2>2 DEF Lines
<1>4. NOTHING = -32001
  BY DEF NOTHING, VALUE_INFINITE
<1>5. \A v \in Values : v \in Int /\ v >= -31999 /\ v <= 31999
  <2>1. Values \subseteq (1 - VALUE_MATE) .. (VALUE_MATE - 1)
    BY RankingAssumption
  <2>2. VALUE_MATE \in Int
    BY DEF VALUE_MATE
  <2>3. \A v \in Values : v \in Int /\ v >= 1 - VALUE_MATE /\ v <= VALUE_MATE - 1
    BY <2>1, <2>2
  <2> QED  BY <2>3 DEF VALUE_MATE
<1>6. \A v \in Values : v \in EngineValues /\ v > NOTHING
  BY <1>4, <1>5 DEF EngineValues, VALUE_MATE
<1>7. \A s \in Scores : s \in Int /\ s >= NOTHING
  BY <1>4, <1>5 DEF Scores
<1> QED  BY <1>1, <1>2, <1>3, <1>4, <1>6, <1>7 DEF N

\* What a search of the root has seen: the line's own move first, no move
\* twice, and with one visit for each of the others all of them.
LEMMA VisitFacts ==
  ASSUME pvIdx \in 1 .. N, NEW v \in Visits
  PROVE  /\ v.at \in Seq(pvIdx .. N) /\ DOMAIN v.value = DOMAIN v.at
         /\ DOMAIN v.at = 1 .. Len(v.at) /\ Len(v.at) \in Nat /\ Len(v.value) = Len(v.at)
         /\ \A k \in DOMAIN v.at : v.value[k] \in Values
         /\ \A h, k \in DOMAIN v.at : v.at[h] = v.at[k] => h = k
         /\ v.at # <<>> => v.at[1] = pvIdx
         /\ Len(v.at) = N + 1 - pvIdx => \A i \in pvIdx .. N : \E k \in DOMAIN v.at : v.at[k] = i
<1> DEFINE Rest == SetToAllKPermutations(pvIdx + 1 .. N)
           orders == {<<>>} \cup {<<pvIdx>> \o p : p \in Rest}
<1>1. PICK o \in orders : v \in [at : {o}, value : [DOMAIN o -> Values]]
  BY DEF Visits
<1>2. v.at = o /\ v.value \in [DOMAIN o -> Values]
  BY <1>1
<1>3. /\ o \in Seq(pvIdx .. N)
      /\ \A h, k \in DOMAIN o : o[h] = o[k] => h = k
      /\ o # <<>> => o[1] = pvIdx
  <2>1. CASE o = <<>>
    BY <2>1
  <2>2. CASE o # <<>>
    <3>1. PICK p \in Rest : o = <<pvIdx>> \o p
      BY <2>2
    <3>2. PICK s \in SUBSET (pvIdx + 1 .. N) : p \in SetToSeqs(s)
      BY <3>1 DEF SetToAllKPermutations
    <3>3. IsFiniteSet(s)
      <4>1. IsFiniteSet(pvIdx + 1 .. N)
        BY ConstantFacts, FS_Interval
      <4> QED  BY <4>1, FS_Subset
    <3>4. /\ p \in Seq(s) /\ DOMAIN p = 1 .. Len(p) /\ Len(p) \in Nat
          /\ \A i \in DOMAIN p : p[i] \in s
          /\ \A i, j \in DOMAIN p : p[i] = p[j] => i = j
      BY <3>2, <3>3, SeqsFacts
    <3>5. N \in Nat
      BY ConstantFacts
    <3>6. /\ DOMAIN o = 1 .. Len(p) + 1 /\ o[1] = pvIdx
          /\ \A k \in 2 .. Len(p) + 1 : o[k] = p[k - 1] /\ k - 1 \in DOMAIN p
          /\ o \in Seq(pvIdx .. N)
      <4>1. p \in Seq(pvIdx .. N) /\ pvIdx \in pvIdx .. N
        <5>1. s \subseteq pvIdx .. N
          BY <3>2, <3>5
        <5>2. p \in [1 .. Len(p) -> pvIdx .. N]
          BY <3>4, <5>1, SeqFacts
        <5> QED  BY <3>4, <3>5, <5>2, FunSeq
      <4> QED  BY <3>1, <4>1, PrependFacts
    <3>7. \A i \in s : i \in Int /\ i > pvIdx
      BY <3>2, <3>5
    <3>8. ASSUME NEW h \in DOMAIN o, NEW k \in DOMAIN o, o[h] = o[k]
          PROVE  h = k
      <4>1. \A a \in 2 .. Len(p) + 1 : o[a] # o[1]
        BY <3>4, <3>6, <3>7
      <4>2. CASE h = 1 \/ k = 1
        BY <3>4, <3>6, <3>8, <4>1, <4>2
      <4>3. CASE h # 1 /\ k # 1
        <5>1. h \in 2 .. Len(p) + 1 /\ k \in 2 .. Len(p) + 1
          BY <3>4, <3>6, <4>3
        <5>2. h - 1 = k - 1
          BY <3>4, <3>6, <3>8, <5>1
        <5> QED  BY <5>1, <5>2
      <4> QED  BY <4>2, <4>3
    <3> QED  BY <3>6, <3>8
  <2> QED  BY <2>1, <2>2
<1>4. /\ DOMAIN o = 1 .. Len(o) /\ Len(o) \in Nat
      /\ \A k \in DOMAIN o : o[k] \in pvIdx .. N
  BY <1>3, SeqFacts
<1>5. ASSUME Len(o) = N + 1 - pvIdx
      PROVE  \A i \in pvIdx .. N : \E k \in DOMAIN o : o[k] = i
  <2>1. N \in Nat
    BY ConstantFacts
  <2>2. IsFiniteSet(pvIdx .. N) /\ Cardinality(pvIdx .. N) = N + 1 - pvIdx
    <3>1. IsFiniteSet(pvIdx .. N) /\ Cardinality(pvIdx .. N) = IF pvIdx > N THEN 0 ELSE N - pvIdx + 1
      BY <2>1, FS_Interval
    <3> QED  BY <2>1, <3>1
  <2>3. o \in SetToSeqs(pvIdx .. N)
    <3>1. o \in [1 .. Len(o) -> pvIdx .. N]
      BY <1>3, SeqFacts
    <3> QED  BY <1>3, <1>4, <1>5, <2>2, <3>1 DEF SetToSeqs
  <2> QED  BY <2>2, <2>3, SeqsFacts
<1>6. Len(v.value) = Len(v.at)
  <2>1. v.value \in [1 .. Len(o) -> Values]
    BY <1>2, <1>4
  <2>2. v.value \in Seq(Values) /\ Len(v.value) = Len(o)
    BY <1>4, <2>1, FunSeq
  <2> QED  BY <1>2, <2>2
<1> QED  BY <1>2, <1>3, <1>4, <1>5, <1>6

-----------------------------------------------------------------------------
(* Lists of root moves *)

\* A search of a line changes scores only, of the moves it visited; the first
\* of them has one.
LEMMA ScoredFacts ==
  ASSUME pvIdx \in 1 .. N, root \in [1 .. N -> Entries], depth \in Nat \ {0}, NEW v \in Visits
  PROVE  /\ Scored(v) \in [1 .. N -> Entries]
         /\ \A i \in 1 .. N : /\ Scored(v)[i].move = root[i].move
                              /\ Scored(v)[i].prev = root[i].prev
                              /\ Scored(v)[i].prevAt = root[i].prevAt
         /\ \A i \in 1 .. N : \/ Scored(v)[i] = root[i] /\ i \notin Range(v.at)
                              \/ HasScore(Scored(v)[i]) => Scored(v)[i].at = depth
         /\ \A i \in 1 .. pvIdx - 1 : Scored(v)[i] = root[i]
         /\ v.at # <<>> => HasScore(Scored(v)[pvIdx]) /\ Scored(v)[pvIdx].at = depth
<1> DEFINE k(i) == CHOOSE h \in DOMAIN v.at : v.at[h] = i
           hit(i) == [root[i] EXCEPT !.score = v.value[k(i)], !.at = depth]
           miss(i) == [root[i] EXCEPT !.score = NOTHING]
<1>1. \A i \in 1 .. N : Scored(v)[i] = IF i \notin Range(v.at) THEN root[i]
                                       ELSE IF Raises(v, k(i)) THEN hit(i) ELSE miss(i)
  BY DEF Scored
<1>2. Scored(v) = [i \in 1 .. N |-> Scored(v)[i]]
  BY DEF Scored
<1>3. \A i \in Range(v.at) : k(i) \in DOMAIN v.at /\ v.at[k(i)] = i
  BY DEF Range
<1>4. \A i \in Range(v.at) : v.value[k(i)] \in Values
  BY <1>3, VisitFacts
<1> HIDE DEF k
<1>5. \A i \in 1 .. N : /\ root[i] \in Entries
                        /\ miss(i) \in Entries
                        /\ miss(i).move = root[i].move /\ miss(i).prev = root[i].prev
                        /\ miss(i).prevAt = root[i].prevAt /\ ~HasScore(miss(i))
  BY DEF Entries, Scores, HasScore
<1>6. ASSUME NEW i \in 1 .. N, i \in Range(v.at)
      PROVE  /\ hit(i) \in Entries
             /\ hit(i).move = root[i].move /\ hit(i).prev = root[i].prev
             /\ hit(i).prevAt = root[i].prevAt /\ HasScore(hit(i)) /\ hit(i).at = depth
  <2>1. v.value[k(i)] \in Scores /\ v.value[k(i)] # NOTHING
    BY <1>4, <1>6, ConstantFacts DEF Scores
  <2>2. root[i] \in Entries
    BY <1>5
  <2> QED  BY <2>1, <2>2 DEF Entries, HasScore
<1> HIDE DEF hit, miss
<1>7. \A i \in 1 .. N : Scored(v)[i] \in Entries
  BY <1>1, <1>5, <1>6
<1>8. Scored(v) \in [1 .. N -> Entries]
  BY <1>2, <1>7
<1>9. \A i \in Range(v.at) : i \in pvIdx .. N
  <2>1. v.at \in Seq(pvIdx .. N)
    BY VisitFacts
  <2>2. \A h \in DOMAIN v.at : v.at[h] \in pvIdx .. N
    BY <2>1, SeqFacts
  <2> QED  BY <2>2 DEF Range
<1>10. N \in Nat
  BY ConstantFacts
<1>11. \A i \in 1 .. pvIdx - 1 : i \in 1 .. N /\ i \notin Range(v.at)
  BY <1>9, <1>10
<1>12. ASSUME v.at # <<>>
       PROVE  HasScore(Scored(v)[pvIdx]) /\ Scored(v)[pvIdx].at = depth
  <2>1. 1 \in DOMAIN v.at /\ v.at[1] = pvIdx
    <3>1. v.at \in Seq(pvIdx .. N) /\ v.at[1] = pvIdx
      BY <1>12, VisitFacts
    <3>2. Len(v.at) \in Nat /\ DOMAIN v.at = 1 .. Len(v.at) /\ Len(v.at) # 0
      BY <1>12, <3>1, SeqFacts
    <3> QED  BY <3>1, <3>2
  <2>2. pvIdx \in Range(v.at)
    BY <2>1 DEF Range
  <2>3. k(pvIdx) = 1
    BY <1>3, <2>1, <2>2, VisitFacts
  <2>4. Raises(v, 1)
    BY DEF Raises
  <2>5. Scored(v)[pvIdx] = hit(pvIdx)
    BY <1>1, <2>2, <2>3, <2>4
  <2> QED  BY <1>6, <2>2, <2>5
<1>13. \A i \in 1 .. N : /\ Scored(v)[i].move = root[i].move
                         /\ Scored(v)[i].prev = root[i].prev
                         /\ Scored(v)[i].prevAt = root[i].prevAt
  BY <1>1, <1>5, <1>6
<1>14. \A i \in 1 .. N : \/ Scored(v)[i] = root[i] /\ i \notin Range(v.at)
                         \/ HasScore(Scored(v)[i]) => Scored(v)[i].at = depth
  BY <1>1, <1>5, <1>6
<1>15. \A i \in 1 .. pvIdx - 1 : Scored(v)[i] = root[i]
  BY <1>1, <1>11
<1> QED  BY <1>8, <1>12, <1>13, <1>14, <1>15

\* What one search of a line writes in the list leaves it the list of all root moves.
LEMMA ScoredRootList ==
  ASSUME TypeInv, RootInv, NEW v \in Visits
  PROVE  RootList(Scored(v), depth)
<1>1. pvIdx \in 1 .. N /\ depth \in Nat \ {0}
  BY ConstantFacts DEF TypeInv
<1>2. RootList(root, depth)
  BY DEF RootInv
<1>3. root \in [1 .. N -> Entries]
  BY <1>2 DEF RootList
<1>4. \A i \in 1 .. N : HadScore(Scored(v)[i]) <=> HadScore(root[i])
  BY <1>1, <1>3, ScoredFacts DEF HadScore
<1>5. {i \in 1 .. N : HadScore(Scored(v)[i])} = {i \in 1 .. N : HadScore(root[i])}
  BY <1>4
<1>6. \A i, j \in 1 .. N : Scored(v)[i].move = Scored(v)[j].move => i = j
  BY <1>1, <1>2, <1>3, ScoredFacts DEF RootList
<1>7. \A i \in 1 .. N : HasScore(Scored(v)[i]) => Scored(v)[i].at \in {depth - 1, depth} \ {0}
  <2> SUFFICES ASSUME NEW i \in 1 .. N, HasScore(Scored(v)[i])
               PROVE  Scored(v)[i].at \in {depth - 1, depth} \ {0}
    OBVIOUS
  <2>1. CASE Scored(v)[i] = root[i]
    BY <1>2, <2>1 DEF RootList
  <2>2. CASE Scored(v)[i].at = depth
    BY <1>1, <2>2
  <2> QED  BY <1>1, <1>3, <2>1, <2>2, ScoredFacts
<1>8. \A i \in 1 .. N : HadScore(Scored(v)[i]) => depth > 1 /\ Scored(v)[i].prevAt = depth - 1
  BY <1>1, <1>2, <1>3, <1>4, ScoredFacts DEF RootList
<1>9. depth > 1 => Cardinality({i \in 1 .. N : HadScore(Scored(v)[i])}) >= Lines
  BY <1>2, <1>5 DEF RootList
<1>10. Scored(v) \in [1 .. N -> Entries]
  BY <1>1, <1>3, ScoredFacts
<1> QED  BY <1>6, <1>7, <1>8, <1>9, <1>10 DEF RootList

\* A sort keeps a list of the root moves one.
LEMMA SortedRootList ==
  ASSUME NEW d \in Nat \ {0}, NEW r, RootList(r, d), NEW from \in 1 .. N, NEW to \in 1 .. N
  PROVE  /\ RootList(StableSort(r, from, to), d)
         /\ \E f : Sorts(f, r, StableSort(r, from, to), from .. to)
<1> DEFINE s == StableSort(r, from, to)
           Had(q) == {i \in 1 .. N : HadScore(q[i])}
<1>1. N \in Nat /\ from .. to \subseteq 1 .. N
  BY ConstantFacts
<1>2. r \in [1 .. N -> Entries] /\ DOMAIN r = 1 .. N
  BY DEF RootList
<1>3. \A i \in from .. to : r[i].score \in Int /\ r[i].prev \in Int
  <2>1. \A i \in 1 .. N : r[i].score \in Scores /\ r[i].prev \in Scores
    BY <1>2 DEF Entries
  <2> QED  BY <1>1, <2>1, ConstantFacts
<1>4. PICK f : Sorts(f, r, s, from .. to)
  <2>1. from \in Int /\ to \in Int /\ from .. to \subseteq DOMAIN r
    BY <1>1, <1>2
  <2> QED  BY <1>3, <2>1, StableSortSorts
<1>5. s = [p \in 1 .. N |-> r[f[p]]]
  BY <1>2, <1>4 DEF Sorts
<1> HIDE DEF s
<1>6. /\ \A p \in 1 .. N : f[p] \in 1 .. N
      /\ \A p, q \in 1 .. N : f[p] = f[q] => p = q
      /\ \A q \in 1 .. N : \E p \in 1 .. N : f[p] = q
  BY <1>2, <1>4 DEF Sorts
<1>7. s \in [1 .. N -> Entries]
  BY <1>2, <1>5, <1>6
<1>8. /\ \A i, j \in 1 .. N : s[i].move = s[j].move => i = j
      /\ \A i \in 1 .. N : HasScore(s[i]) => s[i].at \in {d - 1, d} \ {0}
      /\ \A i \in 1 .. N : HadScore(s[i]) => d > 1 /\ s[i].prevAt = d - 1
  <2>1. \A i \in 1 .. N : s[i] = r[f[i]] /\ f[i] \in 1 .. N
    BY <1>5, <1>6
  <2>0. /\ \A i, j \in 1 .. N : r[i].move = r[j].move => i = j
        /\ \A i \in 1 .. N : HasScore(r[i]) => r[i].at \in {d - 1, d} \ {0}
        /\ \A i \in 1 .. N : HadScore(r[i]) => d > 1 /\ r[i].prevAt = d - 1
    BY DEF RootList
  <2>2. ASSUME NEW i \in 1 .. N, NEW j \in 1 .. N, s[i].move = s[j].move
        PROVE  i = j
    <3>1. r[f[i]].move = r[f[j]].move
      BY <2>1, <2>2
    <3>2. f[i] = f[j]
      BY <2>0, <2>1, <3>1
    <3> QED  BY <1>6, <3>2
  <2>3. \A i \in 1 .. N : HasScore(s[i]) => s[i].at \in {d - 1, d} \ {0}
    BY <2>0, <2>1
  <2>4. \A i \in 1 .. N : HadScore(s[i]) => d > 1 /\ s[i].prevAt = d - 1
    BY <2>0, <2>1
  <2> QED  BY <2>2, <2>3, <2>4
<1>9. Cardinality(Had(s)) >= Cardinality(Had(r)) /\ Cardinality(Had(r)) \in Nat
  <2>1. IsFiniteSet(1 .. N)
    BY <1>1, UpTo
  <2>2. IsFiniteSet(Had(s)) /\ IsFiniteSet(Had(r))
    BY <2>1, FS_Subset
  <2> DEFINE g == [i \in Had(s) |-> f[i]]
  <2>3. g \in [Had(s) -> Had(r)]
    BY <1>5, <1>6
  <2>4. \A q \in Had(r) : \E p \in Had(s) : g[p] = q
    BY <1>5, <1>6
  <2>5. g \in Surjection(Had(s), Had(r))
    <3> HIDE DEF g, Had
    <3> QED  BY <2>3, <2>4, Fun_IsSurj
  <2>6. Cardinality(Had(r)) <= Cardinality(Had(s))
    <3> HIDE DEF g, Had
    <3> QED  BY <2>2, <2>5, FS_Surjection
  <2>7. Cardinality(Had(r)) \in Nat /\ Cardinality(Had(s)) \in Nat
    BY <2>2, FS_CardinalityType
  <2> QED  BY <2>6, <2>7
<1>10. d > 1 => Cardinality(Had(s)) >= Lines
  <2>1. d > 1 => Cardinality(Had(r)) >= Lines
    BY DEF RootList
  <2>2. Lines \in Nat /\ Cardinality(Had(s)) \in Nat
    <3>1. IsFiniteSet(1 .. N)
      BY <1>1, UpTo
    <3>2. IsFiniteSet(Had(s))
      BY <3>1, FS_Subset
    <3> QED  BY <3>2, FS_CardinalityType, ConstantFacts
  <2> QED  BY <1>9, <2>1, <2>2
<1>11. RootList(s, d)
  BY <1>7, <1>8, <1>10 DEF RootList
<1> QED  BY <1>4, <1>11 DEF s

\* The best of what was returned.
LEMMA BestFacts ==
  ASSUME pvIdx \in 1 .. N, NEW v \in Visits, v.at # <<>>
  PROVE  Best(v) >= Last(v.value) /\ Best(v) \in Int /\ Last(v.value) \in Int
<1> DEFINE n == Len(v.at)
<1>2. /\ v.at \in Seq(pvIdx .. N) /\ DOMAIN v.value = 1 .. n /\ DOMAIN v.at = 1 .. n /\ n \in Nat
      /\ Len(v.value) = n /\ \A k \in 1 .. n : v.value[k] \in Values
  BY VisitFacts
<1>3. n # 0
  BY <1>2, SeqFacts
<1> HIDE DEF n
<1>4. n \in 1 .. n
  BY <1>2, <1>3
<1>5. Best(v) >= v.value[n] /\ Best(v) \in Int /\ v.value[n] \in Int
  <2>1. Range(v.value) \subseteq Int /\ v.value[n] \in Range(v.value)
    <3>1. \A x \in Values : x \in Int
      BY ConstantFacts DEF EngineValues
    <3>2. \A k \in 1 .. n : v.value[k] \in Int
      BY <1>2, <3>1
    <3> QED  BY <1>2, <1>4, <3>2 DEF Range
  <2>2. IsFiniteSet(Range(v.value))
    <3> DEFINE g == [k \in 1 .. n |-> v.value[k]]
    <3>1. g \in [1 .. n -> Range(v.value)]
      BY <1>2 DEF Range
    <3>2. \A x \in Range(v.value) : \E k \in 1 .. n : g[k] = x
      BY <1>2 DEF Range
    <3> HIDE DEF g
    <3>3. g \in Surjection(1 .. n, Range(v.value))
      BY <3>1, <3>2, Fun_IsSurj
    <3>4. IsFiniteSet(1 .. n)
      BY <1>2, UpTo
    <3> QED  BY <3>3, <3>4, FS_Surjection
  <2>3. Max(Range(v.value)) \in Range(v.value) /\ \A x \in Range(v.value) : Max(Range(v.value)) >= x
    BY <2>1, <2>2, MaxMin
  <2> QED  BY <2>1, <2>3 DEF Best
<1>6. Last(v.value) = v.value[n]
  BY <1>2 DEF Last
<1> QED  BY <1>5, <1>6

\* A line is done when all its moves were searched.
LEMMA LineDoneVisits ==
  ASSUME pvIdx \in 1 .. N, window.beta \in Int, NEW v \in Visits, LineDone(v)
  PROVE  v.at # <<>> /\ \A i \in pvIdx .. N : i \in Range(v.at)
<1> DEFINE n == Len(v.at)
<1>1. v.at # <<>> /\ (n = N + 1 - pvIdx \/ Last(v.value) >= window.beta) /\ Best(v) < window.beta
  BY DEF LineDone, IsWhole
<1> HIDE DEF n
<1>2. Best(v) >= Last(v.value) /\ Best(v) \in Int /\ Last(v.value) \in Int
  BY <1>1, BestFacts
<1>7. n = N + 1 - pvIdx
  BY <1>1, <1>2
<1>8. \A i \in pvIdx .. N : \E k \in DOMAIN v.at : v.at[k] = i
  BY <1>7, VisitFacts DEF n
<1> QED  BY <1>1, <1>8 DEF Range

\* No list of an iteration but the first shows a line without a score of this
\* iteration or the last.
LEMMA SearchedFacts ==
  ASSUME TypeInv, RootInv, ~ended, NEW v \in Visits
  PROVE  /\ RootList(Searched(v), depth)
         /\ \A i \in 1 .. pvIdx - 1 : HasScore(Searched(v)[i]) /\ Searched(v)[i].at = depth
         /\ v.at # <<>> => HasScore(Searched(v)[pvIdx])
         /\ LineDone(v) => /\ HasScore(Searched(v)[pvIdx]) /\ Searched(v)[pvIdx].at = depth
                           /\ \A i \in 1 .. N : HasScore(Searched(v)[i]) => Searched(v)[i].at = depth
         /\ depth > 1 => \A i \in 1 .. Lines : HasScore(Searched(v)[i]) \/ HadScore(Searched(v)[i])
<1> DEFINE s == Scored(v)
           t == Searched(v)
<1>1. /\ N \in Nat \ {0} /\ Lines \in 1 .. N /\ pvIdx \in 1 .. Lines /\ pvIdx \in 1 .. N
      /\ depth \in Nat \ {0}
  BY ConstantFacts DEF TypeInv
<1>2. N \in 1 .. N
  BY <1>1
<1>3. RootList(s, depth)
  BY ScoredRootList
<1>4. t = StableSort(s, pvIdx, N)
  BY DEF Searched
<1>7. root \in [1 .. N -> Entries] /\ \A i \in 1 .. pvIdx - 1 : HasScore(root[i]) /\ root[i].at = depth
  BY DEF RootInv, RootList
<1>8. /\ \A i \in 1 .. pvIdx - 1 : s[i] = root[i]
      /\ v.at # <<>> => HasScore(s[pvIdx])
      /\ \A i \in 1 .. N : i \in Range(v.at) => (HasScore(s[i]) => s[i].at = depth)
  BY <1>1, <1>7, ScoredFacts
<1> HIDE DEF s, t
<1>5. RootList(t, depth)
  BY <1>1, <1>2, <1>3, <1>4, SortedRootList
<1>6. PICK f : Sorts(f, s, t, pvIdx .. N)
  BY <1>1, <1>2, <1>3, <1>4, SortedRootList
<1>9. s \in [1 .. N -> Entries] /\ DOMAIN s = 1 .. N
  BY <1>3 DEF RootList
<1>10. /\ \A p \in 1 .. N : t[p] = s[f[p]] /\ f[p] \in 1 .. N
       /\ \A p \in 1 .. N : p \notin pvIdx .. N => f[p] = p
       /\ \A p \in pvIdx .. N : f[p] \in pvIdx .. N
       /\ \A q \in 1 .. N : \E p \in 1 .. N : f[p] = q
       /\ \A p, q \in pvIdx .. N : p < q => ~Before(s[f[q]], s[f[p]])
  <2>1. pvIdx .. N \subseteq 1 .. N
    BY <1>1
  <2>2. \A p \in 1 .. N : t[p] = s[f[p]]
    BY <1>6, <1>9 DEF Sorts
  <2> QED  BY <1>6, <1>9, <2>1, <2>2 DEF Sorts
<1>11. \A i \in 1 .. pvIdx - 1 : HasScore(t[i]) /\ t[i].at = depth
  <2> SUFFICES ASSUME NEW i \in 1 .. pvIdx - 1
               PROVE  HasScore(t[i]) /\ t[i].at = depth
    OBVIOUS
  <2>1. i \in 1 .. N /\ i \notin pvIdx .. N
    BY <1>1
  <2>2. t[i] = root[i]
    BY <1>8, <1>10, <2>1
  <2> QED  BY <1>7, <2>2
<1>12. \A i \in 1 .. N : /\ s[i].score \in Int /\ s[i].score >= NOTHING
                         /\ s[i].prev \in Int /\ s[i].prev >= NOTHING
  <2>1. \A i \in 1 .. N : s[i].score \in Scores /\ s[i].prev \in Scores
    BY <1>9 DEF Entries
  <2> QED  BY <2>1, ConstantFacts
<1>13. NOTHING \in Int
  BY ConstantFacts
<1>16. ASSUME v.at # <<>>
       PROVE  HasScore(s[f[pvIdx]]) /\ HasScore(t[pvIdx])
  <2>3. HasScore(s[pvIdx]) /\ pvIdx \in pvIdx .. N
    BY <1>1, <1>8, <1>16
  <2>4. PICK q \in 1 .. N : f[q] = pvIdx
    BY <1>1, <1>10
  <2>5. q \in pvIdx .. N
    BY <1>10, <2>3, <2>4
  <2>6. HasScore(s[f[pvIdx]])
    <3>1. CASE q = pvIdx
      BY <2>3, <2>4, <3>1
    <3>2. CASE pvIdx < q
      <4>1. ~Before(s[pvIdx], s[f[pvIdx]])
        BY <1>10, <2>3, <2>4, <2>5, <3>2
      <4>2. s[pvIdx].score <= s[f[pvIdx]].score
        BY <1>1, <1>10, <1>12, <4>1 DEF Before
      <4>3. /\ s[pvIdx].score \in Int /\ s[pvIdx].score >= NOTHING /\ s[pvIdx].score # NOTHING
            /\ s[f[pvIdx]].score \in Int
        BY <1>1, <1>10, <1>12, <2>3 DEF HasScore
      <4>4. s[f[pvIdx]].score # NOTHING
        BY <1>13, <4>2, <4>3
      <4> QED  BY <4>4 DEF HasScore
    <3> QED  BY <1>1, <2>5, <3>1, <3>2
  <2> QED  BY <1>1, <1>10, <2>6
<1>14. ASSUME LineDone(v)
       PROVE  /\ HasScore(t[pvIdx]) /\ t[pvIdx].at = depth
              /\ \A i \in 1 .. N : HasScore(t[i]) => t[i].at = depth
  <2>1. window.beta \in Int
    BY DEF TypeInv
  <2>2. v.at # <<>> /\ \A i \in pvIdx .. N : i \in Range(v.at)
    BY <1>1, <1>14, <2>1, LineDoneVisits
  <2>3. pvIdx \in pvIdx .. N
    BY <1>1
  <2>6. HasScore(s[f[pvIdx]]) /\ HasScore(t[pvIdx])
    BY <1>16, <2>2
  <2>7. f[pvIdx] \in 1 .. N /\ f[pvIdx] \in Range(v.at)
    BY <1>1, <1>10, <2>2, <2>3
  <2>8. t[pvIdx] = s[f[pvIdx]]
    BY <1>1, <1>10
  <2>9. \A i \in 1 .. N : HasScore(t[i]) => t[i].at = depth
    <3>1. \A i \in 1 .. N : HasScore(s[i]) => s[i].at = depth
      <4> SUFFICES ASSUME NEW i \in 1 .. N, HasScore(s[i])
                   PROVE  s[i].at = depth
        OBVIOUS
      <4>1. CASE i \in pvIdx .. N
        BY <1>8, <2>2, <4>1
      <4>2. CASE i \in 1 .. pvIdx - 1
        BY <1>7, <1>8, <4>2
      <4> QED  BY <1>1, <4>1, <4>2
    <3> QED  BY <1>10, <3>1
  <2> QED  BY <1>8, <2>6, <2>7, <2>8, <2>9
<1>15. ASSUME depth > 1, NEW i \in 1 .. Lines
       PROVE  HasScore(t[i]) \/ HadScore(t[i])
  <2> SUFFICES ASSUME ~HasScore(t[i]), ~HadScore(t[i])
               PROVE  FALSE
    OBVIOUS
  <2>1. i \in 1 .. N /\ i \in Int
    BY <1>1
  <2>2. i \in pvIdx .. N
    BY <1>1, <1>11, <2>1
  <2>3. ASSUME NEW q \in 1 .. N, HadScore(t[q])
        PROVE  q \in 1 .. i - 1
    <3>1. q # i
      BY <2>3
    <3>2. CASE i < q
      <4>1. q \in pvIdx .. N
        BY <1>1, <2>2, <3>2
      <4>2. ~Before(s[f[q]], s[f[i]])
        BY <1>10, <2>2, <3>2, <4>1
      <4>3. t[q] = s[f[q]] /\ t[i] = s[f[i]] /\ f[q] \in 1 .. N /\ f[i] \in 1 .. N
        BY <1>10, <2>1
      <4>4. ~Before(t[q], t[i])
        BY <4>2, <4>3
      <4>5. /\ t[q].score \in Int /\ t[q].score >= NOTHING /\ t[q].prev \in Int /\ t[q].prev >= NOTHING
            /\ t[i].score = NOTHING /\ t[i].prev = NOTHING
        BY <1>12, <4>3 DEF HasScore, HadScore
      <4> QED  BY <1>13, <2>3, <4>4, <4>5 DEF Before, HadScore
    <3> QED  BY <1>1, <2>1, <3>1, <3>2
  <2>4. {q \in 1 .. N : HadScore(t[q])} \subseteq 1 .. i - 1
    BY <2>3
  <2>5. IsFiniteSet(1 .. i - 1) /\ Cardinality(1 .. i - 1) = i - 1
    <3>1. i - 1 \in Nat
      BY <2>1
    <3> QED  BY <3>1, UpTo
  <2>6. Cardinality({q \in 1 .. N : HadScore(t[q])}) <= i - 1
    BY <2>4, <2>5, FS_Subset
  <2>7. IsFiniteSet({q \in 1 .. N : HadScore(t[q])})
    BY <2>4, <2>5, FS_Subset
  <2>8. Cardinality({q \in 1 .. N : HadScore(t[q])}) \in Nat
    BY <2>7, FS_CardinalityType
  <2>9. Cardinality({q \in 1 .. N : HadScore(t[q])}) >= Lines
    BY <1>5, <1>15 DEF RootList
  <2> QED  BY <1>1, <2>6, <2>8, <2>9
<1> QED  BY <1>5, <1>11, <1>14, <1>15, <1>16 DEF t

\* After the second sort of Thread::search the lines done so far are scored at this depth and in order.
LEMMA AfterFacts ==
  ASSUME TypeInv, RootInv, ~ended, NEW v \in Visits
  PROVE  /\ RootList(After(v), depth)
         /\ LineDone(v) =>
              /\ \A i \in 1 .. pvIdx : HasScore(After(v)[i]) /\ After(v)[i].at = depth
              /\ \A i, j \in 1 .. pvIdx : i < j => After(v)[i].score >= After(v)[j].score
              /\ \A i \in 1 .. N : HasScore(After(v)[i]) => After(v)[i].at = depth
         /\ depth > 1 => \A i \in 1 .. Lines : HasScore(After(v)[i]) \/ HadScore(After(v)[i])
<1> DEFINE s == Searched(v)
           t == After(v)
<1>1. /\ N \in Nat \ {0} /\ Lines \in 1 .. N /\ pvIdx \in 1 .. Lines /\ pvIdx \in 1 .. N /\ 1 \in 1 .. N
      /\ depth \in Nat \ {0}
  BY ConstantFacts DEF TypeInv
<1>2. RootList(s, depth)
  BY SearchedFacts
<1>3. t = StableSort(s, 1, pvIdx)
  BY DEF After
<1>6. s \in [1 .. N -> Entries] /\ DOMAIN s = 1 .. N
  BY <1>2 DEF RootList
<1>7. /\ \A i \in 1 .. pvIdx - 1 : HasScore(s[i]) /\ s[i].at = depth
      /\ LineDone(v) => /\ HasScore(s[pvIdx]) /\ s[pvIdx].at = depth
                        /\ \A i \in 1 .. N : HasScore(s[i]) => s[i].at = depth
      /\ depth > 1 => \A i \in 1 .. Lines : HasScore(s[i]) \/ HadScore(s[i])
  BY SearchedFacts
<1> HIDE DEF s, t
<1>4. RootList(t, depth)
  BY <1>1, <1>2, <1>3, SortedRootList
<1>5. PICK f : Sorts(f, s, t, 1 .. pvIdx)
  BY <1>1, <1>2, <1>3, SortedRootList
<1>8. /\ \A p \in 1 .. N : t[p] = s[f[p]]
      /\ \A p \in 1 .. N : p \notin 1 .. pvIdx => f[p] = p
      /\ \A p \in 1 .. pvIdx : f[p] \in 1 .. pvIdx /\ p \in 1 .. N
      /\ \A p, q \in 1 .. pvIdx : p < q => ~Before(s[f[q]], s[f[p]])
  <2>1. 1 .. pvIdx \subseteq 1 .. N
    BY <1>1
  <2>2. \A p \in 1 .. N : t[p] = s[f[p]]
    BY <1>5, <1>6 DEF Sorts
  <2> QED  BY <1>5, <1>6, <2>1, <2>2 DEF Sorts
<1>9. \A i \in 1 .. N : s[i].score \in Int
  <2>1. \A i \in 1 .. N : s[i].score \in Scores
    BY <1>6 DEF Entries
  <2> QED  BY <2>1, ConstantFacts
<1>10. ASSUME LineDone(v), NEW i \in 1 .. pvIdx
       PROVE  HasScore(t[i]) /\ t[i].at = depth
  <2>1. f[i] \in 1 .. pvIdx /\ t[i] = s[f[i]]
    BY <1>8
  <2>2. f[i] \in 1 .. pvIdx - 1 \/ f[i] = pvIdx
    BY <1>1, <2>1
  <2> QED  BY <1>7, <1>10, <2>1, <2>2
<1>11. ASSUME NEW i \in 1 .. pvIdx, NEW j \in 1 .. pvIdx, i < j
       PROVE  t[i].score >= t[j].score
  <2>1. ~Before(s[f[j]], s[f[i]])
    BY <1>8, <1>11
  <2>2. t[i] = s[f[i]] /\ t[j] = s[f[j]] /\ f[i] \in 1 .. N /\ f[j] \in 1 .. N
    BY <1>8
  <2> QED  BY <1>9, <2>1, <2>2 DEF Before
<1>12. ASSUME depth > 1, NEW i \in 1 .. Lines
       PROVE  HasScore(t[i]) \/ HadScore(t[i])
  <2>1. i \in 1 .. N
    BY <1>1
  <2>2. f[i] \in 1 .. Lines
    BY <1>1, <1>8, <2>1
  <2> QED  BY <1>7, <1>8, <1>12, <2>1, <2>2
<1>13. ASSUME LineDone(v), NEW i \in 1 .. N, HasScore(t[i])
       PROVE  t[i].at = depth
  <2>1. f[i] \in 1 .. N /\ t[i] = s[f[i]]
    BY <1>5, <1>6, <1>8 DEF Sorts
  <2> QED  BY <1>7, <1>13, <2>1
<1> QED  BY <1>4, <1>10, <1>11, <1>12, <1>13 DEF t

-----------------------------------------------------------------------------
(* Lines *)

\* A printed line says of its move the newest score it has, and whether it is of this iteration.
LEMMA InfoFacts ==
  ASSUME depth \in Nat \ {0}, NEW r, RootList(r, depth), NEW i \in 1 .. Lines
  PROVE  /\ Info(r, i) \in Reports /\ Info(r, i).slot = i /\ Info(r, i).move = r[i].move
         /\ HasScore(r[i]) => Info(r, i).depth = depth /\ Info(r, i).score = UciValue(r[i].score)
         /\ HasScore(r[i]) \/ HadScore(r[i]) =>
              /\ Info(r, i).depth \in {depth - 1, depth}
              /\ Info(r, i).at \in {Info(r, i).depth, Info(r, i).depth - 1} \ {0}
<1> DEFINE rm == r[i]
           updated == rm.score # NOTHING
           v == IF updated THEN rm.score ELSE rm.prev
           w == IF v = NOTHING THEN 0 ELSE v
           d == IF updated THEN depth ELSE Max({1, depth - 1})
           a == IF updated THEN rm.at ELSE rm.prevAt
<1>1. i \in 1 .. N
  BY ConstantFacts
<1>2. rm \in Entries
  BY <1>1 DEF RootList
<1>3. Info(r, i) = [slot |-> i, move |-> rm.move, depth |-> d, score |-> UciValue(w), at |-> a]
  BY DEF Info
<1>4. w \in Values \cup {0}
  BY <1>2 DEF Entries, Scores
<1>5. UciValue(w) \in Printed
  BY <1>4 DEF Printed
<1>6. Max({1, depth - 1}) \in {1, depth - 1} /\ Max({1, depth - 1}) >= 1 /\ Max({1, depth - 1}) >= depth - 1
  <2>1. depth - 1 \in Int /\ 1 \in Int
    OBVIOUS
  <2> QED  BY <2>1, PairFacts
<1>7. d \in Nat \ {0} /\ (updated => d = depth) /\ (~updated /\ depth > 1 => d = depth - 1)
  BY <1>6
<1>8. a \in Nat /\ (updated => a = rm.at) /\ (~updated => a = rm.prevAt)
  BY <1>2 DEF Entries
<1>9. /\ updated => rm.at \in {depth - 1, depth} \ {0}
      /\ rm.prev # NOTHING => depth > 1 /\ rm.prevAt = depth - 1
  BY <1>1 DEF RootList, HasScore, HadScore
<1>10. HasScore(r[i]) = updated /\ HadScore(r[i]) = (rm.prev # NOTHING)
  BY DEF HasScore, HadScore
<1>11. rm.move \in Moves
  BY <1>2 DEF Entries
<1>12. updated => w = rm.score
  OBVIOUS
<1> HIDE DEF w, d, a, rm
<1>13. /\ Info(r, i).slot = i /\ Info(r, i).move = rm.move /\ Info(r, i).depth = d
       /\ Info(r, i).score = UciValue(w) /\ Info(r, i).at = a
  BY <1>3
<1>14. Info(r, i) \in Reports
  BY <1>3, <1>5, <1>7, <1>8, <1>11 DEF Reports
<1>15. updated => d = depth /\ UciValue(w) = UciValue(rm.score)
  BY <1>7, <1>12
<1>16. updated \/ rm.prev # NOTHING => d \in {depth - 1, depth} /\ a \in {d, d - 1} \ {0}
  BY <1>7, <1>8, <1>9
<1> QED  BY <1>10, <1>13, <1>14, <1>15, <1>16 DEF rm

\* What UCI::pv() prints: one line for each slot that there is something to say of.
Told(r, i) == HasScore(r[i]) \/ depth > 1 \/ i = 1

\* UCI::pv prints at most one line for a slot, and one for every slot it has something to tell of.
LEMMA BatchFacts ==
  ASSUME depth \in Nat \ {0}, NEW r, RootList(r, depth)
  PROVE  /\ Batch(r) \in Seq(Reports)
         /\ \A k \in DOMAIN Batch(r) : /\ Batch(r)[k].slot \in 1 .. Lines /\ Told(r, Batch(r)[k].slot)
                                       /\ Batch(r)[k] = Info(r, Batch(r)[k].slot)
         /\ \A k, l \in DOMAIN Batch(r) : Batch(r)[k].slot = Batch(r)[l].slot => k = l
         /\ \A i \in 1 .. Lines : Told(r, i) => \E k \in DOMAIN Batch(r) : Batch(r)[k].slot = i
<1> DEFINE slots == {i \in 1 .. Lines : Told(r, i)}
           sorted == Arranged(slots, <)
           R == {p \in slots \X slots : p[1] < p[2]}
           n == Cardinality(slots)
<1>1. Lines \in Nat
  BY ConstantFacts
<1>2. IsFiniteSet(slots)
  <2>1. IsFiniteSet(1 .. Lines)
    BY <1>1, UpTo
  <2> QED  BY <2>1, FS_Subset
<1>3. \A i, j \in slots : <<i, j>> \in R <=> i < j
  OBVIOUS
<1>4. \A i \in slots : i \in Int
  OBVIOUS
<1>5. Batch(r) = [k \in DOMAIN sorted |-> Info(r, sorted[k])]
  <2>1. slots = {i \in 1 .. Lines : r[i].score # NOTHING \/ depth > 1 \/ i = 1}
    BY DEF Told, HasScore
  <2> HIDE DEF slots
  <2> QED  BY <2>1 DEF Batch, Infos
<1>6. \A i \in slots : /\ i \in 1 .. Lines /\ Told(r, i)
                       /\ Info(r, i) \in Reports /\ Info(r, i).slot = i
  BY InfoFacts
<1>7. \A i \in 1 .. Lines : Told(r, i) => i \in slots
  OBVIOUS
<1> HIDE DEF slots, R
<1>8. Orders(R, slots)
  BY <1>3, <1>4 DEF Orders
<1>9. \E s \in SetToSeqs(slots) : \A i, j \in DOMAIN s : i < j => <<s[i], s[j]>> \in R
  BY <1>2, <1>8, InOrderOf
<1>10. \A s \in SetToSeqs(slots) : \A i \in DOMAIN s : s[i] \in slots
  BY <1>2, SeqsFacts
<1>11. \E s \in SetToSeqs(slots) : \A i, j \in DOMAIN s : i < j => s[i] < s[j]
  BY <1>3, <1>9, <1>10
<1>12. sorted \in SetToSeqs(slots)
  BY <1>11 DEF Arranged
<1> HIDE DEF sorted
<1>13. /\ n \in Nat /\ DOMAIN sorted = 1 .. n
       /\ \A i \in DOMAIN sorted : sorted[i] \in slots
       /\ \A i, j \in DOMAIN sorted : sorted[i] = sorted[j] => i = j
       /\ \A x \in slots : \E i \in DOMAIN sorted : sorted[i] = x
  BY <1>2, <1>12, SeqsFacts
<1> HIDE DEF n
<1>14. /\ DOMAIN Batch(r) = 1 .. n
       /\ \A k \in 1 .. n : Batch(r)[k] = Info(r, sorted[k]) /\ Batch(r)[k].slot = sorted[k]
  BY <1>5, <1>6, <1>13
<1>15. Batch(r) \in Seq(Reports)
  <2>1. Batch(r) \in [1 .. n -> Reports]
    BY <1>5, <1>6, <1>13
  <2> QED  BY <1>13, <2>1, FunSeq
<1>16. \A k \in DOMAIN Batch(r) : /\ Batch(r)[k].slot \in 1 .. Lines /\ Told(r, Batch(r)[k].slot)
                                  /\ Batch(r)[k] = Info(r, Batch(r)[k].slot)
  BY <1>6, <1>13, <1>14
<1>17. \A k, l \in DOMAIN Batch(r) : Batch(r)[k].slot = Batch(r)[l].slot => k = l
  BY <1>13, <1>14
<1>18. \A i \in 1 .. Lines : Told(r, i) => \E k \in DOMAIN Batch(r) : Batch(r)[k].slot = i
  BY <1>7, <1>13, <1>14
<1> QED  BY <1>15, <1>16, <1>17, <1>18

\* A batch that tells something of every line replaces the whole table.
LEMMA NewTable ==
  ASSUME depth \in Nat \ {0}, NEW r, RootList(r, depth), \A i \in 1 .. Lines : Told(r, i),
         wire' = Batch(r)
  PROVE  \A i \in 1 .. Lines : Latest(i)' = Info(r, i)
<1> SUFFICES ASSUME NEW i \in 1 .. Lines
             PROVE  Latest(i)' = Info(r, i)
  OBVIOUS
<1>1. \E k \in DOMAIN wire' : wire'[k].slot = i
  BY BatchFacts
<1>2. \A k \in DOMAIN wire' : wire'[k].slot = i => wire'[k] = Info(r, i)
  BY BatchFacts
<1> QED  BY <1>1, <1>2 DEF Latest

\* Everything printed has a grade.
LEMMA ReportRated ==
  ASSUME NEW line \in Reports
  PROVE  Rated(line)
<1>1. PICK v \in Values \cup {0} : line.score = UciValue(v)
  BY DEF Reports, Printed
<1>2. UciValue(v) \in UciScore
  <2>1. 0 \in EngineValues
    BY DEF EngineValues, VALUE_MATE
  <2> QED  BY <2>1, ConstantFacts, UciValueType
<1> QED  BY <1>1, <1>2, ScoreAssumption DEF Rated

-----------------------------------------------------------------------------
(* The table of lines under the steps *)

\* A step that prints nothing, reads nothing and ends nothing keeps what is known of the table.
LEMMA KeptTable ==
  ASSUME TableInv, wire' = wire, lines' = lines, completed' = completed, stopped => stopped',
         ~(ended' /\ ~stopped')
  PROVE  TableInv'
<1>1. \A line : Fresh(line, Cut) => Fresh(line, Cut')
  BY DEF Fresh, Cut
<1>2. \A i : Latest(i)' = Latest(i)
  BY DEF Latest
<1>3. Lines' = Lines /\ NoLine' = NoLine
  BY DEF Lines, N, NoLine
<1> QED  BY <1>1, <1>2, <1>3 DEF TableInv

\* A batch is printed when the last one is read.
LEMMA BatchTable ==
  ASSUME TypeInv, TableInv, ~stopped, completed' \in Nat, NEW r, RootList(r, depth),
         wire' = Batch(r), lines' = lines,
         \A i \in 1 .. Lines : Told(r, i) => HasScore(r[i]) \/ HadScore(r[i]) \/ (i = 1 /\ stopped' /\ completed' = 0),
         completed' > 0 => \/ /\ completed' = depth - 1
                              /\ \A i \in 1 .. Lines : HasScore(r[i]) \/ HadScore(r[i])
                           \/ /\ completed' = depth
                              /\ \A i \in 1 .. Lines : HasScore(r[i]),
         ended' /\ ~stopped' =>
           /\ root' = r /\ depth' = depth
           /\ \A i \in 1 .. Lines : HasScore(r[i])
           /\ \A i, j \in 1 .. Lines : i < j => r[i].score >= r[j].score
  PROVE  TableInv'
<1>1. depth \in Nat \ {0}
  BY DEF TypeInv
<1>2. /\ \A k \in DOMAIN wire' : /\ wire'[k].slot \in 1 .. Lines /\ Told(r, wire'[k].slot)
                                 /\ wire'[k] = Info(r, wire'[k].slot)
      /\ \A k, l \in DOMAIN wire' : wire'[k].slot = wire'[l].slot => k = l
  BY <1>1, BatchFacts
<1>3. ASSUME NEW k \in DOMAIN wire'
      PROVE  Fresh(wire'[k], Cut')
  <2> DEFINE i == wire'[k].slot
  <2>1. i \in 1 .. Lines /\ Told(r, i) /\ wire'[k] = Info(r, i) /\ Info(r, i).slot = i
    BY <1>1, <1>2, InfoFacts
  <2> HIDE DEF i
  <2>2. CASE HasScore(r[i]) \/ HadScore(r[i])
    <3>1. Info(r, i).at \in {Info(r, i).depth, Info(r, i).depth - 1} \ {0}
      BY <1>1, <2>1, <2>2, InfoFacts
    <3> QED  BY <2>1, <3>1 DEF Fresh
  <2>3. CASE i = 1 /\ stopped' /\ completed' = 0
    BY <2>1, <2>3 DEF Fresh, Cut
  <2> QED  BY <2>1, <2>2, <2>3
<1>4. ASSUME NEW i \in 1 .. Lines, lines[i] # NoLine
      PROVE  lines[i].slot = i /\ Fresh(lines[i], Cut')
  <2>1. lines[i].slot = i /\ Fresh(lines[i], Cut) /\ ~Cut
    BY <1>4 DEF TableInv, Cut
  <2> QED  BY <2>1 DEF Fresh
<1>5. ASSUME completed' > 0
      PROVE  /\ \A i \in 1 .. Lines : Latest(i)' # NoLine /\ Latest(i)'.depth \in {completed', completed' + 1}
             /\ \A i, j \in 1 .. Lines : Latest(i)'.move = Latest(j)'.move => i = j
  <2>1. \A i \in 1 .. Lines : HasScore(r[i]) \/ HadScore(r[i])
    BY <1>5
  <2>2. \A i \in 1 .. Lines : HasScore(r[i]) \/ depth > 1
    BY <1>1, <1>5
  <2>3. \A i \in 1 .. Lines : Latest(i)' = Info(r, i)
    BY <1>1, <2>2, NewTable DEF Told
  <2>4. \A i \in 1 .. Lines : Info(r, i) # NoLine
    <3>1. \A i \in 1 .. Lines : Info(r, i).slot = i
      BY <1>1, InfoFacts
    <3> QED  BY <3>1 DEF NoLine
  <2>5. \A i \in 1 .. Lines : Info(r, i).depth \in {completed', completed' + 1}
    <3> SUFFICES ASSUME NEW i \in 1 .. Lines
                 PROVE  Info(r, i).depth \in {completed', completed' + 1}
      OBVIOUS
    <3>1. CASE completed' = depth - 1
      <4>1. Info(r, i).depth \in {depth - 1, depth}
        BY <1>1, <2>1, InfoFacts
      <4> QED  BY <1>1, <3>1, <4>1
    <3>2. CASE completed' = depth /\ HasScore(r[i])
      <4>1. Info(r, i).depth = depth
        BY <1>1, <3>2, InfoFacts
      <4> QED  BY <3>2, <4>1
    <3> QED  BY <1>5, <3>1, <3>2
  <2>6. \A i, j \in 1 .. Lines : Info(r, i).move = Info(r, j).move => i = j
    <3>1. \A i \in 1 .. Lines : Info(r, i).move = r[i].move /\ i \in 1 .. N
      BY <1>1, InfoFacts, ConstantFacts
    <3>2. \A i, j \in 1 .. N : r[i].move = r[j].move => i = j
      BY DEF RootList
    <3> QED  BY <3>1, <3>2
  <2> QED  BY <2>3, <2>4, <2>5, <2>6
<1>6. ASSUME ended', ~stopped'
      PROVE  /\ \A i \in 1 .. Lines : Latest(i)' = Info(root, i)' /\ HasScore(root'[i])
             /\ \A i, j \in 1 .. Lines : i < j => root'[i].score >= root'[j].score
  <2>1. root' = r /\ depth' = depth /\ \A i \in 1 .. Lines : HasScore(r[i])
    BY <1>6
  <2>2. \A i \in 1 .. Lines : Latest(i)' = Info(r, i)
    BY <1>1, <2>1, NewTable DEF Told
  <2>3. \A i \in 1 .. Lines : Info(root, i)' = Info(r, i)
    BY <2>1 DEF Info
  <2> QED  BY <1>6, <2>1, <2>2, <2>3
<1> QED  BY <1>2, <1>3, <1>4, <1>5, <1>6 DEF TableInv, HasScore

\* Reading a line puts it where it was awaited.
LEMMA ReadTable ==
  ASSUME TypeInv, TableInv, ReadLine
  PROVE  TypeInv' /\ TableInv'
<1> DEFINE n == Len(wire)
           h == wire[1]
           m == n - 1
<1>1. wire \in Seq(Reports) /\ wire # <<>> /\ lines \in [1 .. Lines -> {NoLine} \cup Reports]
  BY DEF TypeInv, ReadLine
<1>2. n \in Nat /\ DOMAIN wire = 1 .. n /\ n # 0 /\ \A k \in 1 .. n : wire[k] \in Reports
  BY <1>1, SeqFacts
<1>3. /\ wire' \in Seq(Reports) /\ DOMAIN wire' = 1 .. m
      /\ \A k \in 1 .. m : wire'[k] = wire[k + 1] /\ k + 1 \in 1 .. n
  <2>1. wire' = Tail(wire)
    BY DEF ReadLine
  <2> QED  BY <1>1, <1>2, <2>1
<1>4. h \in Reports /\ h.slot \in 1 .. Lines
  BY <1>2 DEF Reports
<1>5. lines' = [lines EXCEPT ![h.slot] = h]
  <2>1. Head(wire) = h
    BY <1>1
  <2> QED  BY <2>1 DEF ReadLine
<1>6. UNCHANGED <<root, depth, pvIdx, window, ended, completed, stopped>>
  BY DEF ReadLine
<1> HIDE DEF n, m, h
<1>7. lines' \in [1 .. Lines -> {NoLine} \cup Reports]
  BY <1>1, <1>4, <1>5
<1>8. TypeInv'
  BY <1>3, <1>6, <1>7 DEF TypeInv, Lines, N, Reports, Printed, NoLine
<1>9. \A k, l \in 1 .. n : wire[k].slot = wire[l].slot => k = l
  BY <1>2 DEF TableInv
<1>10. \A k, l \in 1 .. m : wire'[k].slot = wire'[l].slot => k = l
  BY <1>2, <1>3, <1>9
<1>11. m \in Nat /\ 1 \in 1 .. n /\ h = wire[1]
  BY <1>2 DEF m, h
<1>12. \A k \in 1 .. n : k = 1 \/ (k - 1 \in 1 .. m /\ wire'[k - 1] = wire[k])
  BY <1>2, <1>3 DEF m
<1>13. ASSUME NEW i \in 1 .. Lines
       PROVE  Latest(i)' = Latest(i)
  <2>1. CASE i = h.slot
    <3>1. \A k \in 1 .. n : wire[k].slot = i <=> k = 1
      BY <1>9, <1>11, <2>1
    <3>2. Latest(i) = wire[CHOOSE k \in 1 .. n : wire[k].slot = i]
      BY <1>2, <1>11, <3>1 DEF Latest
    <3>3. (CHOOSE k \in 1 .. n : wire[k].slot = i) = 1
      BY <1>11, <3>1
    <3>4. \A k \in 1 .. m : wire'[k].slot # i
      <4> SUFFICES ASSUME NEW k \in 1 .. m, wire'[k].slot = i
                   PROVE  FALSE
        OBVIOUS
      <4>1. k + 1 = 1
        BY <1>3, <3>1
      <4> QED  BY <4>1, <1>11
    <3>5. Latest(i)' = lines'[i]
      BY <1>3, <3>4 DEF Latest
    <3>6. lines'[i] = h
      BY <1>1, <1>5, <2>1
    <3> QED  BY <1>11, <3>2, <3>3, <3>5, <3>6
  <2>2. CASE i # h.slot
    <3>1. lines'[i] = lines[i]
      BY <1>1, <1>5, <2>2
    <3>2. CASE \A k \in 1 .. n : wire[k].slot # i
      <4>1. \A k \in 1 .. m : wire'[k].slot # i
        BY <1>3, <3>2
      <4> QED  BY <1>2, <1>3, <3>1, <3>2, <4>1 DEF Latest
    <3>3. CASE \E k \in 1 .. n : wire[k].slot = i
      <4>1. PICK k \in 1 .. n : wire[k].slot = i
        BY <3>3
      <4>2. k - 1 \in 1 .. m /\ wire'[k - 1] = wire[k]
        BY <1>11, <1>12, <2>2, <4>1
      <4>3. \A l \in 1 .. n : wire[l].slot = i => l = k
        BY <1>9, <4>1
      <4>4. \A l \in 1 .. m : wire'[l].slot = i => l = k - 1
        BY <1>10, <4>1, <4>2
      <4>5. Latest(i) = wire[k]
        <5>1. (CHOOSE l \in 1 .. n : wire[l].slot = i) = k
          BY <4>1, <4>3
        <5> QED  BY <1>2, <3>3, <5>1 DEF Latest
      <4>6. Latest(i)' = wire'[k - 1]
        <5>1. (CHOOSE l \in 1 .. m : wire'[l].slot = i) = k - 1
          BY <4>1, <4>2, <4>4
        <5>2. \E l \in 1 .. m : wire'[l].slot = i
          BY <4>1, <4>2
        <5> QED  BY <1>3, <5>1, <5>2 DEF Latest
      <4> QED  BY <4>2, <4>5, <4>6
    <3> QED  BY <3>2, <3>3
  <2> QED  BY <2>1, <2>2
<1>14. Cut' = Cut
  BY <1>6 DEF Cut
<1>15. \A k \in 1 .. n : Fresh(wire[k], Cut)
  BY <1>2 DEF TableInv
<1>16. \A k \in 1 .. m : Fresh(wire'[k], Cut')
  BY <1>3, <1>14, <1>15
<1>17. ASSUME NEW i \in 1 .. Lines, lines'[i] # NoLine
       PROVE  lines'[i].slot = i /\ Fresh(lines'[i], Cut')
  <2>1. CASE i = h.slot
    <3>1. lines'[i] = h
      BY <1>1, <1>5, <2>1
    <3> QED  BY <1>11, <1>14, <1>15, <2>1, <3>1
  <2>2. CASE i # h.slot
    <3>1. lines'[i] = lines[i]
      BY <1>1, <1>5, <2>2
    <3>2. lines[i].slot = i /\ Fresh(lines[i], Cut)
      BY <1>17, <3>1 DEF TableInv
    <3> QED  BY <1>14, <3>1, <3>2
  <2> QED  BY <2>1, <2>2
<1>18. \A i : Info(root, i)' = Info(root, i)
  BY <1>6 DEF Info
<1>19. TableInv'
  <2>1. \A k, l \in DOMAIN wire' : wire'[k].slot = wire'[l].slot => k = l
    BY <1>3, <1>10
  <2>2. \A k \in DOMAIN wire' : Fresh(wire'[k], Cut')
    BY <1>3, <1>16
  <2>3. completed' > 0 =>
          /\ \A i \in 1 .. Lines : Latest(i)' # NoLine /\ Latest(i)'.depth \in {completed', completed' + 1}
          /\ \A i, j \in 1 .. Lines : Latest(i)'.move = Latest(j)'.move => i = j
    BY <1>6, <1>13 DEF TableInv
  <2>4. ended' /\ ~stopped' =>
          /\ \A i \in 1 .. Lines : Latest(i)' = Info(root, i)' /\ HasScore(root'[i])
          /\ \A i, j \in 1 .. Lines : i < j => root'[i].score >= root'[j].score
    BY <1>6, <1>13, <1>18 DEF TableInv
  <2> QED  BY <1>17, <2>1, <2>2, <2>3, <2>4 DEF TableInv, HasScore
<1> QED  BY <1>8, <1>19

-----------------------------------------------------------------------------
(* The steps *)

\* The aspiration window is one of integers.
LEMMA WindowType ==
  ASSUME NEW d \in Nat, NEW prev \in Scores
  PROVE  Window(d, prev) \in [alpha : Int, beta : Int, delta : Int, tries : Nat]
<1>1. prev \in Int /\ NOTHING \in Int /\ VALUE_INFINITE \in Int
  BY ConstantFacts DEF VALUE_INFINITE
<1>2. Max({prev - 17, NOTHING}) \in Int /\ Min({prev + 17, VALUE_INFINITE}) \in Int
  <2>1. prev - 17 \in Int /\ prev + 17 \in Int
    BY <1>1
  <2>2. Max({prev - 17, NOTHING}) \in {prev - 17, NOTHING}
    BY <1>1, <2>1, PairFacts
  <2>3. Min({prev + 17, VALUE_INFINITE}) \in {prev + 17, VALUE_INFINITE}
    BY <1>1, <2>1, PairFacts
  <2> QED  BY <1>1, <2>1, <2>2, <2>3
<1> QED  BY <1>1, <1>2 DEF Window, Everything

\* The search starts with every move and nothing known of any.
LEMMA InitInv == Init => RankingInv
<1> SUFFICES ASSUME Init
             PROVE  RankingInv
  OBVIOUS
<1>1. N \in Nat \ {0} /\ Lines \in 1 .. N /\ N = Cardinality(Moves) /\ NOTHING \in Scores
  BY ConstantFacts DEF Scores
<1>2. Generated \in [1 .. N -> Moves] /\ \A i, j \in 1 .. N : i # j => Generated[i] # Generated[j]
  <2>1. Generated \in SetToSeqs(Moves)
    BY RankingAssumption
  <2> QED  BY <2>1 DEF SetToSeqs, N
<1>3. root \in [1 .. N -> Entries] /\ \A i \in 1 .. N : /\ root[i].move = Generated[i]
                                                       /\ root[i].score = NOTHING
                                                       /\ root[i].prev = NOTHING
  BY <1>1, <1>2 DEF Init, Entries
<1>4. RootInv
  BY <1>1, <1>2, <1>3 DEF Init, RootInv, RootList, HasScore, HadScore
<1>5. Window(1, NOTHING) \in [alpha : Int, beta : Int, delta : Int, tries : Nat]
  BY <1>1, WindowType
<1>6. TypeInv
  <2>1. wire \in Seq(Reports) /\ lines \in [1 .. Lines -> {NoLine} \cup Reports]
    BY DEF Init
  <2>2. depth \in Nat \ {0} /\ pvIdx \in 1 .. Lines /\ ended \in BOOLEAN /\ stopped \in BOOLEAN
    <3>1. 1 \in 1 .. Lines
      BY <1>1
    <3>2. depth = 1 /\ pvIdx = 1 /\ ended = FALSE /\ stopped = FALSE
      BY DEF Init
    <3>3. depth \in Nat \ {0} /\ pvIdx \in 1 .. Lines
      BY <3>1, <3>2
    <3>4. ended \in BOOLEAN /\ stopped \in BOOLEAN
      BY <3>2, Zenon
    <3> QED  BY <3>3, <3>4
  <2>3. window \in [alpha : Int, beta : Int, delta : Int, tries : Nat]
    BY <1>5 DEF Init
  <2> QED  BY <2>1, <2>2, <2>3 DEF TypeInv
<1>7. EndInv
  BY DEF Init, EndInv
<1>8. TableInv
  BY DEF Init, TableInv
<1> QED  BY <1>4, <1>6, <1>7, <1>8 DEF RankingInv

\* A search that fails low or high keeps the invariant.
LEMMA WidenStep ==
  ASSUME RankingInv, ~ended, wire = <<>>, NEW v \in Visits, NEW late \in BOOLEAN, Widen(v, late)
  PROVE  RankingInv'
<1>1. TypeInv /\ RootInv /\ EndInv /\ TableInv
  BY DEF RankingInv
<1>2. /\ root' = Searched(v) /\ depth' = depth /\ pvIdx' = pvIdx /\ v.at # <<>>
      /\ wire' = IF late /\ Lines = 1 THEN Batch(Searched(v)) ELSE <<>>
      /\ UNCHANGED <<ended, lines, completed, stopped>>
  BY DEF Widen, IsWhole
<1>3. window' \in [alpha : Int, beta : Int, delta : Int, tries : Nat]
  <2>1. window \in [alpha : Int, beta : Int, delta : Int, tries : Nat]
    BY <1>1 DEF TypeInv
  <2>2. Best(v) \in Int
    <3>1. pvIdx \in 1 .. N /\ v.at # <<>>
      BY <1>1, ConstantFacts DEF TypeInv, Widen, IsWhole
    <3> QED  BY <3>1, BestFacts
  <2>3. Quotient(window.alpha + window.beta, 2) \in Int
    <3>1. window.alpha + window.beta \in Int /\ window.alpha + window.beta <= window.alpha + window.beta
      BY <2>1
    <3> QED  BY <3>1, QuotientMonotone
  <2>4. /\ Max({Best(v) - window.delta, NOTHING}) \in Int
        /\ Min({Best(v) + window.delta, VALUE_INFINITE}) \in Int
    <3>1. /\ Best(v) - window.delta \in Int /\ Best(v) + window.delta \in Int
          /\ NOTHING \in Int /\ VALUE_INFINITE \in Int
      BY <2>1, <2>2 DEF NOTHING, VALUE_INFINITE
    <3>2. /\ Max({Best(v) - window.delta, NOTHING}) \in {Best(v) - window.delta, NOTHING}
          /\ Min({Best(v) + window.delta, VALUE_INFINITE}) \in {Best(v) + window.delta, VALUE_INFINITE}
      BY <3>1, PairFacts
    <3> QED  BY <3>1, <3>2
  <2>5. window.delta + window.delta \div 4 + 5 \in Int /\ window.tries + 1 \in Nat
    BY <2>1
  <2>6. CASE window' = [alpha |-> Max({Best(v) - window.delta, NOTHING}),
                        beta  |-> Quotient(window.alpha + window.beta, 2),
                        delta |-> window.delta + window.delta \div 4 + 5, tries |-> window.tries + 1]
    BY <2>3, <2>4, <2>5, <2>6
  <2>7. CASE window' = [window EXCEPT !.beta = Min({Best(v) + window.delta, VALUE_INFINITE}),
                                      !.delta = @ + @ \div 4 + 5, !.tries = @ + 1]
    <3>1. window' = [window EXCEPT !.beta = Min({Best(v) + window.delta, VALUE_INFINITE}),
                                   !.delta = window.delta + window.delta \div 4 + 5,
                                   !.tries = window.tries + 1]
      BY <2>1, <2>7
    <3> DEFINE b == Min({Best(v) + window.delta, VALUE_INFINITE})
               d == window.delta + window.delta \div 4 + 5
               t == window.tries + 1
    <3>2. b \in Int /\ d \in Int /\ t \in Nat
      BY <2>4, <2>5
    <3> HIDE DEF b, d, t
    <3>3. window' = [window EXCEPT !.beta = b, !.delta = d, !.tries = t]
      BY <3>1 DEF b, d, t
    <3> QED  BY <2>1, <3>2, <3>3
  <2> QED  BY <2>6, <2>7 DEF Widen
<1>8. /\ RootList(Searched(v), depth) /\ HasScore(Searched(v)[pvIdx])
      /\ depth \in Nat \ {0} /\ pvIdx \in 1 .. Lines
  BY <1>1, <1>2, SearchedFacts DEF TypeInv
<1>9. wire' \in Seq(Reports)
  BY <1>2, <1>8, BatchFacts
<1>4. TypeInv'
  BY <1>1, <1>2, <1>3, <1>9 DEF TypeInv, Lines, N, Reports, Printed, NoLine
<1>5. RootInv'
  BY <1>1, <1>2, SearchedFacts DEF RootInv, RootList, Lines, N, HasScore, HadScore
<1>6. EndInv'
  BY <1>1, <1>2 DEF EndInv
<1>7. TableInv'
  <2>1. CASE ~(late /\ Lines = 1)
    BY <1>1, <1>2, <2>1, KeptTable
  <2>2. CASE late /\ Lines = 1
    <3>1. ~stopped /\ completed' = depth - 1 /\ ~ended'
      BY <1>1, <1>2 DEF EndInv
    <3>2. wire' = Batch(Searched(v)) /\ lines' = lines
      BY <1>2, <2>2
    <3>3. completed' \in Nat /\ \A i \in 1 .. Lines : HasScore(Searched(v)[i])
      BY <1>8, <2>2, <3>1
    <3> QED  BY <1>1, <1>8, <3>1, <3>2, <3>3, BatchTable
  <2> QED  BY <2>1, <2>2
<1> QED  BY <1>4, <1>5, <1>6, <1>7 DEF RankingInv

\* What the end of a search of a line leaves, printed or not.
LEMMA NextLineStep ==
  ASSUME RankingInv, ~ended, wire = <<>>, NEW v \in Visits, NEW late \in BOOLEAN, NextLine(v, late)
  PROVE  RankingInv'
<1>1. TypeInv /\ RootInv /\ EndInv /\ TableInv
  BY DEF RankingInv
<1>2. /\ LineDone(v) /\ pvIdx < Lines /\ root' = After(v) /\ pvIdx' = pvIdx + 1
      /\ window' = Window(depth, After(v)[pvIdx + 1].prev)
      /\ wire' = IF late THEN Batch(After(v)) ELSE <<>>
      /\ UNCHANGED <<depth, ended, lines, completed, stopped>>
  BY DEF NextLine
<1>3. /\ RootList(After(v), depth)
      /\ \A i \in 1 .. pvIdx : HasScore(After(v)[i]) /\ After(v)[i].at = depth
      /\ depth > 1 => \A i \in 1 .. Lines : HasScore(After(v)[i]) \/ HadScore(After(v)[i])
  BY <1>1, <1>2, AfterFacts
<1>4. /\ depth \in Nat \ {0} /\ pvIdx \in 1 .. Lines /\ Lines \in 1 .. N /\ N \in Nat
      /\ pvIdx + 1 \in 1 .. Lines /\ pvIdx + 1 \in 1 .. N
  BY <1>1, <1>2, ConstantFacts DEF TypeInv
<1>5. wire' \in Seq(Reports)
  BY <1>2, <1>3, <1>4, BatchFacts
<1>6. After(v)[pvIdx + 1].prev \in Scores
  BY <1>3, <1>4 DEF RootList, Entries
<1>7. window' \in [alpha : Int, beta : Int, delta : Int, tries : Nat]
  BY <1>2, <1>4, <1>6, WindowType
<1>8. TypeInv'
  BY <1>1, <1>2, <1>4, <1>5, <1>7 DEF TypeInv, Lines, N, Reports, Printed, NoLine
<1>9. RootInv'
  <2>1. \A i \in 1 .. pvIdx' - 1 : i \in 1 .. pvIdx
    BY <1>2, <1>4
  <2>2. \A i \in 1 .. pvIdx' - 1 : HasScore(After(v)[i]) /\ After(v)[i].at = depth
    BY <1>3, <2>1
  <2> QED  BY <1>2, <1>3, <2>2 DEF RootInv, RootList, Lines, N, HasScore, HadScore
<1>10. EndInv'
  BY <1>1, <1>2 DEF EndInv
<1>11. ~stopped /\ completed = depth - 1
  BY <1>1 DEF EndInv
<1>12. TableInv'
  <2>1. CASE ~late
    BY <1>1, <1>2, <2>1, KeptTable
  <2>2. CASE late
    <3>1. wire' = Batch(After(v)) /\ lines' = lines /\ completed' = depth - 1 /\ ~ended'
      BY <1>2, <1>11, <2>2
    <3>2. completed' \in Nat
      BY <1>4, <3>1
    <3>3. completed' > 0 => \A i \in 1 .. Lines : HasScore(After(v)[i]) \/ HadScore(After(v)[i])
      BY <1>3, <1>4, <3>1
    <3>4. HasScore(After(v)[1])
      BY <1>3, <1>4
    <3>5. \A i \in 1 .. Lines : Told(After(v), i) => HasScore(After(v)[i]) \/ HadScore(After(v)[i])
      BY <1>3, <3>4 DEF Told
    <3> QED  BY <1>1, <1>3, <1>11, <3>1, <3>2, <3>3, <3>5, BatchTable
  <2> QED  BY <2>1, <2>2
<1> QED  BY <1>8, <1>9, <1>10, <1>12 DEF RankingInv

\* So does a search that is stopped inside a line.
LEMMA StopInLineStep ==
  ASSUME RankingInv, ~ended, wire = <<>>, NEW v \in Visits, StopInLine(v)
  PROVE  RankingInv'
<1>1. TypeInv /\ RootInv /\ EndInv /\ TableInv
  BY DEF RankingInv
<1>2. /\ root' = After(v) /\ wire' = Batch(After(v)) /\ ended' = TRUE /\ stopped' = TRUE
      /\ UNCHANGED <<depth, pvIdx, window, lines, completed>>
  BY DEF StopInLine
<1>3. /\ RootList(After(v), depth)
      /\ depth > 1 => \A i \in 1 .. Lines : HasScore(After(v)[i]) \/ HadScore(After(v)[i])
  BY <1>1, AfterFacts
<1>4. /\ depth \in Nat \ {0} /\ pvIdx \in 1 .. Lines /\ Lines \in 1 .. N /\ N \in Nat
  BY <1>1, ConstantFacts DEF TypeInv
<1>5. wire' \in Seq(Reports)
  BY <1>2, <1>3, <1>4, BatchFacts
<1>6. TypeInv'
  BY <1>1, <1>2, <1>5 DEF TypeInv, Lines, N, Reports, Printed, NoLine
<1>7. RootInv'
  BY <1>2, <1>3 DEF RootInv, RootList, Lines, N, HasScore, HadScore
<1>8. EndInv' /\ ~stopped /\ completed' = depth - 1
  BY <1>1, <1>2 DEF EndInv
<1>9. TableInv'
  <2>1. completed' \in Nat
    BY <1>4, <1>8
  <2>2. completed' > 0 => \A i \in 1 .. Lines : HasScore(After(v)[i]) \/ HadScore(After(v)[i])
    BY <1>3, <1>4, <1>8
  <2>3. \A i \in 1 .. Lines :
          Told(After(v), i) => HasScore(After(v)[i]) \/ HadScore(After(v)[i]) \/ (i = 1 /\ stopped' /\ completed' = 0)
    BY <1>2, <1>3, <1>4, <1>8 DEF Told
  <2> QED  BY <1>1, <1>2, <1>3, <1>8, <2>1, <2>2, <2>3, BatchTable
<1> QED  BY <1>6, <1>7, <1>8, <1>9 DEF RankingInv

\* rm.previousScore = rm.score
LEMMA NewIterationList ==
  ASSUME NEW d \in Nat \ {0}, NEW r, RootList(r, d), NEW s,
         s = [i \in 1 .. N |-> NewIteration(r[i])],
         \A i \in 1 .. Lines : HasScore(r[i]) /\ r[i].at = d,
         \A i \in 1 .. N : HasScore(r[i]) => r[i].at = d
  PROVE  RootList(s, d + 1)
<1>1. r \in [1 .. N -> Entries] /\ Lines \in 1 .. N /\ N \in Nat
  BY ConstantFacts DEF RootList
<1>2. \A i \in 1 .. N : /\ s[i] \in Entries /\ s[i].move = r[i].move /\ s[i].score = r[i].score
                         /\ s[i].prev = r[i].score /\ s[i].at = r[i].at /\ s[i].prevAt = r[i].at
  BY <1>1 DEF NewIteration, Entries
<1>3. s \in [1 .. N -> Entries]
  BY <1>2
<1>4. \A i, j \in 1 .. N : s[i].move = s[j].move => i = j
  BY <1>2 DEF RootList
<1>5. \A i \in 1 .. N : (HasScore(s[i]) <=> HasScore(r[i])) /\ (HadScore(s[i]) <=> HasScore(r[i]))
  BY <1>2 DEF HasScore, HadScore
<1>6. \A i \in 1 .. N : HasScore(s[i]) => s[i].at \in {d + 1 - 1, d + 1} \ {0}
  BY <1>2, <1>5
<1>7. \A i \in 1 .. N : HadScore(s[i]) => d + 1 > 1 /\ s[i].prevAt = d + 1 - 1
  BY <1>2, <1>5
<1>8. Cardinality({i \in 1 .. N : HadScore(s[i])}) >= Lines
  <2>1. 1 .. Lines \subseteq {i \in 1 .. N : HadScore(s[i])}
    BY <1>1, <1>5
  <2>2. IsFiniteSet(1 .. N) /\ IsFiniteSet(1 .. Lines) /\ Cardinality(1 .. Lines) = Lines /\ Lines \in Nat
    BY <1>1, UpTo
  <2>3. IsFiniteSet({i \in 1 .. N : HadScore(s[i])})
    BY <2>2, FS_Subset
  <2>4. Cardinality(1 .. Lines) <= Cardinality({i \in 1 .. N : HadScore(s[i])})
    BY <2>1, <2>3, FS_Subset
  <2>5. Cardinality({i \in 1 .. N : HadScore(s[i])}) \in Nat
    BY <2>3, FS_CardinalityType
  <2> QED  BY <2>2, <2>4, <2>5
<1> QED  BY <1>3, <1>4, <1>6, <1>7, <1>8 DEF RootList

\* So does the end of an iteration.
LEMMA NextDepthStep ==
  ASSUME RankingInv, ~ended, wire = <<>>, NEW v \in Visits, NextDepth(v)
  PROVE  RankingInv'
<1>1. TypeInv /\ RootInv /\ EndInv /\ TableInv
  BY DEF RankingInv
<1> DEFINE r == After(v)
<1>2. /\ LineDone(v) /\ pvIdx = Lines /\ wire' = Batch(r) /\ completed' = depth
      /\ UNCHANGED <<lines, stopped>>
  BY DEF NextDepth
<1>3. /\ RootList(r, depth)
      /\ \A i \in 1 .. Lines : HasScore(r[i]) /\ r[i].at = depth
      /\ \A i, j \in 1 .. Lines : i < j => r[i].score >= r[j].score
  BY <1>1, <1>2, AfterFacts
<1>4. \A i \in 1 .. N : HasScore(r[i]) => r[i].at = depth
  BY <1>1, <1>2, AfterFacts
<1>5. /\ depth \in Nat \ {0} /\ pvIdx \in 1 .. Lines /\ Lines \in 1 .. N /\ N \in Nat
      /\ 1 \in 1 .. Lines /\ 1 \in 1 .. N
  BY <1>1, ConstantFacts DEF TypeInv
<1>6. wire' \in Seq(Reports)
  BY <1>2, <1>3, <1>5, BatchFacts
<1>7. ~stopped /\ completed = depth - 1
  BY <1>1 DEF EndInv
<1>8. CASE depth = MaxDepth
  <2>1. ended' = TRUE /\ root' = r /\ UNCHANGED <<depth, pvIdx, window>>
    BY <1>8 DEF NextDepth
  <2>2. TypeInv'
    BY <1>1, <1>2, <1>6, <2>1 DEF TypeInv, Lines, N, Reports, Printed, NoLine
  <2>3. RootInv'
    BY <1>3, <2>1 DEF RootInv, RootList, Lines, N, HasScore, HadScore
  <2>4. EndInv'
    BY <1>2, <1>7, <2>1 DEF EndInv
  <2>5. TableInv'
    <3>1. completed' \in Nat
      BY <1>2, <1>5
    <3> HIDE DEF r
    <3> QED  BY <1>1, <1>2, <1>3, <1>7, <2>1, <3>1, BatchTable
  <2> QED  BY <2>2, <2>3, <2>4, <2>5 DEF RankingInv
<1>9. CASE depth # MaxDepth
  <2>1. /\ root' = [i \in 1 .. N |-> NewIteration(r[i])] /\ depth' = depth + 1 /\ pvIdx' = 1
        /\ window' = Window(depth + 1, root'[1].prev) /\ ended' = ended
    BY <1>9 DEF NextDepth
  <2> HIDE DEF r
  <2>2. RootList(root', depth + 1)
    BY <1>3, <1>4, <1>5, <2>1, NewIterationList
  <2>3. root'[1].prev \in Scores
    BY <1>5, <2>2 DEF RootList, Entries
  <2>4. window' \in [alpha : Int, beta : Int, delta : Int, tries : Nat]
    BY <1>5, <2>1, <2>3, WindowType
  <2>5. depth' \in Nat \ {0}
    BY <1>5, <2>1
  <2>6. TypeInv'
    BY <1>1, <1>2, <1>5, <1>6, <2>1, <2>4, <2>5 DEF TypeInv, Lines, N, Reports, Printed, NoLine
  <2>7. RootInv'
    <3>1. 1 .. pvIdx' - 1 = {}
      BY <2>1
    <3> QED  BY <2>1, <2>2, <3>1 DEF RootInv, RootList, Lines, N, HasScore, HadScore
  <2>8. EndInv'
    BY <1>2, <1>5, <1>7, <2>1 DEF EndInv
  <2>9. TableInv'
    <3>1. completed' \in Nat /\ ~ended'
      BY <1>2, <1>5, <2>1
    <3> QED  BY <1>1, <1>2, <1>3, <1>7, <3>1, BatchTable
  <2> QED  BY <2>6, <2>7, <2>8, <2>9 DEF RankingInv
<1> QED  BY <1>8, <1>9

\* So does a stop that is seen between two iterations.
LEMMA StopBetweenStep ==
  ASSUME RankingInv, ~ended, StopBetween
  PROVE  RankingInv'
<1>1. TypeInv /\ RootInv /\ EndInv /\ TableInv
  BY DEF RankingInv
<1>2. /\ ended' = TRUE /\ stopped' = TRUE
      /\ UNCHANGED <<root, depth, pvIdx, window, wire, lines, completed>>
  BY DEF StopBetween
<1>3. TypeInv'
  BY <1>1, <1>2 DEF TypeInv, Lines, N, Reports, Printed, NoLine
<1>4. RootInv'
  BY <1>1, <1>2 DEF RootInv, RootList, Lines, N, HasScore, HadScore
<1>5. EndInv'
  BY <1>1, <1>2 DEF EndInv
<1>6. TableInv'
  BY <1>1, <1>2, KeptTable
<1> QED  BY <1>3, <1>4, <1>5, <1>6 DEF RankingInv

\* So does a line read by runAnalysis.
LEMMA ReadStep ==
  ASSUME RankingInv, ReadLine
  PROVE  RankingInv'
<1>1. TypeInv /\ RootInv /\ EndInv /\ TableInv
  BY DEF RankingInv
<1>2. TypeInv' /\ TableInv'
  BY <1>1, ReadTable
<1>3. UNCHANGED <<root, depth, pvIdx, window, ended, completed, stopped>>
  BY DEF ReadLine
<1>4. RootInv' /\ EndInv'
  BY <1>1, <1>3 DEF RootInv, EndInv, RootList, Lines, N, HasScore, HadScore
<1> QED  BY <1>2, <1>4 DEF RankingInv

\* So does a step that changes nothing.
LEMMA StutterStep ==
  ASSUME RankingInv, UNCHANGED vars
  PROVE  RankingInv'
<1>1. TypeInv /\ RootInv /\ EndInv /\ TableInv
  BY DEF RankingInv
<1>2. UNCHANGED <<root, depth, pvIdx, window, ended, wire, lines, completed, stopped>>
  BY DEF vars
<1>3. TypeInv' /\ RootInv' /\ EndInv'
  BY <1>1, <1>2 DEF TypeInv, RootInv, EndInv, RootList, Lines, N, Reports, Printed, NoLine, HasScore, HadScore
<1>4. Cut' = Cut /\ (\A i : Latest(i)' = Latest(i)) /\ \A i : Info(root, i)' = Info(root, i)
  BY <1>2 DEF Cut, Latest, Info
<1>5. Lines' = Lines /\ NoLine' = NoLine
  BY DEF Lines, N, NoLine
<1>6. TableInv'
  BY <1>1, <1>2, <1>4, <1>5 DEF TableInv, Fresh, HasScore
<1> QED  BY <1>3, <1>6 DEF RankingInv

\* The inductive invariant: every step of the search thread and of the reader
\* keeps the list of root moves whole, their scores of this iteration or the
\* last, and the table of lines the one a batch printed.
THEOREM RankingInvCorrect == Spec => []RankingInv
<1>1. Init => RankingInv
  BY InitInv
<1>2. RankingInv /\ [Next]_vars => RankingInv'
  <2> SUFFICES ASSUME RankingInv, [Next]_vars
               PROVE  RankingInv'
    OBVIOUS
  <2>1. CASE Engine
    <3>1. ~ended /\ wire = <<>>
      BY <2>1 DEF Engine
    <3>2. CASE StopBetween
      BY <3>1, <3>2, StopBetweenStep
    <3>3. ASSUME NEW v \in Visits, NEW late \in BOOLEAN, Widen(v, late)
          PROVE  RankingInv'
      BY <3>1, <3>3, WidenStep
    <3>4. ASSUME NEW v \in Visits, NEW late \in BOOLEAN, NextLine(v, late)
          PROVE  RankingInv'
      BY <3>1, <3>4, NextLineStep
    <3>5. ASSUME NEW v \in Visits, NextDepth(v)
          PROVE  RankingInv'
      BY <3>1, <3>5, NextDepthStep
    <3>6. ASSUME NEW v \in Visits, StopInLine(v)
          PROVE  RankingInv'
      BY <3>1, <3>6, StopInLineStep
    <3> QED  BY <2>1, <3>2, <3>3, <3>4, <3>5, <3>6 DEF Engine
  <2>2. CASE ReadLine
    BY <2>2, ReadStep
  <2>3. CASE UNCHANGED vars
    BY <2>3, StutterStep
  <2> QED  BY <2>1, <2>2, <2>3 DEF Next
<1> QED  BY <1>1, <1>2, PTL DEF Spec

-----------------------------------------------------------------------------
(* Snapshots *)

\* buildSnapshot(), FairyStockfishEngine.kt and uci_engine.py: no line is older
\* than it says, whatever moves change places between the lines, and whenever the
\* search is stopped.
THEOREM LinesAreFreshCorrect == Spec => []LinesAreFresh
<1>1. RankingInv => LinesAreFresh
  <2> SUFFICES ASSUME RankingInv, NEW i \in DOMAIN lines, lines[i] # NoLine
               PROVE  \/ lines[i].at \in {lines[i].depth, lines[i].depth - 1} \ {0}
                      \/ stopped /\ completed = 0 /\ i = 1
    BY DEF LinesAreFresh
  <2>1. i \in 1 .. Lines
    BY DEF RankingInv, TypeInv
  <2>2. lines[i].slot = i /\ Fresh(lines[i], Cut)
    BY <2>1 DEF RankingInv, TableInv
  <2> QED  BY <2>2 DEF Fresh, Cut
<1> QED  BY <1>1, RankingInvCorrect, PTL

Read == {i \in DOMAIN lines : lines[i] # NoLine}

\* What a snapshot is made of.
LEMMA SnapshotFacts ==
  ASSUME RankingInv
  PROVE  /\ DOMAIN Snapshot.byMove = {lines[i].move : i \in Read}
         /\ \A m \in DOMAIN Snapshot.byMove :
              /\ \E i \in Read : lines[i].move = m /\ Snapshot.byMove[m] = lines[i]
              /\ Snapshot.byMove[m] \in Reports /\ Snapshot.byMove[m].move = m
         /\ Snapshot.moves \in SetToSeqs(DOMAIN Snapshot.byMove)
         /\ \A a, b \in DOMAIN Snapshot.moves : a < b =>
              orderingScore(Snapshot.byMove[Snapshot.moves[a]]) >= orderingScore(Snapshot.byMove[Snapshot.moves[b]])
         /\ Snapshot.depth = IF DOMAIN Snapshot.byMove = Moves
                             THEN Min({Snapshot.byMove[m].depth : m \in Moves}) ELSE 0
         /\ IsFiniteSet(DOMAIN Snapshot.byMove)
<1> DEFINE M == {lines[i].move : i \in Read}
           of(m) == {i \in Read : lines[i].move = m}
           byMove == [m \in M |-> lines[Max(of(m))]]
           key == [m \in DOMAIN byMove |-> orderingScore(byMove[m])]
           moves == Arranged(DOMAIN byMove, LAMBDA m, n : key[m] > key[n] \/ (key[m] = key[n] /\ m < n))
           R == {p \in M \X M : key[p[1]] > key[p[2]] \/ (key[p[1]] = key[p[2]] /\ p[1] < p[2])}
<1>1. /\ Snapshot.byMove = byMove /\ Snapshot.moves = moves
      /\ Snapshot.depth = IF DOMAIN byMove = Moves THEN Min({byMove[m].depth : m \in Moves}) ELSE 0
  BY DEF Snapshot, Read
<1>2. /\ DOMAIN lines = 1 .. Lines /\ Lines \in Nat
      /\ \A i \in Read : i \in 1 .. Lines /\ lines[i] \in Reports
  BY ConstantFacts DEF RankingInv, TypeInv, Read
<1>3. IsFiniteSet(Read)
  <2>1. IsFiniteSet(1 .. Lines)
    BY <1>2, UpTo
  <2> QED  BY <1>2, <2>1, FS_Subset DEF Read
<1>4. ASSUME NEW m \in M
      PROVE  Max(of(m)) \in Read /\ lines[Max(of(m))].move = m
  <2>1. of(m) # {} /\ of(m) \subseteq Int
    BY <1>2, <1>4
  <2>2. IsFiniteSet(of(m))
    BY <1>3, FS_Subset
  <2>3. Max(of(m)) \in of(m)
    <3> HIDE DEF of
    <3> QED  BY <2>1, <2>2, MaxMin
  <2> QED  BY <2>3
<1>5. /\ DOMAIN byMove = M
      /\ \A m \in M : /\ \E i \in Read : lines[i].move = m /\ byMove[m] = lines[i]
                      /\ byMove[m] \in Reports /\ byMove[m].move = m
  BY <1>2, <1>4
<1>6. IsFiniteSet(M)
  <2> DEFINE g == [i \in Read |-> lines[i].move]
  <2>1. g \in [Read -> M] /\ \A m \in M : \E i \in Read : g[i] = m
    OBVIOUS
  <2> HIDE DEF g, M
  <2>2. g \in Surjection(Read, M)
    BY <2>1, Fun_IsSurj
  <2> QED  BY <1>3, <2>2, FS_Surjection
<1> HIDE DEF byMove, M
<1>7. \A m \in M : m \in Nat /\ key[m] \in Int
  <2> SUFFICES ASSUME NEW m \in M
               PROVE  m \in Nat /\ key[m] \in Int
    OBVIOUS
  <2>1. byMove[m] \in Reports /\ byMove[m].move = m
    BY <1>5
  <2>2. m \in Nat
    BY <2>1, RankingAssumption DEF Reports
  <2>3. Rated(byMove[m])
    BY <2>1, ReportRated
  <2>4. orderingScore(byMove[m]) \in Int
    BY <2>3, CpLine, MateLine DEF Within
  <2> QED  BY <1>5, <2>2, <2>4
<1> HIDE DEF key
<1>8. \A m, n \in M : <<m, n>> \in R <=> key[m] > key[n] \/ (key[m] = key[n] /\ m < n)
  OBVIOUS
<1> HIDE DEF R
<1>9. Orders(R, M)
  <2>1. \A i \in M : <<i, i>> \notin R
    BY <1>7, <1>8
  <2>2. \A i, j \in M : i # j => <<i, j>> \in R \/ <<j, i>> \in R
    BY <1>7, <1>8
  <2>3. \A i, j, k \in M : <<i, j>> \in R /\ <<j, k>> \in R => <<i, k>> \in R
    BY <1>7, <1>8
  <2> QED  BY <2>1, <2>2, <2>3 DEF Orders
<1>10. PICK t \in SetToSeqs(M) : \A a, b \in DOMAIN t : a < b => <<t[a], t[b]>> \in R
  BY <1>6, <1>9, InOrderOf
<1>11. \A a \in DOMAIN t : t[a] \in M
  BY <1>6, SeqsFacts
<1>12. \A a, b \in DOMAIN t : a < b => key[t[a]] > key[t[b]] \/ (key[t[a]] = key[t[b]] /\ t[a] < t[b])
  BY <1>8, <1>10, <1>11
<1>13. /\ moves \in SetToSeqs(M)
       /\ \A a, b \in DOMAIN moves : a < b =>
            key[moves[a]] > key[moves[b]] \/ (key[moves[a]] = key[moves[b]] /\ moves[a] < moves[b])
  <2> DEFINE inOrder(u) == \A a, b \in DOMAIN u : a < b =>
                             key[u[a]] > key[u[b]] \/ (key[u[a]] = key[u[b]] /\ u[a] < u[b])
  <2>1. moves = CHOOSE u \in SetToSeqs(M) : inOrder(u)
    BY <1>5 DEF Arranged
  <2>2. inOrder(t)
    BY <1>12
  <2> HIDE DEF inOrder, moves
  <2>3. moves \in SetToSeqs(M) /\ inOrder(moves)
    BY <2>1, <2>2
  <2> QED  BY <2>3 DEF inOrder
<1> HIDE DEF moves
<1>14. \A a \in DOMAIN moves : moves[a] \in M
  BY <1>6, <1>13, SeqsFacts
<1>15. \A a, b \in DOMAIN moves : a < b => key[moves[a]] >= key[moves[b]]
  BY <1>7, <1>13, <1>14
<1>16. \A m \in M : key[m] = orderingScore(byMove[m])
  BY <1>5 DEF key
<1>17. \A a, b \in DOMAIN moves : a < b => orderingScore(byMove[moves[a]]) >= orderingScore(byMove[moves[b]])
  BY <1>14, <1>15, <1>16
<1> QED  BY <1>1, <1>5, <1>6, <1>13, <1>17 DEF M

\* The last snapshot of a search that got through an iteration ranks every
\* legal move, by lines of that iteration or the one that was cut.
THEOREM FinalIsWholeCorrect == Spec => []FinalIsWhole
<1>1. RankingInv => FinalIsWhole
  <2> SUFFICES ASSUME RankingInv, IsFinal, completed > 0, MultiPv >= N
               PROVE  /\ DOMAIN Snapshot.byMove = Moves
                      /\ Snapshot.depth \in {completed, completed + 1}
                      /\ ~stopped => Snapshot.depth = completed
    BY DEF FinalIsWhole
  <2>1. Lines = N /\ N \in Nat \ {0} /\ N = Cardinality(Moves) /\ IsFiniteSet(Moves) /\ 1 \in 1 .. N
    BY ConstantFacts
  <2>2. \A i : Latest(i) = lines[i]
    BY DEF IsFinal, Latest
  <2>3. /\ \A i \in 1 .. N : lines[i] # NoLine /\ lines[i].depth \in {completed, completed + 1}
        /\ \A i, j \in 1 .. N : lines[i].move = lines[j].move => i = j
    BY <2>1, <2>2 DEF RankingInv, TableInv
  <2>4. Read = 1 .. N /\ \A i \in 1 .. N : lines[i] \in Reports /\ lines[i].move \in Moves
    <3>1. lines \in [1 .. N -> {NoLine} \cup Reports]
      BY <2>1 DEF RankingInv, TypeInv
    <3>2. \A i \in 1 .. N : lines[i] \in Reports
      BY <2>3, <3>1
    <3> QED  BY <2>3, <3>1, <3>2 DEF Read, Reports
  <2>5. \A m \in Moves : \E i \in 1 .. N : lines[i].move = m
    <3> DEFINE g == [i \in 1 .. N |-> lines[i].move]
    <3>1. g \in [1 .. N -> Moves] /\ \A i, j \in 1 .. N : g[i] = g[j] => i = j
      BY <2>3, <2>4
    <3>2. IsFiniteSet(1 .. N) /\ Cardinality(1 .. N) = N
      BY <2>1, UpTo
    <3> HIDE DEF g
    <3>3. g \in Injection(1 .. N, Moves)
      BY <3>1, Fun_IsInj
    <3>4. g \in Surjection(1 .. N, Moves)
      BY <2>1, <3>2, <3>3, FS_Injection
    <3>5. \A m \in Moves : \E i \in 1 .. N : g[i] = m
      BY <3>4 DEF Surjection
    <3> QED  BY <3>5 DEF g
  <2>6. DOMAIN Snapshot.byMove = Moves
    <3>1. DOMAIN Snapshot.byMove = {lines[i].move : i \in 1 .. N}
      BY <2>4, SnapshotFacts
    <3> QED  BY <2>4, <2>5, <3>1
  <2> DEFINE D == {Snapshot.byMove[m].depth : m \in Moves}
  <2>7. Snapshot.depth = Min(D)
    BY <2>6, SnapshotFacts
  <2>8. \A m \in Moves : \E i \in 1 .. N : Snapshot.byMove[m] = lines[i]
    BY <2>4, <2>6, SnapshotFacts
  <2>9. D \subseteq {completed, completed + 1} /\ D # {}
    <3>1. Moves # {}
      BY RankingAssumption
    <3>2. \A m \in Moves : Snapshot.byMove[m].depth \in {completed, completed + 1}
      BY <2>3, <2>8
    <3> QED  BY <3>1, <3>2
  <2>10. completed \in Nat
    <3>1. depth \in Nat \ {0} /\ completed \in {depth, depth - 1}
      BY DEF RankingInv, TypeInv, EndInv
    <3> QED  BY <3>1
  <2>11. Min(D) \in D
    <3> HIDE DEF D
    <3>1. D \subseteq Int
      BY <2>9, <2>10
    <3>2. IsFiniteSet({completed} \cup {completed + 1})
      BY FS_Singleton, FS_AddElement
    <3>3. D \subseteq {completed} \cup {completed + 1}
      BY <2>9
    <3>4. IsFiniteSet(D)
      BY <3>2, <3>3, FS_Subset
    <3> QED  BY <2>9, <3>1, <3>4, MaxMin
  <2>12. ASSUME ~stopped
         PROVE  \A i \in 1 .. N : lines[i].depth = completed
    <3>1. ended /\ completed = depth /\ depth \in Nat \ {0}
      BY <2>12 DEF IsFinal, RankingInv, EndInv, TypeInv
    <3>2. \A i \in 1 .. N : lines[i] = Info(root, i) /\ HasScore(root[i])
      BY <2>1, <2>2, <2>12, <3>1 DEF RankingInv, TableInv
    <3>3. RootList(root, depth)
      BY DEF RankingInv, RootInv
    <3> QED  BY <2>1, <3>1, <3>2, <3>3, InfoFacts
  <2>13. ASSUME ~stopped
         PROVE  Snapshot.depth = completed
    <3>1. \A d \in D : d = completed
      BY <2>8, <2>12, <2>13
    <3> QED  BY <2>7, <2>11, <3>1
  <2> QED  BY <2>6, <2>7, <2>9, <2>11, <2>13
<1> QED  BY <1>1, RankingInvCorrect, PTL

\* A rated line has a win rate in per mille.
LEMMA WinRateRange ==
  ASSUME NEW x, Rated(x)
  PROVE  Score(x).winRate \in 0 .. 1000
<1>1. CASE x.score.kind = "cp"
  BY <1>1, CpLine
<1>2. CASE x.score.kind # "cp"
  BY <1>2 DEF Score
<1> QED  BY <1>1, <1>2

\* A rated move gets a grade.
LEMMA GradeType ==
  ASSUME NEW best, NEW x, Rated(best), Rated(x)
  PROVE  Grade(Score(best), Score(x)) \in Grades
<1>1. Score(best).winRate \in 0 .. 1000 /\ Score(x).winRate \in 0 .. 1000
  BY WinRateRange
<1>2. Loss(Score(best), Score(x)) \in Nat
  BY <1>1, LossType
<1>3. GradeForLoss(Loss(Score(best), Score(x))) \in Grades
  BY <1>2, GradeForLossMonotone
<1> QED  BY <1>3 DEF Grade, Grades, BEST, BLUNDER

\* Nothing is lost by a move with the win rate of the best one.
LEMMA LossOfEqual ==
  ASSUME NEW b, NEW x, b.winRate = x.winRate, b.winRate \in 0 .. 1000
  PROVE  Loss(b, x) = 0
<1> DEFINE r == x.winRate
<1>1. r \in Int
  OBVIOUS
<1>2. Loss(b, x) = IF r > r THEN r - r ELSE 0
  BY DEF Loss
<1> HIDE DEF r
<1> QED  BY <1>1, <1>2

\* A move ranked as high as the best one is graded as the best one.
LEMMA EqualIsBest ==
  ASSUME NEW best, NEW x, Rated(best), Rated(x), orderingScore(best) = orderingScore(x)
  PROVE  Grade(Score(best), Score(x)) = BEST
<1>1. CASE x.score.kind = "cp"
  <2>1. best.score.kind = "cp"
    BY <1>1, CpLine, MateLine DEF Within
  <2>2. Score(best).winRate = Score(x).winRate /\ Score(best).winRate \in 0 .. 1000
    BY <1>1, <2>1, CpLine
  <2>3. ~Mates(Score(best)) /\ ~IsMated(Score(x))
    BY <1>1, <2>1, CpLine
  <2>4. Loss(Score(best), Score(x)) = 0
    BY <2>2, LossOfEqual
  <2> QED  BY <2>3, <2>4 DEF Grade, GradeForLoss, NEGLIGIBLE
<1>2. CASE x.score.kind # "cp"
  <2>1. CASE Mates(Score(x))
    BY <2>1 DEF Grade
  <2>2. CASE ~Mates(Score(x))
    <3>1. IsMated(Score(x)) /\ Score(x).winRate = 0 /\ orderingScore(x) \in Int /\ orderingScore(x) <= -99877
      BY <1>2, <2>2, MateLine
    <3>2. ~Mates(Score(best)) /\ IsMated(Score(best)) /\ Score(best).winRate = 0
      BY <3>1, CpLine, MateLine DEF Within
    <3>3. Loss(Score(best), Score(x)) = 0
      BY <3>1, <3>2 DEF Loss
    <3> QED  BY <2>2, <3>1, <3>2, <3>3 DEF Grade, GradeForLoss, NEGLIGIBLE
  <2> QED  BY <2>1, <2>2
<1> QED  BY <1>1, <1>2

\* CoachEvaluator.kt: on every snapshot the coach may read, its grades get no
\* better down the ranking; and of a search that was not cut the move the engine
\* plays is graded as the best.
THEOREM VerdictsFollowCorrect == Spec => []VerdictsFollow
<1>1. RankingInv => VerdictsFollow
  <2> SUFFICES ASSUME RankingInv
               PROVE  VerdictsFollow
    OBVIOUS
  <2> DEFINE s == Snapshot
             n == Len(s.moves)
  <2>1. /\ \A m \in DOMAIN s.byMove : s.byMove[m] \in Reports /\ s.byMove[m].move = m
        /\ s.moves \in SetToSeqs(DOMAIN s.byMove) /\ IsFiniteSet(DOMAIN s.byMove)
        /\ \A a, b \in DOMAIN s.moves : a < b =>
             orderingScore(s.byMove[s.moves[a]]) >= orderingScore(s.byMove[s.moves[b]])
    BY SnapshotFacts
  <2>2. \A m \in DOMAIN s.byMove : Rated(s.byMove[m]) /\ orderingScore(s.byMove[m]) \in Int
    <3> SUFFICES ASSUME NEW m \in DOMAIN s.byMove
                 PROVE  Rated(s.byMove[m]) /\ orderingScore(s.byMove[m]) \in Int
      OBVIOUS
    <3>1. Rated(s.byMove[m])
      BY <2>1, ReportRated
    <3> QED  BY <3>1, CpLine, MateLine DEF Within
  <2> HIDE DEF s
  <2>3. /\ n \in Nat /\ DOMAIN s.moves = 1 .. n
        /\ \A a \in 1 .. n : s.moves[a] \in DOMAIN s.byMove
        /\ \A a, b \in 1 .. n : s.moves[a] = s.moves[b] => a = b
        /\ \A m \in DOMAIN s.byMove : \E a \in 1 .. n : s.moves[a] = m
    <3>1. n = Cardinality(DOMAIN s.byMove)
      BY <2>1, SeqsFacts
    <3> QED  BY <2>1, <3>1, SeqsFacts
  <2> HIDE DEF n
  <2> DEFINE line(a) == s.byMove[s.moves[a]]
             grade(a) == Grade(Score(line(1)), Score(line(a)))
  <2>4. \A a \in 1 .. n : Rated(line(a)) /\ line(a).move = s.moves[a] /\ orderingScore(line(a)) \in Int
    BY <2>1, <2>2, <2>3
  <2>5. \A a, b \in 1 .. n : a < b => orderingScore(line(a)) >= orderingScore(line(b))
    BY <2>1, <2>3
  <2> HIDE DEF line
  <2>6. ASSUME NEW i \in 2 .. n
        PROVE  grade(i - 1) <= grade(i)
    <3>1. 1 \in 1 .. n /\ i - 1 \in 1 .. n /\ i \in 1 .. n /\ 1 # i /\ i - 1 < i
      BY <2>3
    <3>2. CASE i = 2
      <4>1. Score(line(1)).move = Score(line(1)).move
        OBVIOUS
      <4>2. grade(1) = BEST
        BY <4>1 DEF Grade
      <4>3. grade(i) \in Grades
        BY <2>4, <3>1, GradeType
      <4> QED  BY <3>2, <4>2, <4>3 DEF BEST, Grades
    <3>3. CASE i # 2
      <4>1. 1 < i - 1 /\ 1 # i - 1
        BY <2>3, <3>3
      <4>2. line(i - 1).move # line(1).move /\ line(i).move # line(1).move
        BY <2>3, <2>4, <3>1, <4>1
      <4>3. /\ orderingScore(line(1)) >= orderingScore(line(i - 1))
            /\ orderingScore(line(i - 1)) >= orderingScore(line(i))
        BY <2>5, <3>1, <4>1
      <4>4. Rated(line(1)) /\ Rated(line(i - 1)) /\ Rated(line(i))
        BY <2>4, <3>1
      <4> QED  BY <4>2, <4>3, <4>4, GradesFollowRanking
    <3> QED  BY <3>2, <3>3
  <2>7. ASSUME IsFinal, ~stopped
        PROVE  Verdict(s, root[1].move) = BEST
    <3>1. ended /\ wire = <<>> /\ \A i : Latest(i) = lines[i]
      BY <2>7 DEF IsFinal, Latest
    <3>2. /\ \A i \in 1 .. Lines : lines[i] = Info(root, i) /\ HasScore(root[i])
          /\ \A i, j \in 1 .. Lines : i < j => root[i].score >= root[j].score
      BY <2>7, <3>1 DEF RankingInv, TableInv
    <3>3. /\ RootList(root, depth) /\ depth \in Nat \ {0} /\ DOMAIN lines = 1 .. Lines
          /\ Lines \in 1 .. N /\ N \in Nat /\ 1 \in 1 .. Lines
      BY ConstantFacts DEF RankingInv, RootInv, TypeInv
    <3>4. \A i \in 1 .. Lines : lines[i].move = root[i].move /\ lines[i].score = UciValue(root[i].score)
      BY <3>2, <3>3, InfoFacts
    <3>5. \A i \in 1 .. Lines : lines[i] # NoLine
      <4>1. \A i \in 1 .. Lines : lines[i].slot = i
        BY <3>2, <3>3, InfoFacts
      <4> QED  BY <4>1 DEF NoLine
    <3>6. Read = 1 .. Lines
      BY <3>3, <3>5 DEF Read
    <3>7. \A i, j \in 1 .. Lines : lines[i].move = lines[j].move => i = j
      BY <3>3, <3>4 DEF RootList
    <3>8. /\ DOMAIN s.byMove = {lines[i].move : i \in 1 .. Lines}
          /\ \A m \in DOMAIN s.byMove : \E i \in 1 .. Lines : lines[i].move = m /\ s.byMove[m] = lines[i]
      BY <3>6, SnapshotFacts DEF s
    <3>9. root[1].move \in DOMAIN s.byMove /\ s.byMove[root[1].move] = lines[1]
      <4>1. root[1].move \in DOMAIN s.byMove
        BY <3>3, <3>4, <3>8
      <4>2. PICK i \in 1 .. Lines : lines[i].move = root[1].move /\ s.byMove[root[1].move] = lines[i]
        BY <3>8, <4>1
      <4>3. i = 1
        BY <3>3, <3>4, <3>7, <4>2
      <4> QED  BY <4>1, <4>2, <4>3
    <3>10. \A i \in 1 .. Lines : root[i].score \in EngineValues /\ root[i].score <= root[1].score
      <4> SUFFICES ASSUME NEW i \in 1 .. Lines
                   PROVE  root[i].score \in EngineValues /\ root[i].score <= root[1].score
        OBVIOUS
      <4>1. \A j \in 1 .. Lines : root[j].score \in Values
        <5>1. \A j \in 1 .. Lines : root[j].score \in Scores
          BY <3>3 DEF RootList, Entries
        <5> QED  BY <3>2, <5>1 DEF Scores, HasScore
      <4>2. root[i].score \in EngineValues /\ root[i].score \in Int /\ root[1].score \in Int
        BY <3>3, <4>1, ConstantFacts DEF EngineValues
      <4>3. CASE i = 1
        BY <4>2, <4>3
      <4>4. CASE 1 < i
        BY <3>2, <3>3, <4>2, <4>4
      <4> QED  BY <3>3, <4>2, <4>3, <4>4
    <3>11. ASSUME NEW i \in 1 .. Lines
           PROVE  orderingScore(lines[i]) <= orderingScore(lines[1])
      <4>1. Scale(UciValue(root[i].score)) <= Scale(UciValue(root[1].score))
        BY <3>3, <3>10, ScaleKeepsOrder
      <4>2. \A j \in 1 .. Lines : orderingScore(lines[j]) = Scale(UciValue(root[j].score))
        BY <3>4 DEF Scale, orderingScore
      <4> QED  BY <3>3, <4>1, <4>2
    <3>12. PICK a \in 1 .. n : s.moves[a] = root[1].move
      BY <2>3, <3>9
    <3>13. line(a) = lines[1] /\ 1 \in 1 .. n
      BY <2>3, <3>9, <3>12 DEF line
    <3>14. orderingScore(line(1)) <= orderingScore(line(a))
      <4>1. s.moves[1] \in DOMAIN s.byMove
        BY <2>3, <3>13
      <4>2. PICK i \in 1 .. Lines : line(1) = lines[i]
        BY <3>8, <4>1 DEF line
      <4> QED  BY <3>11, <3>13, <4>2
    <3>15. orderingScore(line(1)) = orderingScore(line(a))
      <4>1. orderingScore(line(1)) \in Int /\ orderingScore(line(a)) \in Int
        BY <2>4, <3>13
      <4>2. a = 1 \/ 1 < a
        BY <2>3
      <4> QED  BY <2>5, <3>13, <3>14, <4>1, <4>2
    <3>16. Grade(Score(line(1)), Score(line(a))) = BEST
      BY <2>4, <3>13, <3>15, EqualIsBest
    <3> QED  BY <3>12, <3>16 DEF Verdict, line
  <2>8. \A i \in 2 .. n : Verdict(s, s.moves[i - 1]) <= Verdict(s, s.moves[i])
    BY <2>6 DEF Verdict, line
  <2>9. \A i \in 2 .. n : i \in DOMAIN s.moves /\ i - 1 \in DOMAIN s.moves
    BY <2>3
  <2> QED  BY <2>7, <2>8, <2>9 DEF VerdictsFollow, s, n
<1> QED  BY <1>1, RankingInvCorrect, PTL
=============================================================================
