----------------------------- MODULE CoachGrade -----------------------------
(***************************************************************************)
(* The grade of one move (CoachEvaluator.kt, CoachGrade.kt), from the      *)
(* engine's scores of the move played and of the best one.  Win rates are  *)
(* per mille and those of the human: the coach analyses the position       *)
(* before the human's move, so the view of the engine is the human's.      *)
(***************************************************************************)
EXTENDS Integers, FiniteSets

\* A score is [move, mateIn, winRate]; mateIn is 0 where the code has null, as
\* the engine never reports a mate in 0 of a position with moves.

Grades == 1 .. 7
BEST      == 1
EXCELLENT == 2
BLUNDER   == 7

NEGLIGIBLE == 5
\* Losses at which a grade ends: EXCELLENT_MAX, GOOD_MAX, OK_MAX, INACCURACY_MAX
\* and MISTAKE_MAX.
Limits == <<10, 30, 50, 70, 150>>

GradeForLoss(loss) ==
  IF loss <= NEGLIGIBLE THEN BEST
  ELSE EXCELLENT + Cardinality({i \in DOMAIN Limits : loss >= Limits[i]})

Mates(score)   == score.mateIn > 0
IsMated(score) == score.mateIn < 0
Loss(best, played) == IF best.winRate > played.winRate THEN best.winRate - played.winRate ELSE 0

\* Wrong on purpose: any mate score of the move played counts as a mate given.
AnyMateIsBest(best, played) ==
  IF played.move = best.move \/ played.mateIn # 0 THEN BEST
  ELSE IF Mates(best) THEN BLUNDER
  ELSE GradeForLoss(Loss(best, played))

\* Mates are decided before the win rates.
Grade(best, played) ==
  IF played.move = best.move \/ Mates(played) THEN BEST
  ELSE IF Mates(best) \/ (IsMated(played) /\ ~IsMated(best)) THEN BLUNDER
  ELSE GradeForLoss(Loss(best, played))
=============================================================================
