------------------------------- MODULE Scoring -------------------------------
(***************************************************************************)
(* server/services/scoring.cpp: the points an answer earns.                *)
(***************************************************************************)
EXTENDS Integers, Sequences, FiniteSets

CONSTANT IntLimit   \* 2^31: an int holds -IntLimit to IntLimit - 1

BasePoints == 100
SpeedBonusMax == 100

ASSUME ScoringAssumption == IntLimit \in Nat /\ IntLimit > BasePoints + SpeedBonusMax

IntRange == -IntLimit..(IntLimit - 1)

(* static_cast<int>                                                        *)
Narrow(x) == ((x + IntLimit) % (2 * IntLimit)) - IntLimit

(* How often x occurs in s.                                                *)
Occurrences(s, x) == Cardinality({i \in DOMAIN s : s[i] = x})

(* Mutant: the vectors are compared unsorted.                            *)
IsCorrectUnsorted(question, answer) ==
  answer.selected_indices = question.correct_indices

(* Both index vectors are sorted and compared: they agree exactly when     *)
(* every index occurs equally often in both.                               *)
IsCorrect(question, answer) ==
  LET selected == answer.selected_indices
      correct  == question.correct_indices
  IN  /\ Len(selected) = Len(correct)
      /\ \A i \in DOMAIN correct :
            Occurrences(selected, correct[i]) = Occurrences(correct, correct[i])

(* The quotient is taken in 64 bits, of positive numbers here, and then    *)
(* narrowed: a client may report a time so long before the start that it   *)
(* does not fit.                                                           *)
SpeedBonus(remaining, time_limit) == Narrow((SpeedBonusMax * remaining) \div time_limit)

(* Mutant: a late answer loses points.                                   *)
PointsLatePunished(question, answer) ==
  LET time_limit == question.time_limit_ms
      remaining  == time_limit - answer.time_since_question_start_ms
  IN  IF ~IsCorrect(question, answer) THEN 0
      ELSE BasePoints + SpeedBonus(remaining, time_limit)

(* Mutant: the bonus grows with the time used.                           *)
PointsForTimeUsed(question, answer) ==
  LET time_limit == question.time_limit_ms
      time_used  == answer.time_since_question_start_ms
  IN  IF ~IsCorrect(question, answer) THEN 0
      ELSE IF time_limit <= 0 \/ time_used >= time_limit THEN BasePoints
      ELSE BasePoints + SpeedBonus(time_used, time_limit)

CalculatePoints(question, answer) ==
  LET time_limit == question.time_limit_ms
      remaining  == time_limit - answer.time_since_question_start_ms
  IN  IF ~IsCorrect(question, answer) THEN 0
      ELSE IF time_limit <= 0 \/ remaining <= 0 THEN BasePoints
      ELSE BasePoints + SpeedBonus(remaining, time_limit)
=============================================================================
