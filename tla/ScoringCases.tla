---------------------------- MODULE ScoringCases ----------------------------
(***************************************************************************)
(* CalculatePoints and Validate over all small inputs: a behaviour is one  *)
(* question and two answers to it, and the properties compare the points   *)
(* with what the two ought to earn.                                        *)
(***************************************************************************)
EXTENDS Quiz, Scoring, Functions

CONSTANTS
  MaxOptions,   \* bound: options of a question
  MaxLimit,     \* bound: its time limit, in milliseconds
  Times         \* the times clients report, in milliseconds

ASSUME CasesAssumption == MaxOptions \in Nat \ {0} /\ MaxLimit \in Nat /\ Times \subseteq Int

VARIABLES question, answer, other

casesVars == <<question, answer, other>>

IndexVectors == UNION {[1..n -> 0..(MaxOptions - 1)] : n \in 0..MaxOptions}

Questions ==
  {q \in [has_text : {TRUE}, answer_type : AnswerType, options : 1..MaxOptions,
          correct_indices : IndexVectors, time_limit_ms : 1..MaxLimit] : ValidateQuestion(q)}

(* An answer is deserialized without any check (json_protocol.cpp:93-98).  *)
SmallAnswers == [selected_indices : IndexVectors, time_since_question_start_ms : Times]

CasesInit == question \in Questions /\ answer \in SmallAnswers /\ other \in SmallAnswers

CasesNext == UNCHANGED casesVars

CasesSpec == CasesInit /\ [][CasesNext]_casesVars

Points(a) == CalculatePoints(question, a)

(* The points fit an int, as they do for every time from the start on:     *)
(* they do not for times reported as long before it.                       *)
PointsFit(a) ==
  LET limit == question.time_limit_ms
  IN  SpeedBonusMax * (limit - a.time_since_question_start_ms) < (IntLimit - BasePoints) * limit

(* An answer is right exactly when it is a permutation of the right        *)
(* indices, whatever the order the client sends them in.                   *)
CorrectIffPermutation ==
  LET n == Len(question.correct_indices)
  IN  PointsFit(answer) =>
      (Points(answer) > 0 <=>
        /\ Len(answer.selected_indices) = n
        /\ \E pi \in Bijection(1..n, 1..n) : \A i \in 1..n :
             answer.selected_indices[i] = question.correct_indices[pi[i]])

(* docs/about.md:34, faster is more points: of two answers choosing the    *)
(* same options the earlier never earns less, as long as its points fit an *)
(* int, and strictly more when it comes within the limit and the limit is  *)
(* short enough for the bonus to tell milliseconds apart.                  *)
FasterEarnsMore ==
  LET t1 == answer.time_since_question_start_ms
      t2 == other.time_since_question_start_ms
  IN  answer.selected_indices = other.selected_indices /\ t1 < t2 /\ PointsFit(answer) =>
        /\ Points(answer) >= Points(other)
        /\ /\ Points(other) > 0 /\ t1 < question.time_limit_ms
           /\ question.time_limit_ms <= SpeedBonusMax
           => Points(answer) > Points(other)

(* A right answer earns the base points and at most the maximal bonus on   *)
(* top, for every time a correct clock can report.                         *)
PointsInRange ==
  answer.time_since_question_start_ms >= 0 =>
    Points(answer) \in {0} \cup BasePoints..(BasePoints + SpeedBonusMax)
=============================================================================
