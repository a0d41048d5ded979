---------------------------- MODULE MCGameServer ----------------------------
(***************************************************************************)
(* Small instances of GameServer for TLC.                                  *)
(***************************************************************************)
EXTENDS GameServer

Single(correct, limit) ==
  [has_text |-> TRUE, answer_type |-> "SingleChoice", options |-> 2,
   correct_indices |-> <<correct>>, time_limit_ms |-> limit]

QuizOf(questions) == [has_title |-> TRUE, questions |-> questions]

TwoQuestions == {QuizOf(<<Single(0, 1), Single(0, 2)>>)}

(* The second question is given less time than the first, or more.         *)
ShorterOrLonger == TwoQuestions \cup {QuizOf(<<Single(0, 2), Single(0, 1)>>)}

(* A delay that is not positive means no automatic advance.                *)
OffAndOn == {-5, 1}

NoAnswers == {}
OneAnswer == {[selected_indices |-> <<0>>, time_since_question_start_ms |-> 3]}
=============================================================================
