------------------------------- MODULE MCDemo -------------------------------
(***************************************************************************)
(* Small instances of Demo for TLC.                                        *)
(***************************************************************************)
EXTENDS Demo

Asked(answer_type, options, correct) ==
  [has_text |-> TRUE, answer_type |-> answer_type, options |-> options,
   correct_indices |-> correct, time_limit_ms |-> 1]

OneOfThree == Asked("SingleChoice", 3, <<1>>)
QuizOf(questions) == [has_title |-> TRUE, questions |-> questions]

(* The quizzes of CreateQuizzes; game 0 plays the first.                   *)
ThreeQuizzes ==
  <<QuizOf(<<OneOfThree, OneOfThree>>),
    QuizOf(<<Asked("MultipleChoice", 4, <<0, 1>>)>>),
    QuizOf(<<OneOfThree>>)>>
Drafts == {ThreeQuizzes[i] : i \in 1..3}

Right == {[selected_indices |-> <<1>>, time_since_question_start_ms |-> 0]}

CONSTANTS h, p   \* a host and a player
LongGame == {0}
Hosts == [g \in Games |-> h]
OneId == <<p>>
=============================================================================
