-------------------------------- MODULE Quiz --------------------------------
(***************************************************************************)
(* server/domain/quiz.hpp, quiz.cpp: what a quiz is and which quizzes the  *)
(* server accepts.  Texts matter only by being empty or not, options only  *)
(* by their number; an option is named by its index, from 0.               *)
(***************************************************************************)
EXTENDS Integers, Sequences

AnswerType == {"SingleChoice", "MultipleChoice"}

Question == [has_text        : BOOLEAN,
             answer_type     : AnswerType,
             options         : Nat,
             correct_indices : Seq(Nat),
             time_limit_ms   : Int]

QuizType == [has_title : BOOLEAN, questions : Seq(Question)]

IsIndexValid(idx, options_count) == idx < options_count

ValidateQuestion(q) ==
  /\ q.has_text
  /\ q.options > 0
  /\ q.time_limit_ms > 0
  /\ \A i \in DOMAIN q.correct_indices : IsIndexValid(q.correct_indices[i], q.options)
  /\ \/ q.answer_type = "SingleChoice" /\ Len(q.correct_indices) = 1
     \/ q.answer_type = "MultipleChoice" /\ q.correct_indices # <<>>

Validate(quiz) ==
  /\ quiz.has_title
  /\ quiz.questions # <<>>
  /\ \A i \in DOMAIN quiz.questions : ValidateQuestion(quiz.questions[i])
=============================================================================
