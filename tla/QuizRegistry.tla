---------------------------- MODULE QuizRegistry ----------------------------
(***************************************************************************)
(* server/services/quiz_registry.cpp over in_memory_quiz_storage.cpp: the  *)
(* quizzes the server stores.  A code is "Q" followed by a counter that    *)
(* only grows and nothing is ever erased, so the storage is the sequence   *)
(* of the quizzes in the order of their codes and a code is a position.    *)
(* The storage's mutex makes Create and Get atomic.                        *)
(***************************************************************************)
EXTENDS Quiz

CONSTANTS
  QuizDrafts,   \* the quizzes clients submit, valid or not
  MaxQuizzes    \* bound: quizzes stored

ASSUME QuizAssumption == QuizDrafts \subseteq QuizType /\ MaxQuizzes \in Nat

VARIABLE quizzes

RegistryInit == quizzes = <<>>

HasQuiz(code) == code \in DOMAIN quizzes

(* QuizRegistry::Create: a quiz that fails validation is not stored.       *)
CreateQuiz(quiz) ==
  /\ Len(quizzes) < MaxQuizzes
  /\ Validate(quiz)
  /\ quizzes' = Append(quizzes, quiz)
=============================================================================
