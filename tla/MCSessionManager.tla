-------------------------- MODULE MCSessionManager --------------------------
(***************************************************************************)
(* Small instances of SessionManager for TLC.  Option 0 is right for every *)
(* question of a draft unless the draft says otherwise.                    *)
(***************************************************************************)
EXTENDS SessionManagerGame, TLC

Single(correct, limit) ==
  [has_text |-> TRUE, answer_type |-> "SingleChoice", options |-> 2,
   correct_indices |-> <<correct>>, time_limit_ms |-> limit]

QuizOf(questions) == [has_title |-> TRUE, questions |-> questions]

(* Two questions; rejected drafts: no questions, and a question whose      *)
(* right option does not exist.                                            *)
TwoQuestions == QuizOf(<<Single(0, 1), Single(1, 1)>>)
Drafts == {TwoQuestions, QuizOf(<<>>), QuizOf(<<Single(2, 1)>>)}
OneQuestionDrafts == {QuizOf(<<Single(0, 1)>>), QuizOf(<<>>)}

Pick(option, time) == [selected_indices |-> <<option>>, time_since_question_start_ms |-> time]

(* Option 0 at once, and option 1 after the time is up.                    *)
TwoAnswers == {Pick(0, 0), Pick(1, 3)}
NoAnswers == {}

ThreadSymmetry == Permutations(Threads)

(* Of what clients were told, a history no action reads, the properties of *)
(* the game read the final boards only.                                    *)
GameView == <<quizzes, sessions, now, pending, cleanup, ledger, [s \in Sids |-> view[s].finals]>>
=============================================================================
