--------------------------- MODULE MCConnections ---------------------------
(***************************************************************************)
(* Small instances of Connections for TLC.                                 *)
(***************************************************************************)
EXTENDS Connections, TLC

Question1 == [has_text |-> TRUE, answer_type |-> "SingleChoice", options |-> 2,
              correct_indices |-> <<0>>, time_limit_ms |-> 1]

OneQuestion == {[has_title |-> TRUE, questions |-> <<Question1>>]}

Right == {[selected_indices |-> <<0>>, time_since_question_start_ms |-> 0]}

CONSTANTS h, e, p   \* a host, one without a name, and a player
OneJoin == <<p>>

ThreadSymmetry == Permutations(Threads)

(* What clients were told is a history no action or property here reads.   *)
LinkView == <<quizzes, sessions, now, pending, cleanup, linkVars, handler>>
=============================================================================
