------------------------- MODULE SessionManagerGame -------------------------
(***************************************************************************)
(* SessionManager implements QuizGame: under any interleaving of threads,  *)
(* what its sessions hold is a game by the rules.                          *)
(***************************************************************************)
EXTENDS SessionManager

GameOf(s) ==
  LET session == sessions[s]
  IN  [phase    |-> session.state,
       question |-> session.current_question_index,
       total    |-> Len(QuestionsOf(s)),
       standing |-> Board(session),
       answered |-> {p \in DOMAIN session.players :
                       session.players[p].answered_current_question}]

QuestionsAsked == UNION {{quiz.questions[i] : i \in DOMAIN quiz.questions} : quiz \in QuizDrafts}

Game == INSTANCE QuizGame
          WITH People <- PlayerIds, MaxPeople <- MaxPlayersPerSession,
               Totals <- {Len(quiz.questions) : quiz \in QuizDrafts},
               Points <- {CalculatePoints(q, a) : q \in QuestionsAsked, a \in Answers},
               games <- [s \in Sids |-> GameOf(s)]

(* Every step of the server is a move of the game or none: nobody enters a *)
(* game under way or comes back into it, an answer counts once and for one *)
(* question, nothing but an answer changes a score, and nothing at all     *)
(* changes one after the end, whatever the threads and the cleanup do.     *)
ImplementsGame == Game!GamesSpec
=============================================================================
