------------------------------- MODULE Session -------------------------------
(***************************************************************************)
(* server/domain/session.hpp, session.cpp: one quiz session and the rules  *)
(* that change it.  A C++ function that answers bool and mutates its       *)
(* session is a predicate (may it?) and an operator (the session after).   *)
(* The players vector never holds an id twice (AddPlayer), so it is a      *)
(* function from ids.  The fields nothing reads again (id, name, host_id,  *)
(* role) are left out.  Times are milliseconds of the steady clock.        *)
(***************************************************************************)
EXTENDS Integers, FiniteSets

CONSTANTS
  PlayerIds,             \* the ids players go by, the hosts' included
  MaxPlayersPerSession,  \* kMaxPlayersPerSession, 50 in the code
  Pins,                  \* the six-digit PINs
  Delays,                \* auto_advance_delay_ms values; 0 is "off"
  Never                  \* std::nullopt in disconnected_at

ASSUME SessionAssumption ==
  /\ MaxPlayersPerSession \in Nat \ {0}
  /\ Delays \subseteq Int
  /\ Never \notin Nat

SessionState == {"Lobby", "Running", "Finished"}

Player == [score                     : Int,
           answered_current_question : BOOLEAN,
           connected                 : BOOLEAN,
           disconnected_at           : Nat \cup {Never}]

NewPlayer == [score |-> 0, answered_current_question |-> FALSE,
              connected |-> TRUE, disconnected_at |-> Never]

(* A fresh session in the lobby, its host the first player.                *)
NewSession(quiz_code, pin, host_id, delay) ==
  [pin |-> pin, quiz_code |-> quiz_code, state |-> "Lobby",
   players |-> [id \in {host_id} |-> NewPlayer],
   current_question_index |-> 0,
   question_deadline |-> 0, has_question_deadline |-> FALSE,
   auto_advance_delay_ms |-> delay]

HasPlayer(s, id) == id \in DOMAIN s.players

(* The session with this entry for a player it has (FindPlayer's pointer).  *)
WithPlayer(s, id, player) ==
  [s EXCEPT !.players = [s.players EXCEPT ![id] = player]]

CanJoin(s) == s.state = "Lobby"

CanAddPlayer(s, id) ==
  /\ s.state = "Lobby"
  /\ Cardinality(DOMAIN s.players) < MaxPlayersPerSession
  /\ ~HasPlayer(s, id)

AddPlayer(s, id) ==
  [s EXCEPT !.players =
     [p \in DOMAIN s.players \cup {id} |-> IF p = id THEN NewPlayer ELSE s.players[p]]]

FlagsCleared(players) ==
  [p \in DOMAIN players |-> [players[p] EXCEPT !.answered_current_question = FALSE]]

(* Mutant: a game may be started again.                                  *)
CanStartAgain(s) == DOMAIN s.players # {}

CanStartGame(s) == s.state = "Lobby" /\ DOMAIN s.players # {}

(* Mutant: the state is not set.                                         *)
StartedStillLobby(s) ==
  [s EXCEPT !.current_question_index = 0, !.players = FlagsCleared(s.players)]

StartedGame(s) ==
  [s EXCEPT !.state = "Running", !.current_question_index = 0,
            !.players = FlagsCleared(s.players)]

(* Mutant: the answered flag is not looked at.                           *)
CanSubmitAgain(s, id) == s.state = "Running" /\ HasPlayer(s, id)

CanSubmitAnswer(s, id) ==
  /\ s.state = "Running"
  /\ HasPlayer(s, id)
  /\ ~s.players[id].answered_current_question

(* Mutant: the points replace the score.                                 *)
RecordLastPoints(s, id, points) ==
  WithPlayer(s, id, [s.players[id] EXCEPT !.answered_current_question = TRUE,
                                          !.score = points])

(* RecordAnswer, and the points added to the score under the same lock.    *)
RecordAnswer(s, id, points) ==
  WithPlayer(s, id, [s.players[id] EXCEPT !.answered_current_question = TRUE,
                                          !.score = @ + points])

(* Mutant: a lobby can be advanced.                                      *)
CanAdvanceLobby(s) == s.state # "Finished"

(* Mutant: a finished game can be advanced.                              *)
CanAdvanceFinished(s) == s.state # "Lobby"

CanAdvance(s) == s.state = "Running"

(* Mutant: those who have answered stay marked.                          *)
AdvanceKeepsFlags(s, total_questions) ==
  [s EXCEPT !.current_question_index = @ + 1,
            !.state = IF s.current_question_index + 1 >= total_questions
                      THEN "Finished" ELSE @]

AdvanceToNextQuestion(s, total_questions) ==
  [s EXCEPT !.current_question_index = @ + 1,
            !.players = FlagsCleared(s.players),
            !.state = IF s.current_question_index + 1 >= total_questions
                      THEN "Finished" ELSE @]

RemovePlayers(s, ids) ==
  [s EXCEPT !.players = [p \in DOMAIN s.players \ ids |-> s.players[p]]]

(* Mutant: the instant is not recorded.                                  *)
DisconnectWithoutTime(s, id, now) ==
  WithPlayer(s, id, [s.players[id] EXCEPT !.connected = FALSE])

DisconnectPlayer(s, id, now) ==
  WithPlayer(s, id, [s.players[id] EXCEPT !.connected = FALSE, !.disconnected_at = now])

ReconnectPlayer(s, id) ==
  WithPlayer(s, id, [s.players[id] EXCEPT !.connected = TRUE, !.disconnected_at = Never])

(* The deadline of a question that starts now.                             *)
WithDeadline(s, deadline) ==
  [s EXCEPT !.question_deadline = deadline, !.has_question_deadline = TRUE]

(* BuildLeaderboard: the score of everyone in the session.  It is sent     *)
(* sorted by score and id, an order the scores determine.                  *)
Board(s) == [p \in DOMAIN s.players |-> s.players[p].score]

(* Mutant: a millisecond too early.                                      *)
LongGoneEarly(s, now, timeout) ==
  {p \in DOMAIN s.players :
     /\ ~s.players[p].connected
     /\ s.players[p].disconnected_at # Never
     /\ now - s.players[p].disconnected_at >= timeout - 1}

(* The players a cleanup that read the clock at "now" takes for gone.      *)
LongGone(s, now, timeout) ==
  {p \in DOMAIN s.players :
     /\ ~s.players[p].connected
     /\ s.players[p].disconnected_at # Never
     /\ now - s.players[p].disconnected_at >= timeout}
=============================================================================
