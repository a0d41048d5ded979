--------------------------- MODULE SessionManager ---------------------------
(***************************************************************************)
(* server/services/session_manager.cpp: the sessions of the server and the *)
(* operations that many threads call on them at once.                      *)
(*                                                                         *)
(* An operation looks the entry up under the global mutex and works on it  *)
(* under the entry's own mutex.  No entry is ever erased, so the lookup    *)
(* cannot be invalidated in between and both are one step.  The event is   *)
(* formed in that step but broadcast only after the unlock, a step of its  *)
(* own: "pending" holds what each thread has formed and not yet sent.      *)
(* A call the code refuses changes nothing and is no step.                 *)
(*                                                                         *)
(* Session ids come from a counter that only grows: "sessions" is the      *)
(* sequence of the sessions in the order of their ids.                     *)
(***************************************************************************)
EXTENDS QuizRegistry, Session, Scoring

CONSTANTS
  Threads,           \* the io_context threads that run handlers
  Answers,           \* the answers clients send
  ReconnectTimeout,  \* ReconnectTimeoutMs of main.cpp
  Droppers,          \* bound: the players whose connection may break
  MaxSessions,       \* bound: sessions created
  MaxTime            \* bound: the latest instant a disconnection may be due

Answer == [selected_indices : Seq(Nat), time_since_question_start_ms : Int]

ASSUME ManagerAssumption ==
  /\ Answers \subseteq Answer
  /\ ReconnectTimeout \in Nat
  /\ Droppers \subseteq PlayerIds
  /\ MaxSessions \in Nat
  /\ MaxTime \in Nat

VARIABLES
  sessions,  \* sessions_, by id
  now,       \* the steady clock, in milliseconds
  pending,   \* per thread, the event it has formed and not yet broadcast
  cleanup,   \* the run of CleanupDisconnectedPlayers in progress
  ledger,    \* history: per session, the answers that were accepted
  view       \* history: per session, what the broadcasts have told clients

managerVars == <<quizzes, sessions, now, pending, cleanup, ledger, view>>

-----------------------------------------------------------------------------
(* Events (server/events/game_events.hpp), as far as a property reads them. *)

Sids == DOMAIN sessions

Quiet == [kind |-> "Quiet"]

QuestionStarted(s, i) == [kind |-> "QuestionStarted", session |-> s, question |-> i]
Leaderboard(s, b)     == [kind |-> "Leaderboard", session |-> s, board |-> b]
GameFinished(s, b)    == [kind |-> "GameFinished", session |-> s, board |-> b]
PlayerJoined(s, p)    == [kind |-> "PlayerJoined", session |-> s, player |-> p]
PlayerLeft(s, p)      == [kind |-> "PlayerLeft", session |-> s, player |-> p]

(* A function from some of the player ids to T.                            *)
IsMap(f, T) == DOMAIN f \subseteq PlayerIds /\ f \in [DOMAIN f -> T]

IsSeq(f) == f \in Seq({f[i] : i \in DOMAIN f})

IsEvent(e) ==
  \/ e \in [kind : {"Quiet"}]
  \/ e \in [kind : {"QuestionStarted"}, session : Sids, question : Nat]
  \/ e \in [kind : {"PlayerJoined", "PlayerLeft"}, session : Sids, player : PlayerIds]
  \/ /\ e \in [kind : {"Leaderboard", "GameFinished"}, session : Sids, board : {e.board}]
     /\ IsMap(e.board, Int)

(* What the clients of a session have been told: the last question, the    *)
(* last board, the final boards (one per GameFinished), and who has left   *)
(* and not been announced again since.                                     *)
NoBoard == [p \in {} |-> 0]
Unseen == [question |-> -1, board |-> NoBoard, finals |-> <<>>, left |-> {}]

Seen(v, e) ==
  CASE e.kind = "QuestionStarted" -> [v EXCEPT !.question = e.question]
    [] e.kind = "Leaderboard"     -> [v EXCEPT !.board = e.board]
    [] e.kind = "GameFinished"    -> [v EXCEPT !.board = e.board,
                                               !.finals = Append(@, e.board)]
    [] e.kind = "PlayerJoined"    -> [v EXCEPT !.left = @ \ {e.player}]
    [] e.kind = "PlayerLeft"      -> [v EXCEPT !.left = @ \cup {e.player}]

(* The clients of a session are sent an event.                             *)
Tell(e) == view' = [view EXCEPT ![e.session] = Seen(@, e)]

-----------------------------------------------------------------------------
NotCleaning == [stage |-> "off", now |-> 0, todo |-> {}, left |-> {}]

ManagerInit ==
  /\ RegistryInit
  /\ sessions = <<>>
  /\ now = 0
  /\ pending = [t \in Threads |-> Quiet]
  /\ cleanup = NotCleaning
  /\ ledger = <<>>
  /\ view = <<>>

QuestionsOf(s) == quizzes[sessions[s].quiz_code].questions

CurrentQuestion(s) == QuestionsOf(s)[sessions[s].current_question_index + 1]

(* A thread serves one call at a time.                                     *)
Free(t) == pending[t] = Quiet

Update(s, session) == sessions' = [sessions EXCEPT ![s] = session]

Emit(t, event) == pending' = [pending EXCEPT ![t] = event]

-----------------------------------------------------------------------------
StoreQuiz(quiz) ==
  /\ CreateQuiz(quiz)
  /\ UNCHANGED <<sessions, now, pending, cleanup, ledger, view>>

CreateSession(t, quiz_code, host_id, pin, delay) ==
  /\ Free(t)
  /\ Len(sessions) < MaxSessions
  /\ HasQuiz(quiz_code)
  /\ sessions' = Append(sessions, NewSession(quiz_code, pin, host_id, delay))
  /\ ledger' = Append(ledger, {})
  /\ view' = Append(view, Unseen)
  /\ Emit(t, PlayerJoined(Len(sessions) + 1, host_id))
  /\ UNCHANGED <<quizzes, now, cleanup>>

JoinAsPlayer(t, s, pin, id) ==
  /\ Free(t)
  /\ sessions[s].pin = pin
  /\ CanJoin(sessions[s])
  /\ CanAddPlayer(sessions[s], id)
  /\ Update(s, AddPlayer(sessions[s], id))
  /\ Emit(t, PlayerJoined(s, id))
  /\ UNCHANGED <<quizzes, now, cleanup, ledger, view>>

(* PlayerLeft goes out even when the id was no player of the session.      *)
Leave(t, s, id) ==
  /\ Free(t)
  /\ Update(s, RemovePlayers(sessions[s], {id}))
  /\ Emit(t, PlayerLeft(s, id))
  /\ UNCHANGED <<quizzes, now, cleanup, ledger, view>>

StartGame(t, s) ==
  LET started == StartedGame(sessions[s])
      limit   == QuestionsOf(s)[started.current_question_index + 1].time_limit_ms
  IN  /\ Free(t)
      /\ HasQuiz(sessions[s].quiz_code) /\ QuestionsOf(s) # <<>>
      /\ CanStartGame(sessions[s])
      /\ Update(s, WithDeadline(started, now + limit))
      /\ Emit(t, QuestionStarted(s, started.current_question_index))
      /\ UNCHANGED <<quizzes, now, cleanup, ledger, view>>

(* Mutant: the limit runs from the old deadline.                         *)
NextQuestionChained(t, s) ==
  LET next  == AdvanceToNextQuestion(sessions[s], Len(QuestionsOf(s)))
      index == next.current_question_index
      ends  == sessions[s].question_deadline + QuestionsOf(s)[index + 1].time_limit_ms
  IN  /\ Free(t) /\ CanAdvance(sessions[s])
      /\ \/ /\ next.state = "Finished"
            /\ Update(s, next) /\ Emit(t, GameFinished(s, Board(next)))
         \/ /\ next.state # "Finished"
            /\ Update(s, WithDeadline(next, ends)) /\ Emit(t, QuestionStarted(s, index))
      /\ UNCHANGED <<quizzes, now, cleanup, ledger, view>>

(* A finished game keeps has_question_deadline and the old deadline.       *)
NextQuestion(t, s) ==
  LET next     == AdvanceToNextQuestion(sessions[s], Len(QuestionsOf(s)))
      index    == next.current_question_index
      deadline == now + QuestionsOf(s)[index + 1].time_limit_ms
  IN  /\ Free(t)
      /\ HasQuiz(sessions[s].quiz_code) /\ QuestionsOf(s) # <<>>
      /\ CanAdvance(sessions[s])
      /\ \/ /\ next.state = "Finished"
            /\ Update(s, next)
            /\ Emit(t, GameFinished(s, Board(next)))
         \/ /\ next.state # "Finished"
            /\ Update(s, WithDeadline(next, deadline))
            /\ Emit(t, QuestionStarted(s, index))
      /\ UNCHANGED <<quizzes, now, cleanup, ledger, view>>

(* The answer names no question: it is scored against the current one.     *)
(* (Bound: the additions of ints, here and in CalculatePoints, do not      *)
(* overflow; what they give then is undefined.)                            *)
SubmitAnswer(t, s, id, answer) ==
  LET session  == sessions[s]
      points   == CalculatePoints(CurrentQuestion(s), answer)
      answered == RecordAnswer(session, id, points)
      entry    == [player |-> id, question |-> session.current_question_index,
                   points |-> points]
  IN  /\ Free(t)
      /\ HasQuiz(session.quiz_code)
      /\ CanSubmitAnswer(session, id)
      /\ session.current_question_index < Len(QuestionsOf(s))
      /\ {points, session.players[id].score + points} \subseteq IntRange
      /\ Update(s, answered)
      /\ ledger' = [ledger EXCEPT ![s] = @ \cup {entry}]
      /\ Emit(t, Leaderboard(s, Board(answered)))
      /\ UNCHANGED <<quizzes, now, cleanup, view>>

(* Disconnect and Reconnect broadcast nothing.                             *)
Disconnect(s, id) ==
  /\ now + ReconnectTimeout <= MaxTime
  /\ HasPlayer(sessions[s], id)
  /\ Update(s, DisconnectPlayer(sessions[s], id, now))
  /\ UNCHANGED <<quizzes, now, pending, cleanup, ledger, view>>

Reconnect(s, id) ==
  /\ HasPlayer(sessions[s], id)
  /\ Update(s, ReconnectPlayer(sessions[s], id))
  /\ UNCHANGED <<quizzes, now, pending, cleanup, ledger, view>>

(* A thread sends the event it formed, in no order with the others.        *)
Broadcast(t) ==
  /\ ~Free(t)
  /\ Tell(pending[t])
  /\ Emit(t, Quiet)
  /\ UNCHANGED <<quizzes, sessions, now, cleanup, ledger>>

-----------------------------------------------------------------------------
(* Mutant: the timeout is taken off the clock, as it is once more below. *)
CleanupBeginBack ==
  /\ cleanup.stage = "off"
  /\ cleanup' = [NotCleaning EXCEPT !.stage = "dated", !.now = now - ReconnectTimeout]
  /\ UNCHANGED <<quizzes, sessions, now, pending, ledger, view>>

(* CleanupDisconnectedPlayers: the clock is read first, then the list of   *)
(* sessions copied, then each session visited under its own mutex.         *)
CleanupBegin ==
  /\ cleanup.stage = "off"
  /\ cleanup' = [NotCleaning EXCEPT !.stage = "dated", !.now = now]
  /\ UNCHANGED <<quizzes, sessions, now, pending, ledger, view>>

CleanupList ==
  /\ cleanup.stage = "dated"
  /\ cleanup' = [cleanup EXCEPT !.stage = "listed", !.todo = Sids]
  /\ UNCHANGED <<quizzes, sessions, now, pending, ledger, view>>

CleanupSession(s) ==
  LET gone == LongGone(sessions[s], cleanup.now, ReconnectTimeout)
  IN  /\ cleanup.left = {} /\ s \in cleanup.todo
      /\ Update(s, RemovePlayers(sessions[s], gone))
      /\ cleanup' = [cleanup EXCEPT !.todo = @ \ {s}, !.left = {s} \X gone]
      /\ UNCHANGED <<quizzes, now, pending, ledger, view>>

(* Mutant: a removal is not announced.                                   *)
CleanupSilently(s, id) ==
  /\ <<s, id>> \in cleanup.left
  /\ cleanup' = [cleanup EXCEPT !.left = @ \ {<<s, id>>}]
  /\ UNCHANGED <<quizzes, sessions, now, pending, ledger, view>>

(* PlayerLeft for one of the players just removed.                         *)
CleanupAnnounce(s, id) ==
  /\ <<s, id>> \in cleanup.left
  /\ cleanup' = [cleanup EXCEPT !.left = @ \ {<<s, id>>}]
  /\ Tell(PlayerLeft(s, id))
  /\ UNCHANGED <<quizzes, sessions, now, pending, ledger>>

CleanupEnd ==
  /\ cleanup.stage = "listed" /\ cleanup.left = {} /\ cleanup.todo = {}
  /\ cleanup' = NotCleaning
  /\ UNCHANGED <<quizzes, sessions, now, pending, ledger, view>>

CleanupStep ==
  \/ CleanupList
  \/ \E s \in Sids : CleanupSession(s)
  \/ \E s \in Sids, id \in PlayerIds : CleanupAnnounce(s, id)
  \/ CleanupEnd

-----------------------------------------------------------------------------
(* The instants the code compares the clock with.  Once they have all      *)
(* passed, more time changes no comparison: the clock may rest.            *)
SessionInstants ==
  {sessions[s].question_deadline : s \in Sids}
    \cup UNION {{sessions[s].players[p].disconnected_at + ReconnectTimeout :
                   p \in {q \in DOMAIN sessions[s].players :
                            sessions[s].players[q].disconnected_at # Never}} : s \in Sids}

TimePasses(instants) ==
  /\ \E i \in instants : now < i
  /\ now' = now + 1
  /\ UNCHANGED <<quizzes, sessions, pending, cleanup, ledger, view>>

ManagerNext ==
  \/ \E quiz \in QuizDrafts : StoreQuiz(quiz)
  \/ \E t \in Threads :
       \/ \E code \in DOMAIN quizzes, host \in PlayerIds, pin \in Pins, delay \in Delays :
            CreateSession(t, code, host, pin, delay)
       \/ \E s \in Sids :
            \/ \E pin \in Pins, id \in PlayerIds : JoinAsPlayer(t, s, pin, id)
            \/ \E id \in PlayerIds : Leave(t, s, id)
            \/ StartGame(t, s)
            \/ NextQuestion(t, s)
            \/ \E id \in PlayerIds, answer \in Answers : SubmitAnswer(t, s, id, answer)
       \/ Broadcast(t)
  \/ \E s \in Sids, id \in Droppers : Disconnect(s, id) \/ Reconnect(s, id)
  \/ CleanupBegin
  \/ CleanupStep
  \/ TimePasses(SessionInstants)

ManagerSpec == ManagerInit /\ [][ManagerNext]_managerVars

(* A handler that has formed an event runs on to its broadcast; the tick   *)
(* handler re-arms itself for ever and every tick ends with a cleanup; the *)
(* steady clock does not stop.                                             *)
ManagerFairness ==
  /\ \A t \in Threads : WF_managerVars(Broadcast(t))
  /\ WF_managerVars(CleanupBegin)
  /\ WF_managerVars(CleanupStep)
  /\ WF_managerVars(TimePasses(SessionInstants))

ManagerFairSpec == ManagerSpec /\ ManagerFairness

-----------------------------------------------------------------------------
(* Properties                                                              *)

IsSession(s) ==
  /\ s \in [pin : Pins, quiz_code : Nat, state : SessionState, players : {s.players},
            current_question_index : Nat, question_deadline : Nat,
            has_question_deadline : BOOLEAN, auto_advance_delay_ms : Delays]
  /\ IsMap(s.players, Player)

Entry == [player : PlayerIds, question : Nat, points : Int]

IsView(v) ==
  /\ v \in [question : Nat \cup {-1}, board : {v.board}, finals : {v.finals},
            left : SUBSET PlayerIds]
  /\ IsMap(v.board, Int)
  /\ IsSeq(v.finals)
  /\ \A i \in DOMAIN v.finals : IsMap(v.finals[i], Int)

QuizzesTyped == quizzes \in Seq(QuizType)

SessionsTyped == IsSeq(sessions) /\ \A s \in Sids : IsSession(sessions[s])

PendingTyped ==
  /\ pending \in [Threads -> {pending[t] : t \in Threads}]
  /\ \A t \in Threads : IsEvent(pending[t])

CleanupTyped ==
  cleanup \in [stage : {"off", "dated", "listed"}, now : 0..now,
               todo : SUBSET Sids, left : SUBSET (Sids \X PlayerIds)]

ViewTyped == IsSeq(view) /\ DOMAIN view = Sids /\ \A s \in Sids : IsView(view[s])

(* Every variable has the shape the code's types give it, and what is kept *)
(* per session covers the same sessions.                                   *)
TypeOK ==
  /\ QuizzesTyped /\ SessionsTyped /\ now \in Nat
  /\ PendingTyped /\ CleanupTyped
  /\ ledger \in [Sids -> SUBSET Entry] /\ ViewTyped

(* A session's question index always names a question of its quiz while    *)
(* the game runs, so questions.at() in StartGame, NextQuestion and         *)
(* SubmitAnswer never throws; it is 0 in the lobby and one past the last   *)
(* question at the end, however NextQuestion calls race.                   *)
IndexFitsState(session) ==
  LET index == session.current_question_index
      total == Len(quizzes[session.quiz_code].questions)
  IN  /\ HasQuiz(session.quiz_code)
      /\ \/ session.state = "Lobby" /\ index = 0
         \/ session.state = "Running" /\ index < total
         \/ session.state = "Finished" /\ index = total

QuestionInRange == \A s \in Sids : IndexFitsState(sessions[s])

(* A participant is credited with at most one answer per question, over    *)
(* any interleaving of submissions, question changes, leaves and cleanups  *)
(* (answered_current_question is cleared by several operations).           *)
OneAnswerPerQuestion ==
  \A s \in Sids : \A e1, e2 \in ledger[s] :
    e1.player = e2.player /\ e1.question = e2.question => e1 = e2

FiniteSums == INSTANCE FiniteSetsExt

(* The score shown for a player is the sum over the questions of what each *)
(* accepted answer earned: no update is lost or counted twice.             *)
ScoreIsSumOfAnswers ==
  \A s \in Sids : \A p \in DOMAIN sessions[s].players :
    sessions[s].players[p].score =
      FiniteSums!MapThenSumSet(LAMBDA e : e.points, {e \in ledger[s] : e.player = p})

(* GameFinished goes out at most once per session and its final board is   *)
(* true for good: it agrees with the score of everyone still in the        *)
(* session, although it is sent after the lock was released and answers    *)
(* may be in flight on other threads.                                      *)
FinalBoardsOf(s) ==
  {view[s].finals[i] : i \in DOMAIN view[s].finals}
    \cup {pending[t].board : t \in {u \in Threads : /\ pending[u].kind = "GameFinished"
                                                    /\ pending[u].session = s}}

FinalStandings ==
  \A s \in Sids :
    /\ Len(view[s].finals) <= 1
    /\ Len(view[s].finals) = 1 =>
         \A t \in Threads : ~(pending[t].kind = "GameFinished" /\ pending[t].session = s)
    /\ FinalBoardsOf(s) # {} => sessions[s].state = "Finished"
    /\ \A b \in FinalBoardsOf(s) : \A p \in DOMAIN sessions[s].players :
         p \in DOMAIN b /\ b[p] = sessions[s].players[p].score

MovesOn(old, new) ==
  /\ <<old.state, new.state>> \in {<<"Lobby", "Lobby">>, <<"Lobby", "Running">>,
                                   <<"Running", "Running">>, <<"Running", "Finished">>,
                                   <<"Finished", "Finished">>}
  /\ new.current_question_index - old.current_question_index \in {0, 1}
  /\ old.state = "Finished" => new.current_question_index = old.current_question_index
  /\ old.state # "Lobby" => DOMAIN new.players \subseteq DOMAIN old.players
  /\ \A p \in DOMAIN new.players \cap DOMAIN old.players :
       old.state # "Running" => new.players[p].score = old.players[p].score

(* Lobby, Running, Finished, in this order only; the question index never  *)
(* goes back and moves by one; scores change only while the game runs;     *)
(* once finished a session keeps its index, and only in the lobby can      *)
(* somebody new appear.                                                    *)
GameOnlyMovesForward ==
  [][\A s \in Sids : s \in DOMAIN sessions' /\ MovesOn(sessions[s], sessions'[s])]_managerVars

(* The cleanup works with a clock it read before it took any lock, on a    *)
(* list of sessions that may be stale.  It still removes only players who, *)
(* at the moment of their removal, are disconnected and have been for the  *)
(* whole reconnection timeout: one who came back in time is safe.          *)
CleanupSparesTheRecent ==
  [][\A s \in Sids : \A p \in DOMAIN sessions[s].players \ DOMAIN sessions'[s].players :
       cleanup' # cleanup =>
         /\ ~sessions[s].players[p].connected
         /\ now - sessions[s].players[p].disconnected_at >= ReconnectTimeout]_managerVars

(* A player who is disconnected comes back or is removed in the end, and   *)
(* the removal is announced: the clients have been sent PlayerLeft, though *)
(* the cleanup broadcasts it after the lock is released.                   *)
Disconnected(s, p) ==
  s \in Sids /\ HasPlayer(sessions[s], p) /\ ~sessions[s].players[p].connected

BackOrAnnounced(s, p) ==
  /\ s \in Sids
  /\ IF HasPlayer(sessions[s], p) THEN sessions[s].players[p].connected
                                 ELSE p \in view[s].left

GoneAreRemoved ==
  \A s \in 1..MaxSessions, p \in Droppers : Disconnected(s, p) ~> BackOrAnnounced(s, p)

-----------------------------------------------------------------------------
(* What the documents say and the code does not do (see the findings).     *)

Settled(s) == \A t \in Threads : ~Free(t) => pending[t].session # s

(* docs/about.md:40: the participants see the question in step with the    *)
(* server.  With no broadcast of the session outstanding, the last         *)
(* QuestionStarted they were sent is the question the session is at.       *)
ClientsSeeCurrentQuestion ==
  \A s \in Sids : Settled(s) /\ sessions[s].state = "Running" =>
    view[s].question = sessions[s].current_question_index
=============================================================================
