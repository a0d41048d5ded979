-------------------------- MODULE GameServerProofs --------------------------
(***************************************************************************)
(* What holds of GameServer for any number of workers, sessions, quizzes   *)
(* and questions: the timers of the running games.                         *)
(*                                                                         *)
(* The controller and the tick handler work in steps with no lock around   *)
(* them; the argument is the account of who holds the next move of a game  *)
(* (KeepsMoving), which every single step passes on.                       *)
(***************************************************************************)
EXTENDS GameServer, SessionManagerProofs

(* The events a tick may hold.                                             *)
TickerEvent ==
  [type : {"QuestionDeadline"}, event : {"QuestionTimeout", "TimerUpdate"}, session : Sids]
    \cup [type : {"AutoAdvance"}, event : {"QuestionTimeout"}, session : Sids]

Stages == {"rest", "clock", "events", "auto", "set", "next", "cleanup"}

(* The tick handler holds events only while it works them off, and a       *)
(* session only for the step that follows the event.                       *)
TickerSound ==
  /\ ticker \in [stage : Stages, at : Nat, events : SUBSET TickerEvent, session : Nat]
  /\ ticker.stage \notin {"events", "auto", "set", "next"} => ticker.events = {}
  /\ ticker.stage \in {"auto", "set", "next"} => ticker.session \in Sids

(* A thread in a call of the controller has a session it is about.         *)
CallsSound == \A t \in Threads : call[t].stage # "idle" => call[t].session \in Sids

(* A lobby is quiet, and nobody is on the way to arm its timer.            *)
QuietLobby(s) ==
  sessions[s].state = "Lobby" =>
    /\ s \notin DOMAIN deadlines \cup DOMAIN auto_advance_deadlines
    /\ ~InTickersHands(s)
    /\ \A k \in DOMAIN timeouts : k[1] # s
    /\ \A t \in Threads : call[t].session = s => call[t].stage \notin {"fetch", "arm"}

(* Past the lobby a session has a deadline, within the limits.             *)
Deadlined(s) ==
  sessions[s].state # "Lobby" =>
    /\ sessions[s].has_question_deadline
    /\ WithinLimits(s, sessions[s].question_deadline)

(* Who holds the next move of a running game.  This asks more than         *)
(* TimerNotLost does: a timeout in the hands of the tick handler counts    *)
(* only while something is still to come of it, an automatic advance; with *)
(* none, the announcement must be of the question the game is at.          *)
Moving(s) ==
  Running(s) =>
    \/ s \in DOMAIN deadlines
    \/ BeingArmed(s)
    \/ ticker.stage = "next" /\ ticker.session = s
    \/ \E e \in ticker.events : e.session = s /\ e.event = "QuestionTimeout"
    \/ /\ sessions[s].auto_advance_delay_ms > 0
       /\ \/ s \in DOMAIN auto_advance_deadlines
          \/ ticker.stage \in {"auto", "set"} /\ ticker.session = s
    \/ /\ sessions[s].auto_advance_delay_ms <= 0
       /\ <<s, sessions[s].current_question_index>> \in DOMAIN timeouts

TimerInv ==
  /\ ServerTypeOK /\ TickerSound /\ CallsSound
  /\ \A s \in Sids : QuietLobby(s) /\ Deadlined(s) /\ Moving(s)
  /\ ArmedWithinLimits

-----------------------------------------------------------------------------
(* What a step of the manager may do to the games.                         *)

(* The session keeps what its timers depend on.                            *)
SameGame(s) ==
  /\ sessions'[s].quiz_code = sessions[s].quiz_code
  /\ sessions'[s].state = sessions[s].state
  /\ sessions'[s].current_question_index = sessions[s].current_question_index
  /\ sessions'[s].question_deadline = sessions[s].question_deadline
  /\ sessions'[s].has_question_deadline = sessions[s].has_question_deadline
  /\ sessions'[s].auto_advance_delay_ms = sessions[s].auto_advance_delay_ms

(* Nothing is forgotten and time does not go back.                         *)
NothingLost ==
  /\ Sids \subseteq Sids'
  /\ now' >= now
  /\ \A code \in DOMAIN quizzes : code \in DOMAIN quizzes' /\ quizzes'[code] = quizzes[code]

(* No game starts or advances.                                             *)
GamesRest ==
  /\ NothingLost
  /\ \A s \in Sids : SameGame(s)
  /\ \A s \in Sids' \ Sids : sessions'[s].state = "Lobby"

(* The game of s starts or goes on to its next question, or to its end.    *)
GameGoesOn(s) ==
  /\ Sids' = Sids /\ UNCHANGED <<quizzes, now>>
  /\ \A r \in Sids \ {s} : sessions'[r] = sessions[r]
  /\ sessions'[s].state # "Lobby"
  /\ sessions'[s].quiz_code = sessions[s].quiz_code
  /\ sessions'[s].auto_advance_delay_ms = sessions[s].auto_advance_delay_ms
  /\ sessions'[s].current_question_index >= sessions[s].current_question_index
  /\ sessions'[s].has_question_deadline
  /\ WithinLimits(s, sessions[s].question_deadline)'

(* An update of one session that leaves its game alone.                    *)
LEMMA UpdateRests ==
  ASSUME IInv, NEW s \in Sids, NEW x, Update(s, x),
         x.quiz_code = sessions[s].quiz_code, x.state = sessions[s].state,
         x.current_question_index = sessions[s].current_question_index,
         x.question_deadline = sessions[s].question_deadline,
         x.has_question_deadline = sessions[s].has_question_deadline,
         x.auto_advance_delay_ms = sessions[s].auto_advance_delay_ms,
         UNCHANGED <<quizzes, now>>
  PROVE  GamesRest
<1>1. /\ Sids' = Sids /\ sessions'[s] = x
      /\ \A r \in Sids : r # s => sessions'[r] = sessions[r]
  BY SeqExcept DEF IInv, TypeOK, SessionsTyped, Update, Sids
<1>2. \A r \in Sids : SameGame(r)
  BY <1>1 DEF SameGame
<1>3. now \in Nat
  BY DEF IInv, TypeOK
<1> QED
  BY <1>1, <1>2, <1>3 DEF GamesRest, NothingLost

(* Joining, leaving, answering, losing and finding a connection.           *)
LEMMA PlayersRest ==
  ASSUME IInv, NEW t, NEW s \in Sids, NEW id, NEW pin, NEW answer,
         \/ JoinAsPlayer(t, s, pin, id) \/ Leave(t, s, id)
         \/ SubmitAnswer(t, s, id, answer)
         \/ Disconnect(s, id) \/ Reconnect(s, id)
  PROVE  GamesRest
<1>1. IsSession(sessions[s])
  BY DEF IInv, TypeOK, SessionsTyped
<1>2. ASSUME JoinAsPlayer(t, s, pin, id) PROVE GamesRest
  <2>1. PICK x : x = AddPlayer(sessions[s], id)
    OBVIOUS
  <2>2. Update(s, x) /\ UNCHANGED <<quizzes, now>>
    BY <1>2, <2>1 DEF JoinAsPlayer
  <2> QED
    BY <1>1, <2>1, <2>2, UpdateRests DEF AddPlayer, IsSession
<1>3. ASSUME Leave(t, s, id) PROVE GamesRest
  <2>1. PICK x : x = RemovePlayers(sessions[s], {id})
    OBVIOUS
  <2>2. Update(s, x) /\ UNCHANGED <<quizzes, now>>
    BY <1>3, <2>1 DEF Leave
  <2> QED
    BY <1>1, <2>1, <2>2, UpdateRests DEF RemovePlayers, IsSession
<1>4. ASSUME SubmitAnswer(t, s, id, answer) PROVE GamesRest
  <2>1. PICK points : points = CalculatePoints(CurrentQuestion(s), answer)
    OBVIOUS
  <2>2. PICK x : x = RecordAnswer(sessions[s], id, points)
    OBVIOUS
  <2>3. Update(s, x) /\ UNCHANGED <<quizzes, now>>
    BY <1>4, <2>1, <2>2 DEF SubmitAnswer
  <2> QED
    BY <1>1, <2>2, <2>3, UpdateRests DEF RecordAnswer, WithPlayer, IsSession
<1>5. ASSUME Disconnect(s, id) PROVE GamesRest
  <2>1. PICK x : x = DisconnectPlayer(sessions[s], id, now)
    OBVIOUS
  <2>2. Update(s, x) /\ UNCHANGED <<quizzes, now>>
    BY <1>5, <2>1 DEF Disconnect
  <2> QED
    BY <1>1, <2>1, <2>2, UpdateRests DEF DisconnectPlayer, WithPlayer, IsSession
<1>6. ASSUME Reconnect(s, id) PROVE GamesRest
  <2>1. PICK x : x = ReconnectPlayer(sessions[s], id)
    OBVIOUS
  <2>2. Update(s, x) /\ UNCHANGED <<quizzes, now>>
    BY <1>6, <2>1 DEF Reconnect
  <2> QED
    BY <1>1, <2>1, <2>2, UpdateRests DEF ReconnectPlayer, WithPlayer, IsSession
<1> QED
  BY <1>2, <1>3, <1>4, <1>5, <1>6

(* The operations that leave the sessions as they are.                     *)
LEMMA OthersRest ==
  ASSUME IInv, UNCHANGED sessions,
         \/ UNCHANGED <<quizzes, now>>
         \/ \E quiz \in QuizDrafts : StoreQuiz(quiz)
         \/ \E instants : TimePasses(instants)
  PROVE  GamesRest
<1>1. now \in Nat /\ now' >= now
  BY DEF IInv, TypeOK, StoreQuiz, TimePasses
<1>2. Sids' = Sids /\ \A s \in Sids : SameGame(s)
  BY DEF Sids, SameGame
<1>3. \A code \in DOMAIN quizzes : code \in DOMAIN quizzes' /\ quizzes'[code] = quizzes[code]
  <2>1. ASSUME NEW quiz \in QuizDrafts, StoreQuiz(quiz)
        PROVE  \A code \in DOMAIN quizzes : /\ code \in DOMAIN quizzes'
                                             /\ quizzes'[code] = quizzes[code]
    <3>1. IsSeq(quizzes)
      BY SeqIsSeq DEF IInv, TypeOK, QuizzesTyped
    <3>2. quizzes' = Append(quizzes, quiz)
      BY <2>1 DEF StoreQuiz, CreateQuiz
    <3> QED
      BY <3>1, <3>2, SeqAppend
  <2> QED
    BY <2>1 DEF TimePasses
<1> QED
  BY <1>1, <1>2, <1>3 DEF GamesRest, NothingLost

(* A new session is in the lobby.                                          *)
LEMMA CreateRests ==
  ASSUME IInv, NEW t, NEW code, NEW host, NEW pin, NEW delay,
         CreateSession(t, code, host, pin, delay)
  PROVE  GamesRest
<1>1. PICK new : new = NewSession(code, pin, host, delay)
  OBVIOUS
<1>2. IsSeq(sessions) /\ now \in Nat /\ sessions' = Append(sessions, new)
      /\ UNCHANGED <<quizzes, now>>
  BY <1>1 DEF IInv, TypeOK, SessionsTyped, CreateSession
<1>3. /\ Sids' = Sids \cup {Len(sessions) + 1} /\ sessions'[Len(sessions) + 1] = new
      /\ \A s \in Sids : sessions'[s] = sessions[s]
  BY <1>2, SeqAppend DEF Sids
<1>4. new.state = "Lobby"
  BY <1>1 DEF NewSession
<1>5. \A s \in Sids : SameGame(s)
  BY <1>3 DEF SameGame
<1> QED
  BY <1>2, <1>3, <1>4, <1>5 DEF GamesRest, NothingLost

(* A cleanup removes players and nothing else.                             *)
LEMMA CleanupRests ==
  ASSUME IInv, CleanupBegin \/ CleanupStep
  PROVE  GamesRest
<1>1. ASSUME NEW s \in Sids, CleanupSession(s) PROVE GamesRest
  <2>1. PICK gone : gone = LongGone(sessions[s], cleanup.now, ReconnectTimeout)
    OBVIOUS
  <2>2. PICK x : x = RemovePlayers(sessions[s], gone)
    OBVIOUS
  <2>3. Update(s, x) /\ UNCHANGED <<quizzes, now>>
    BY <1>1, <2>1, <2>2 DEF CleanupSession
  <2>4. IsSession(sessions[s])
    BY DEF IInv, TypeOK, SessionsTyped
  <2> QED
    BY <2>2, <2>3, <2>4, UpdateRests DEF RemovePlayers, IsSession
<1>2. ASSUME \/ CleanupBegin \/ CleanupList \/ CleanupEnd
             \/ \E s \in Sids, id \in PlayerIds : CleanupAnnounce(s, id)
      PROVE  GamesRest
  <2>1. UNCHANGED <<sessions, quizzes, now>>
    BY <1>2 DEF CleanupBegin, CleanupList, CleanupAnnounce, CleanupEnd
  <2> QED
    BY <2>1, OthersRest
<1> QED
  BY <1>1, <1>2 DEF CleanupStep

-----------------------------------------------------------------------------
(* Limits.                                                                 *)

(* Every question of a stored quiz has a limit.                            *)
LEMMA LimitsOf ==
  ASSUME IInv, NEW code \in DOMAIN quizzes
  PROVE  LET questions == quizzes[code].questions
         IN  /\ Len(questions) \in Nat /\ DOMAIN questions = 1..Len(questions)
             /\ \A i \in DOMAIN questions : questions[i].time_limit_ms \in Nat
<1> DEFINE questions == quizzes[code].questions
<1>1. quizzes[code] \in QuizType
  BY ElementOfSeq, LenProperties DEF IInv, TypeOK, QuizzesTyped
<1>2. questions \in Seq(Question)
  BY <1>1 DEF QuizType
<1>3. Len(questions) \in Nat /\ DOMAIN questions = 1..Len(questions)
  <2> HIDE DEF questions
  <2> QED BY <1>2, LenProperties
<1>4. \A i \in 1..Len(questions) : questions[i].time_limit_ms \in Nat
  BY StoredQuestions
<1> QED
  BY <1>3, <1>4

(* What was within the limits stays within them.                           *)
LEMMA LimitsLast ==
  ASSUME IInv, NEW s \in Sids, NEW deadline \in Nat, WithinLimits(s, deadline), NothingLost,
         sessions'[s].quiz_code = sessions[s].quiz_code,
         sessions'[s].current_question_index >= sessions[s].current_question_index,
         sessions'[s].current_question_index \in Nat, now' \in Nat
  PROVE  WithinLimits(s, deadline)'
<1>1. IsSession(sessions[s]) /\ HasQuiz(sessions[s].quiz_code) /\ now \in Nat
  BY DEF IInv, TypeOK, SessionsTyped, QuestionInRange, IndexFitsState
<1>2. QuestionsOf(s)' = QuestionsOf(s)
  BY <1>1 DEF QuestionsOf, HasQuiz, NothingLost
<1>3. PICK i \in DOMAIN QuestionsOf(s) : /\ i <= sessions[s].current_question_index + 1
                                         /\ deadline <= now + QuestionsOf(s)[i].time_limit_ms
  BY DEF WithinLimits
<1>4. i \in Nat /\ QuestionsOf(s)[i].time_limit_ms \in Nat
  BY <1>1, <1>3, LimitsOf DEF HasQuiz, QuestionsOf
<1>5. sessions[s].current_question_index \in Nat /\ now' >= now
  BY <1>1 DEF IsSession, NothingLost
<1>6. i <= sessions'[s].current_question_index + 1
  BY <1>3, <1>4, <1>5
<1>7. deadline <= now' + QuestionsOf(s)[i].time_limit_ms
  BY <1>1, <1>3, <1>4, <1>5
<1> QED
  BY <1>2, <1>6, <1>7 DEF WithinLimits

(* The deadline of a question put now is within its limits.                *)
LEMMA FreshDeadline ==
  ASSUME IInv, NEW s \in Sids, NEW x, NEW deadline, Update(s, x), UNCHANGED <<quizzes, now>>,
         x.quiz_code = sessions[s].quiz_code,
         x.current_question_index \in Nat,
         x.current_question_index < Len(QuestionsOf(s)),
         deadline = now + QuestionsOf(s)[x.current_question_index + 1].time_limit_ms
  PROVE  WithinLimits(s, deadline)'
<1>1. sessions'[s] = x
  BY SeqExcept DEF IInv, TypeOK, SessionsTyped, Update, Sids
<1>2. IsSession(sessions[s]) /\ HasQuiz(sessions[s].quiz_code) /\ now \in Nat
  BY DEF IInv, TypeOK, SessionsTyped, QuestionInRange, IndexFitsState
<1>3. QuestionsOf(s)' = QuestionsOf(s)
  BY <1>1 DEF QuestionsOf
<1>4. /\ Len(QuestionsOf(s)) \in Nat /\ DOMAIN QuestionsOf(s) = 1..Len(QuestionsOf(s))
      /\ \A i \in DOMAIN QuestionsOf(s) : QuestionsOf(s)[i].time_limit_ms \in Nat
  BY <1>2, LimitsOf DEF HasQuiz, QuestionsOf
<1>5. x.current_question_index + 1 \in DOMAIN QuestionsOf(s)
  BY <1>4
<1>6. deadline <= now + QuestionsOf(s)[x.current_question_index + 1].time_limit_ms
  BY <1>2, <1>4, <1>5
<1> QED
  BY <1>1, <1>3, <1>5, <1>6 DEF WithinLimits

-----------------------------------------------------------------------------
(* The two operations that move a game on.                                 *)

(* Putting x in place of session s moves its game on when x is past the    *)
(* lobby and has a deadline within the limits.                             *)
LEMMA UpdateGoesOn ==
  ASSUME IInv, NEW s \in Sids, NEW x, Update(s, x), UNCHANGED <<quizzes, now>>,
         x.state # "Lobby", x.has_question_deadline,
         x.quiz_code = sessions[s].quiz_code,
         x.auto_advance_delay_ms = sessions[s].auto_advance_delay_ms,
         x.current_question_index >= sessions[s].current_question_index,
         WithinLimits(s, x.question_deadline)'
  PROVE  GameGoesOn(s)
<1>1. /\ Sids' = Sids /\ sessions'[s] = x
      /\ \A r \in Sids : r # s => sessions'[r] = sessions[r]
  BY SeqExcept DEF IInv, TypeOK, SessionsTyped, Update, Sids
<1> QED
  BY <1>1 DEF GameGoesOn, WithinLimits, QuestionsOf

(* StartGame gives the first question its limit.                           *)
LEMMA StartGoesOn ==
  ASSUME IInv, NEW t, NEW s \in Sids, StartGame(t, s)
  PROVE  GameGoesOn(s)
<1>1. IsSession(sessions[s]) /\ IndexFitsState(sessions[s]) /\ HasQuiz(sessions[s].quiz_code)
  BY DEF IInv, TypeOK, SessionsTyped, QuestionInRange, IndexFitsState
<1>2. PICK started : started = StartedGame(sessions[s])
  OBVIOUS
<1>3. /\ IsSession(started) /\ started.state = "Running"
      /\ started.current_question_index = 0
      /\ started.quiz_code = sessions[s].quiz_code
      /\ started.auto_advance_delay_ms = sessions[s].auto_advance_delay_ms
  BY <1>1, <1>2, StartedGameType DEF StartedGame, IsSession
<1>4. PICK deadline : deadline = now + QuestionsOf(s)[0 + 1].time_limit_ms
  OBVIOUS
<1>5. PICK x : x = WithDeadline(started, deadline)
  OBVIOUS
<1>6. Update(s, x) /\ UNCHANGED <<quizzes, now>> /\ sessions[s].state = "Lobby"
  BY <1>2, <1>3, <1>4, <1>5 DEF StartGame, CanStartGame
<1>7. /\ x.state = "Running" /\ x.has_question_deadline /\ x.question_deadline = deadline
      /\ x.current_question_index = 0
      /\ x.quiz_code = sessions[s].quiz_code
      /\ x.auto_advance_delay_ms = sessions[s].auto_advance_delay_ms
  BY <1>3, <1>5 DEF WithDeadline, IsSession
<1>8. 0 < Len(QuestionsOf(s))
  BY <1>1, StoredQuestions DEF HasQuiz, QuestionsOf
<1>9. WithinLimits(s, deadline)'
  BY <1>4, <1>6, <1>7, <1>8, FreshDeadline
<1>10. WithinLimits(s, x.question_deadline)'
  BY <1>7, <1>9
<1>11. sessions[s].current_question_index = 0
  BY <1>1, <1>6 DEF IndexFitsState
<1> QED
  BY <1>6, <1>7, <1>10, <1>11, UpdateGoesOn

(* NextQuestion gives the next question its limit; at the end of the game  *)
(* the last deadline stands.                                               *)
LEMMA NextGoesOn ==
  ASSUME IInv, NEW t, NEW s \in Sids, Deadlined(s), NextQuestion(t, s)
  PROVE  GameGoesOn(s)
<1>1. IsSession(sessions[s]) /\ HasQuiz(sessions[s].quiz_code) /\ now \in Nat
  BY DEF IInv, TypeOK, SessionsTyped, QuestionInRange, IndexFitsState
<1>2. PICK total : total = Len(QuestionsOf(s))
  OBVIOUS
<1>3. PICK next : next = AdvanceToNextQuestion(sessions[s], total)
  OBVIOUS
<1>4. sessions[s].state = "Running" /\ UNCHANGED <<quizzes, now>>
  BY DEF NextQuestion, CanAdvance
<1>5. total \in Nat
  BY <1>1, <1>2, LimitsOf DEF HasQuiz, QuestionsOf
<1>6. /\ next.current_question_index = sessions[s].current_question_index + 1
      /\ next.quiz_code = sessions[s].quiz_code
      /\ next.auto_advance_delay_ms = sessions[s].auto_advance_delay_ms
      /\ next.has_question_deadline = sessions[s].has_question_deadline
      /\ next.question_deadline = sessions[s].question_deadline
      /\ next.state = IF next.current_question_index >= total THEN "Finished" ELSE "Running"
      /\ IsSession(next)
  <2>1. IsSession(next)
    BY <1>1, <1>3, <1>5, AdvanceType
  <2> QED
    BY <1>1, <1>3, <1>4, <2>1 DEF AdvanceToNextQuestion, IsSession
<1>7. sessions[s].current_question_index \in Nat /\ sessions[s].question_deadline \in Nat
      /\ next.current_question_index \in Nat
      /\ next.current_question_index >= sessions[s].current_question_index
  BY <1>1, <1>6 DEF IsSession
<1>8. CASE next.state = "Finished"
  <2>1. Update(s, next)
    BY <1>2, <1>3, <1>8 DEF NextQuestion
  <2>2. sessions'[s] = next /\ Sids' = Sids
    BY <2>1, SeqExcept DEF IInv, TypeOK, SessionsTyped, Update, Sids
  <2>3. NothingLost
    BY <1>1, <1>4, <2>2 DEF NothingLost
  <2>4. WithinLimits(s, sessions[s].question_deadline) /\ sessions[s].has_question_deadline
    BY <1>4 DEF Deadlined
  <2>5. /\ sessions'[s].quiz_code = sessions[s].quiz_code
        /\ sessions'[s].current_question_index >= sessions[s].current_question_index
        /\ sessions'[s].current_question_index \in Nat /\ now' \in Nat
    BY <1>1, <1>4, <1>6, <1>7, <2>2
  <2>6. PICK deadline \in Nat : deadline = sessions[s].question_deadline
    BY <1>7
  <2>7. WithinLimits(s, deadline)'
    BY <2>3, <2>4, <2>5, <2>6, LimitsLast
  <2>8. WithinLimits(s, next.question_deadline)'
    BY <1>6, <2>6, <2>7
  <2> QED
    BY <1>4, <1>6, <1>7, <1>8, <2>1, <2>4, <2>8, UpdateGoesOn
<1>9. CASE next.state # "Finished"
  <2>1. PICK deadline :
          deadline = now + QuestionsOf(s)[next.current_question_index + 1].time_limit_ms
    OBVIOUS
  <2>2. PICK x : x = WithDeadline(next, deadline)
    OBVIOUS
  <2>3. Update(s, x)
    BY <1>2, <1>3, <1>9, <2>1, <2>2 DEF NextQuestion
  <2>4. /\ x.state = next.state /\ x.has_question_deadline /\ x.question_deadline = deadline
        /\ x.current_question_index = next.current_question_index
        /\ x.quiz_code = next.quiz_code /\ x.auto_advance_delay_ms = next.auto_advance_delay_ms
    BY <1>6, <2>2 DEF WithDeadline, IsSession
  <2>5. x.current_question_index < Len(QuestionsOf(s))
    BY <1>2, <1>5, <1>6, <1>7, <1>9, <2>4
  <2>6. x.quiz_code = sessions[s].quiz_code /\ x.current_question_index \in Nat
    BY <1>6, <1>7, <2>4
  <2>7. deadline = now + QuestionsOf(s)[x.current_question_index + 1].time_limit_ms
    BY <2>1, <2>4
  <2>8. WithinLimits(s, deadline)'
    BY <1>4, <2>3, <2>5, <2>6, <2>7, FreshDeadline
  <2>9. WithinLimits(s, x.question_deadline)'
    BY <2>4, <2>8
  <2>10. x.state # "Lobby"
    BY <1>6, <2>4
  <2> QED
    BY <1>4, <1>6, <1>7, <2>3, <2>4, <2>6, <2>9, <2>10, UpdateGoesOn
<1> QED
  BY <1>8, <1>9

-----------------------------------------------------------------------------
(* The steps of the server.                                                *)

(* Everything the invariants need to know of the manager.                  *)
ServerInv == IInv /\ TimerInv

(* The ids of the sessions are those up to their number.                   *)
LEMMA SidsAre ==
  ASSUME IInv
  PROVE  Len(sessions) \in Nat /\ Sids = 1..Len(sessions)
BY SeqDomain DEF IInv, TypeOK, SessionsTyped, Sids

(* The tick handler stays as it is, or moves between two stages in which   *)
(* it holds neither an event nor a session.                                *)
TickerHoldsNothing ==
  /\ ticker.events = {} /\ ticker.stage \notin {"auto", "set", "next"}
  /\ ticker' \in [stage : {"rest", "clock", "cleanup"}, at : Nat, events : {{}},
                  session : {0, ticker.session}]

(* A step in which no game, no timer and no call changes keeps everything  *)
(* as it should be.                                                        *)
LEMMA RestStep ==
  ASSUME ServerInv, IInv', GamesRest, UNCHANGED <<timerVars, call, timeouts>>,
         UNCHANGED ticker \/ TickerHoldsNothing
  PROVE  TimerInv'
<1>1. /\ UNCHANGED <<deadlines, last_updates, auto_advance_deadlines, call, timeouts>>
      /\ Sids \subseteq Sids' /\ now' >= now /\ now \in Nat /\ now' \in Nat
      /\ NothingLost
  BY DEF ServerInv, IInv, TypeOK, GamesRest, NothingLost, timerVars
<1>2. 0..Len(sessions) \subseteq 0..Len(sessions')
  <2>1. Len(sessions) \in Nat /\ Sids = 1..Len(sessions)
    BY SidsAre DEF ServerInv
  <2>2. Len(sessions') \in Nat /\ Sids' = 1..Len(sessions')
    BY SeqDomain DEF IInv, TypeOK, SessionsTyped, Sids
  <2>3. PICK m \in Nat : m = Len(sessions)
    BY <2>1
  <2>4. PICK n \in Nat : n = Len(sessions')
    BY <2>2
  <2>5. \A i \in 1..m : i \in 1..n
    BY <1>1, <2>1, <2>2, <2>3, <2>4
  <2>6. m <= n
    BY <2>5
  <2> QED
    BY <2>3, <2>4, <2>6
<1>3. TickerSound' /\ ServerTypeOK'
  <2>1. TickerEvent \subseteq TickerEvent'
    BY <1>1 DEF TickerEvent
  <2>2. TickerSound'
    BY <1>1, <2>1 DEF ServerInv, TimerInv, TickerSound, TickerHoldsNothing, Stages
  <2>3. /\ InstantMap(deadlines)' /\ InstantMap(last_updates)' /\ InstantMap(auto_advance_deadlines)'
        /\ \A k \in DOMAIN timeouts' : k[1] \in Sids' /\ timeouts'[k] \in Nat \ {0}
    BY <1>1 DEF ServerInv, TimerInv, ServerTypeOK, InstantMap
  <2>4. call' \in [Threads -> [stage : {"idle", "advance", "fetch", "arm"},
                              session : 0..Len(sessions'), deadline : Nat]]
    BY <1>1, <1>2 DEF ServerInv, TimerInv, ServerTypeOK
  <2>5. /\ ticker'.stage \in Stages /\ ticker'.at \in Nat
        /\ ticker'.session \in 0..Len(sessions')
        /\ \A e \in ticker'.events : e.session \in Sids'
    <3>1. /\ ticker.stage \in Stages /\ ticker.at \in Nat
          /\ ticker.session \in 0..Len(sessions)
          /\ \A e \in ticker.events : e.session \in Sids
      BY DEF ServerInv, TimerInv, ServerTypeOK, Stages
    <3>2. 0 \in 0..Len(sessions')
      BY <1>1, <1>2, <3>1, SidsAre DEF ServerInv
    <3> QED
      BY <1>1, <1>2, <3>1, <3>2 DEF TickerHoldsNothing, Stages
  <2> QED
    BY <2>2, <2>3, <2>4, <2>5 DEF ServerTypeOK, Stages
<1>4. CallsSound'
  BY <1>1 DEF ServerInv, TimerInv, CallsSound
<1>5. ASSUME NEW s \in Sids
      PROVE  QuietLobby(s)' /\ Deadlined(s)' /\ Moving(s)'
  <2>1. SameGame(s) /\ QuietLobby(s) /\ Deadlined(s) /\ Moving(s)
    BY <1>5 DEF GamesRest, ServerInv, TimerInv
  <2>2. QuietLobby(s)'
    BY <1>1, <2>1 DEF QuietLobby, SameGame, InTickersHands, TickerHoldsNothing
  <2>3. Moving(s)'
    BY <1>1, <2>1 DEF Moving, Running, SameGame, BeingArmed, TickerHoldsNothing
  <2>4. Deadlined(s)'
    <3>1. IsSession(sessions[s])
      BY <1>5 DEF ServerInv, IInv, TypeOK, SessionsTyped
    <3>2. PICK deadline \in Nat : deadline = sessions[s].question_deadline
      BY <3>1 DEF IsSession
    <3>3. ASSUME WithinLimits(s, deadline) PROVE WithinLimits(s, deadline)'
      BY <1>1, <1>5, <2>1, <3>1, <3>3, LimitsLast DEF SameGame, ServerInv, IsSession
    <3> QED
      BY <2>1, <3>2, <3>3 DEF Deadlined, SameGame
  <2> QED
    BY <2>2, <2>3, <2>4
<1>6. ASSUME NEW s \in Sids' \ Sids
      PROVE  QuietLobby(s)' /\ Deadlined(s)' /\ Moving(s)'
  <2>1. sessions'[s].state = "Lobby"
    BY <1>6 DEF GamesRest
  <2>2. Deadlined(s)' /\ Moving(s)'
    BY <2>1 DEF Deadlined, Moving, Running
  <2>3. QuietLobby(s)'
    <3>1. /\ s \notin DOMAIN deadlines \cup DOMAIN auto_advance_deadlines
          /\ \A k \in DOMAIN timeouts : k[1] # s
          /\ \A e \in ticker.events : e.session # s
      BY <1>6 DEF ServerInv, TimerInv, ServerTypeOK, InstantMap
    <3>2. ~InTickersHands(s)'
      BY <1>6, <3>1 DEF InTickersHands, ServerInv, TimerInv, TickerSound, TickerHoldsNothing
    <3>3. \A t \in Threads : call[t].session = s => call[t].stage \notin {"fetch", "arm"}
      BY <1>6 DEF ServerInv, TimerInv, CallsSound
    <3> QED
      BY <1>1, <3>1, <3>2, <3>3 DEF QuietLobby
  <2> QED
    BY <2>2, <2>3
<1>7. ArmedWithinLimits'
  <2>1. ASSUME NEW s \in Sids, NEW deadline \in Nat, WithinLimits(s, deadline)
        PROVE  WithinLimits(s, deadline)'
    <3>1. IsSession(sessions[s]) /\ SameGame(s)
      BY DEF ServerInv, IInv, TypeOK, SessionsTyped, GamesRest
    <3> QED
      BY <1>1, <2>1, <3>1, LimitsLast DEF SameGame, ServerInv, IsSession
  <2>2. \A s \in DOMAIN deadlines : s \in Sids /\ deadlines[s] \in Nat
    BY DEF ServerInv, TimerInv, ServerTypeOK, InstantMap
  <2>3. \A t \in Threads : /\ call[t].deadline \in Nat
                           /\ call[t].stage = "arm" => call[t].session \in Sids
    BY DEF ServerInv, TimerInv, ServerTypeOK, CallsSound
  <2> QED
    BY <1>1, <2>1, <2>2, <2>3 DEF ServerInv, TimerInv, ArmedWithinLimits
<1> QED
  BY <1>3, <1>4, <1>5, <1>6, <1>7 DEF TimerInv

(* Replacing what a thread is in replaces nothing else.                    *)
LEMMA GoesTo ==
  ASSUME ServerTypeOK, NEW t \in Threads, NEW c, Goes(t, c)
  PROVE  /\ call'[t] = c /\ DOMAIN call' = Threads
         /\ \A u \in Threads : u # t => call'[u] = call[u]
BY DEF ServerTypeOK, Goes

(* A call in which a thread goes on is typed when what it goes to is.      *)
LEMMA CallTyped ==
  ASSUME ServerTypeOK, NEW t \in Threads, NEW stage \in {"idle", "advance", "fetch", "arm"},
         NEW s \in 0..Len(sessions), NEW deadline \in Nat, Goes(t, At(stage, s, deadline))
  PROVE  call' \in [Threads -> [stage : {"idle", "advance", "fetch", "arm"},
                               session : 0..Len(sessions), deadline : Nat]]
BY DEF ServerTypeOK, Goes, At

(* StartGame and NextQuestion: the thread that moved the game on is about  *)
(* to arm its timer.                                                       *)
LEMMA GoesOnStep ==
  ASSUME ServerInv, IInv', NEW t \in Threads, NEW s \in Sids, GameGoesOn(s),
         Goes(t, At("fetch", s, 0)), call[t] = Idle \/ call[t].session = s,
         UNCHANGED <<timerVars, ticker, timeouts>>
  PROVE  TimerInv'
<1>1. /\ UNCHANGED <<deadlines, last_updates, auto_advance_deadlines, ticker, timeouts>>
      /\ Sids' = Sids /\ UNCHANGED <<quizzes, now>> /\ now \in Nat
      /\ NothingLost
  BY DEF ServerInv, IInv, TypeOK, GameGoesOn, NothingLost, timerVars
<1>2. Len(sessions') = Len(sessions) /\ s \in 0..Len(sessions)
  <2>1. Len(sessions) \in Nat /\ Sids = 1..Len(sessions)
    BY SidsAre DEF ServerInv
  <2>2. Len(sessions') \in Nat /\ Sids' = 1..Len(sessions')
    BY SeqDomain DEF IInv, TypeOK, SessionsTyped, Sids
  <2>3. PICK m \in Nat : m = Len(sessions)
    BY <2>1
  <2>4. PICK n \in Nat : n = Len(sessions')
    BY <2>2
  <2>5. 1..m = 1..n
    BY <1>1, <2>1, <2>2, <2>3, <2>4
  <2>6. m = n
    BY <2>5
  <2> QED
    BY <2>1, <2>3, <2>4, <2>6
<1>3. /\ call'[t] = At("fetch", s, 0)
      /\ \A u \in Threads : u # t => call'[u] = call[u]
  BY GoesTo DEF ServerInv, TimerInv
<1>4. ServerTypeOK'
  <2>1. call' \in [Threads -> [stage : {"idle", "advance", "fetch", "arm"},
                              session : 0..Len(sessions), deadline : Nat]]
    BY <1>2, CallTyped DEF ServerInv, TimerInv
  <2> QED
    BY <1>1, <1>2, <2>1 DEF ServerInv, TimerInv, ServerTypeOK, InstantMap
<1>5. TickerSound' /\ CallsSound'
  BY <1>1, <1>3 DEF ServerInv, TimerInv, TickerSound, TickerEvent, CallsSound, At
<1>6. ASSUME NEW r \in Sids, r # s
      PROVE  QuietLobby(r)' /\ Deadlined(r)' /\ Moving(r)'
  <2>1. sessions'[r] = sessions[r] /\ QuietLobby(r) /\ Deadlined(r) /\ Moving(r)
    BY <1>6 DEF ServerInv, TimerInv, GameGoesOn
  <2>2. QuietLobby(r)'
    BY <1>1, <1>3, <1>6, <2>1 DEF QuietLobby, InTickersHands, At
  <2>3. Deadlined(r)'
    BY <1>1, <2>1 DEF Deadlined, WithinLimits, QuestionsOf
  <2>4. Moving(r)'
    <3>1. BeingArmed(r) => BeingArmed(r)'
      <4>1. ASSUME NEW u \in Threads, call[u] # Idle, call[u].session = r
            PROVE  BeingArmed(r)'
        <5>1. u # t
          BY <1>6, <4>1
        <5> QED
          BY <1>3, <4>1, <5>1 DEF BeingArmed
      <4> QED
        BY <4>1 DEF BeingArmed
    <3> QED
      BY <1>1, <2>1, <3>1 DEF Moving, Running
  <2> QED
    BY <2>2, <2>3, <2>4
<1>7. QuietLobby(s)' /\ Deadlined(s)' /\ Moving(s)'
  <2>1. sessions'[s].state # "Lobby" /\ Deadlined(s)'
    BY DEF GameGoesOn, Deadlined
  <2>2. BeingArmed(s)'
    BY <1>3 DEF BeingArmed, At, Idle
  <2> QED
    BY <2>1, <2>2 DEF QuietLobby, Moving
<1>8. ArmedWithinLimits'
  <2>1. ASSUME NEW r \in Sids, NEW deadline \in Nat, WithinLimits(r, deadline)
        PROVE  WithinLimits(r, deadline)'
    <3>1. IsSession(sessions[r]) /\ IsSession(sessions'[r])
      BY <1>1, <2>1 DEF ServerInv, IInv, TypeOK, SessionsTyped, IsSession
    <3>2. /\ sessions'[r].quiz_code = sessions[r].quiz_code
          /\ sessions'[r].current_question_index >= sessions[r].current_question_index
      BY <2>1, <3>1 DEF GameGoesOn, IsSession
    <3> QED
      BY <1>1, <2>1, <3>1, <3>2, LimitsLast DEF ServerInv, IsSession
  <2>2. \A r \in DOMAIN deadlines : r \in Sids /\ deadlines[r] \in Nat
    BY DEF ServerInv, TimerInv, ServerTypeOK, InstantMap
  <2>3. \A u \in Threads : /\ call[u].deadline \in Nat
                           /\ call[u].stage = "arm" => call[u].session \in Sids
    BY DEF ServerInv, TimerInv, ServerTypeOK, CallsSound
  <2>4. ASSUME NEW r \in Sids, NEW u \in Threads, call'[u].stage = "arm", call'[u].session = r
        PROVE  WithinLimits(r, call[u].deadline)'
    <3>1. u # t
      BY <1>3, <2>4 DEF At
    <3>2. call'[u] = call[u]
      BY <1>3, <3>1
    <3>3. PICK deadline \in Nat : deadline = call[u].deadline
      BY <2>3
    <3>4. WithinLimits(r, deadline)
      BY <2>4, <3>2, <3>3 DEF ServerInv, TimerInv, ArmedWithinLimits
    <3>5. WithinLimits(r, deadline)'
      BY <2>1, <3>4
    <3> QED
      BY <3>2, <3>3, <3>5 DEF WithinLimits
  <2>5. ASSUME NEW r \in DOMAIN deadlines
        PROVE  WithinLimits(r, deadlines[r])'
    <3>1. PICK deadline \in Nat : deadline = deadlines[r]
      BY <2>2
    <3>2. WithinLimits(r, deadline)
      BY <2>2, <3>1 DEF ServerInv, TimerInv, ArmedWithinLimits
    <3>3. WithinLimits(r, deadline)'
      BY <2>1, <2>2, <3>2
    <3> QED
      BY <1>1, <3>1, <3>3 DEF WithinLimits
  <2> QED
    BY <1>1, <2>4, <2>5 DEF ArmedWithinLimits
<1> QED
  BY <1>1, <1>4, <1>5, <1>6, <1>7, <1>8 DEF TimerInv

(* A step of the controller or the tick handler that leaves the manager as *)
(* it is leaves the deadlines of the sessions as they are.                 *)
LEMMA ManagerRests ==
  ASSUME ServerInv, UNCHANGED managerVars
  PROVE  /\ UNCHANGED <<quizzes, sessions, now>> /\ Sids' = Sids /\ now \in Nat
         /\ \A s \in Sids : Deadlined(s)'
<1>1. UNCHANGED <<quizzes, sessions, now>> /\ now \in Nat
  BY DEF managerVars, ServerInv, IInv, TypeOK
<1> QED
  BY <1>1 DEF ServerInv, TimerInv, Deadlined, WithinLimits, QuestionsOf, Sids

(* The tick handler's own steps leave the calls as they are.               *)
LEMMA CallsRest ==
  ASSUME ServerInv, UNCHANGED <<managerVars, call>>
  PROVE  /\ CallsSound'
         /\ call' \in [Threads -> [stage : {"idle", "advance", "fetch", "arm"},
                                  session : 0..Len(sessions'), deadline : Nat]]
         /\ \A s \in Sids : BeingArmed(s)' <=> BeingArmed(s)
<1>1. UNCHANGED <<sessions, call>> /\ Sids' = Sids
  BY ManagerRests
<1> QED
  BY <1>1 DEF ServerInv, TimerInv, CallsSound, ServerTypeOK, BeingArmed

(* NextQuestion, first step: the timers go, but the thread is in the call. *)
LEMMA ClearStep ==
  ASSUME ServerInv, NEW t \in Threads, NEW s \in Sids, ClearTimers(t, s),
         \/ UNCHANGED ticker
         \/ /\ ticker.stage = "next" /\ ticker.session = s
            /\ ticker' = [ticker EXCEPT !.stage = "events", !.session = 0]
  PROVE  TimerInv'
<1>1. /\ UNCHANGED <<quizzes, sessions, now>> /\ Sids' = Sids /\ now \in Nat
      /\ UNCHANGED timeouts
      /\ \A r \in Sids : Deadlined(r)'
  BY ManagerRests DEF ClearTimers
<1>2. /\ deadlines' = [k \in DOMAIN deadlines \ {s} |-> deadlines[k]]
      /\ last_updates' = [k \in DOMAIN last_updates \ {s} |-> last_updates[k]]
      /\ auto_advance_deadlines' =
           [k \in DOMAIN auto_advance_deadlines \ {s} |-> auto_advance_deadlines[k]]
  BY DEF ClearTimers, Timer!ClearDeadline, Timer!Erase
<1>3. /\ call'[t] = At("advance", s, 0) /\ call[t] = Idle
      /\ \A u \in Threads : u # t => call'[u] = call[u]
  BY GoesTo DEF ServerInv, TimerInv, ClearTimers, Available
<1>4. call' \in [Threads -> [stage : {"idle", "advance", "fetch", "arm"},
                            session : 0..Len(sessions), deadline : Nat]]
  BY CallTyped, SidsAre DEF ServerInv, TimerInv, ClearTimers
<1>5. /\ ticker' \in [stage : Stages, at : Nat, events : {ticker.events}, session : Nat]
      /\ ticker'.at = ticker.at /\ ticker'.session \in {0, ticker.session}
      /\ ticker' = ticker \/ ticker'.stage = "events"
  <2>1. ticker \in [stage : Stages, at : Nat, events : SUBSET TickerEvent, session : Nat]
    BY DEF ServerInv, TimerInv, TickerSound
  <2>2. ticker \in [stage : Stages, at : Nat, events : {ticker.events}, session : Nat]
    BY <2>1
  <2>3. CASE UNCHANGED ticker
    BY <2>2, <2>3
  <2>4. CASE ticker' = [ticker EXCEPT !.stage = "events", !.session = 0]
    BY <2>2, <2>4 DEF Stages
  <2> QED
    BY <2>3, <2>4
<1>6. TickerSound'
  <2>1. TickerEvent' = TickerEvent
    BY <1>1 DEF TickerEvent
  <2>2. ticker.events \subseteq TickerEvent
    BY DEF ServerInv, TimerInv, TickerSound
  <2>3. ticker' \in [stage : Stages, at : Nat, events : SUBSET TickerEvent', session : Nat]
    BY <1>5, <2>1, <2>2
  <2> QED
    BY <1>1, <1>5, <2>3 DEF ServerInv, TimerInv, TickerSound
<1>7. /\ InstantMap(deadlines)' /\ InstantMap(last_updates)' /\ InstantMap(auto_advance_deadlines)'
  BY <1>1, <1>2 DEF ServerInv, TimerInv, ServerTypeOK, InstantMap
<1>8. ServerTypeOK'
  <2>1. /\ ticker.at \in Nat /\ ticker.session \in 0..Len(sessions)
        /\ 0 \in 0..Len(sessions) /\ \A e \in ticker.events : e.session \in Sids
    BY SidsAre DEF ServerInv, TimerInv, ServerTypeOK
  <2>2. /\ ticker'.stage \in Stages /\ ticker'.at \in Nat
        /\ ticker'.session \in 0..Len(sessions)
        /\ \A e \in ticker'.events : e.session \in Sids
    BY <1>5, <2>1
  <2>3. \A k \in DOMAIN timeouts : k[1] \in Sids /\ timeouts[k] \in Nat \ {0}
    BY DEF ServerInv, TimerInv, ServerTypeOK
  <2> QED
    BY <1>1, <1>4, <1>7, <2>2, <2>3 DEF ServerTypeOK, Stages
<1>9. CallsSound'
  BY <1>1, <1>3 DEF ServerInv, TimerInv, CallsSound, At
<1>10. ASSUME NEW r \in Sids PROVE QuietLobby(r)'
  <2>1. QuietLobby(r)
    BY DEF ServerInv, TimerInv
  <2>2. InTickersHands(r)' => InTickersHands(r)
    BY <1>5 DEF InTickersHands, ServerInv, TimerInv, TickerSound
  <2> QED
    BY <1>1, <1>2, <1>3, <2>1, <2>2 DEF QuietLobby, At
<1>11. BeingArmed(s)'
  BY <1>3 DEF BeingArmed, At, Idle
<1>12. ASSUME NEW r \in Sids, r # s PROVE Moving(r)'
  <2>1. Moving(r)
    BY DEF ServerInv, TimerInv
  <2>2. BeingArmed(r) => BeingArmed(r)'
    BY <1>3 DEF BeingArmed
  <2>3. /\ ticker.stage = "next" /\ ticker.session = r
          => ticker'.stage = "next" /\ ticker'.session = r
        /\ ticker.stage \in {"auto", "set"} /\ ticker.session = r
          => ticker'.stage \in {"auto", "set"} /\ ticker'.session = r
    BY <1>12
  <2> QED
    BY <1>1, <1>2, <1>5, <1>12, <2>1, <2>2, <2>3 DEF Moving, Running
<1>13. \A r \in Sids : Moving(r)'
  BY <1>11, <1>12 DEF Moving
<1>14. ArmedWithinLimits'
  BY <1>1, <1>2, <1>3 DEF ServerInv, TimerInv, ArmedWithinLimits, At, WithinLimits, QuestionsOf
<1> QED
  BY <1>1, <1>6, <1>8, <1>9, <1>10, <1>13, <1>14 DEF TimerInv

(* NextQuestion refused: the game is not running, and the call is over.    *)
LEMMA RefusedStep ==
  ASSUME ServerInv, NEW t \in Threads, call[t].stage # "idle", ~Running(call[t].session),
         Goes(t, Idle), UNCHANGED <<managerVars, timerVars, ticker, timeouts>>
  PROVE  TimerInv'
<1>1. /\ UNCHANGED <<quizzes, sessions, now>> /\ Sids' = Sids /\ now \in Nat
      /\ UNCHANGED <<timeouts, ticker, deadlines, last_updates, auto_advance_deadlines>>
      /\ \A r \in Sids : Deadlined(r)'
  BY ManagerRests DEF timerVars
<1>2. call'[t] = Idle /\ \A u \in Threads : u # t => call'[u] = call[u]
  BY GoesTo DEF ServerInv, TimerInv
<1>3. call' \in [Threads -> [stage : {"idle", "advance", "fetch", "arm"},
                            session : 0..Len(sessions), deadline : Nat]]
  BY SidsAre DEF ServerInv, TimerInv, ServerTypeOK, Goes, Idle
<1>4. ServerTypeOK' /\ TickerSound' /\ CallsSound'
  <2>1. ServerTypeOK'
    BY <1>1, <1>3 DEF ServerInv, TimerInv, ServerTypeOK, InstantMap
  <2>2. TickerSound'
    BY <1>1 DEF ServerInv, TimerInv, TickerSound, TickerEvent
  <2>3. CallsSound'
    BY <1>1, <1>2 DEF ServerInv, TimerInv, CallsSound, Idle
  <2> QED
    BY <2>1, <2>2, <2>3
<1>5. ASSUME NEW r \in Sids PROVE QuietLobby(r)' /\ Moving(r)'
  <2>1. QuietLobby(r) /\ Moving(r)
    BY DEF ServerInv, TimerInv
  <2>2. QuietLobby(r)'
    BY <1>1, <1>2, <2>1 DEF QuietLobby, InTickersHands, Idle
  <2>3. Running(r) /\ BeingArmed(r) => BeingArmed(r)'
    BY <1>2 DEF BeingArmed
  <2> QED
    BY <1>1, <2>1, <2>2, <2>3 DEF Moving, Running
<1>6. ArmedWithinLimits'
  BY <1>1, <1>2 DEF ServerInv, TimerInv, ArmedWithinLimits, Idle, WithinLimits, QuestionsOf
<1> QED
  BY <1>1, <1>4, <1>5, <1>6 DEF TimerInv

(* The deadline read back is there, for no call gets this far in a lobby,  *)
(* and it is within the limits.                                            *)
LEMMA FetchStep ==
  ASSUME ServerInv, NEW t \in Threads, FetchDeadline(t)
  PROVE  TimerInv'
<1> DEFINE s == call[t].session
           d == sessions[s].question_deadline
<1>1. /\ UNCHANGED <<quizzes, sessions, now>> /\ Sids' = Sids /\ now \in Nat
      /\ UNCHANGED <<timeouts, ticker, deadlines, last_updates, auto_advance_deadlines>>
      /\ \A r \in Sids : Deadlined(r)'
  BY ManagerRests DEF FetchDeadline, timerVars
<1>2. s \in Sids /\ call[t].stage = "fetch"
  BY DEF ServerInv, TimerInv, CallsSound, FetchDeadline
<1>3. /\ sessions[s].state # "Lobby" /\ sessions[s].has_question_deadline
      /\ WithinLimits(s, d)
  BY <1>2 DEF ServerInv, TimerInv, QuietLobby, Deadlined
<1>4. Goes(t, At("arm", s, d))
  BY <1>3 DEF FetchDeadline
<1>5. IsSession(sessions[s])
  BY <1>2 DEF ServerInv, IInv, TypeOK, SessionsTyped
<1>6. d \in Nat /\ s \in 0..Len(sessions)
  BY <1>2, <1>5, SidsAre DEF ServerInv, IsSession
<1> HIDE DEF s, d
<1>7. /\ call'[t] = At("arm", s, d)
      /\ \A u \in Threads : u # t => call'[u] = call[u]
  BY <1>4, GoesTo DEF ServerInv, TimerInv
<1>8. call' \in [Threads -> [stage : {"idle", "advance", "fetch", "arm"},
                            session : 0..Len(sessions), deadline : Nat]]
  BY <1>4, <1>6, CallTyped DEF ServerInv, TimerInv
<1>9. ServerTypeOK' /\ TickerSound' /\ CallsSound'
  <2>1. ServerTypeOK'
    BY <1>1, <1>8 DEF ServerInv, TimerInv, ServerTypeOK, InstantMap
  <2>2. TickerSound'
    BY <1>1 DEF ServerInv, TimerInv, TickerSound, TickerEvent
  <2>3. CallsSound'
    BY <1>1, <1>2, <1>7 DEF ServerInv, TimerInv, CallsSound, At
  <2> QED
    BY <2>1, <2>2, <2>3
<1>10. ASSUME NEW r \in Sids PROVE QuietLobby(r)' /\ Moving(r)'
  <2>1. QuietLobby(r) /\ Moving(r)
    BY DEF ServerInv, TimerInv
  <2>2. QuietLobby(r)'
    BY <1>1, <1>3, <1>7, <2>1 DEF QuietLobby, InTickersHands, At
  <2>3. BeingArmed(r) => BeingArmed(r)'
    BY <1>7 DEF BeingArmed, At, Idle, s
  <2> QED
    BY <1>1, <2>1, <2>2, <2>3 DEF Moving, Running
<1>11. ArmedWithinLimits'
  <2>1. \A r \in Sids : r \in DOMAIN deadlines => WithinLimits(r, deadlines[r])
    BY DEF ServerInv, TimerInv, ArmedWithinLimits
  <2>2. ASSUME NEW r \in Sids, NEW u \in Threads, call'[u].stage = "arm", call'[u].session = r
        PROVE  WithinLimits(r, call'[u].deadline)
    <3>1. CASE u = t
      BY <1>3, <1>7, <2>2, <3>1 DEF At
    <3>2. CASE u # t
      BY <1>7, <2>2, <3>2 DEF ServerInv, TimerInv, ArmedWithinLimits
    <3> QED
      BY <3>1, <3>2
  <2> QED
    BY <1>1, <2>1, <2>2 DEF ArmedWithinLimits, WithinLimits, QuestionsOf
<1> QED
  BY <1>1, <1>9, <1>10, <1>11 DEF TimerInv

(* The timer is armed, and takes over from the thread.                     *)
LEMMA ArmStep ==
  ASSUME ServerInv, NEW t \in Threads, ArmTimer(t)
  PROVE  TimerInv'
<1> DEFINE s == call[t].session
           d == call[t].deadline
<1>1. /\ UNCHANGED <<quizzes, sessions, now>> /\ Sids' = Sids /\ now \in Nat
      /\ UNCHANGED <<timeouts, ticker>>
      /\ \A r \in Sids : Deadlined(r)'
  BY ManagerRests DEF ArmTimer
<1>2. s \in Sids /\ call[t].stage = "arm"
  BY DEF ServerInv, TimerInv, CallsSound, ArmTimer
<1>3. sessions[s].state # "Lobby" /\ WithinLimits(s, d)
  BY <1>2 DEF ServerInv, TimerInv, QuietLobby, ArmedWithinLimits
<1>4. d \in Nat
  BY DEF ServerInv, TimerInv, ServerTypeOK
<1>5. /\ deadlines' = [k \in DOMAIN deadlines \cup {s} |-> IF k = s THEN d ELSE deadlines[k]]
      /\ UNCHANGED <<last_updates, auto_advance_deadlines>> /\ Goes(t, Idle)
  BY DEF ArmTimer, Timer!SetDeadline, Timer!Put
<1> HIDE DEF s, d
<1>6. call'[t] = Idle /\ \A u \in Threads : u # t => call'[u] = call[u]
  BY <1>5, GoesTo DEF ServerInv, TimerInv
<1>7. call' \in [Threads -> [stage : {"idle", "advance", "fetch", "arm"},
                            session : 0..Len(sessions), deadline : Nat]]
  BY <1>5, SidsAre DEF ServerInv, TimerInv, ServerTypeOK, Goes, Idle
<1>8. ServerTypeOK' /\ TickerSound' /\ CallsSound'
  <2>1. InstantMap(deadlines)'
    BY <1>1, <1>2, <1>4, <1>5 DEF ServerInv, TimerInv, ServerTypeOK, InstantMap
  <2>2. InstantMap(last_updates)' /\ InstantMap(auto_advance_deadlines)'
    BY <1>1, <1>5 DEF ServerInv, TimerInv, ServerTypeOK, InstantMap
  <2>3. ServerTypeOK'
    BY <1>1, <1>7, <2>1, <2>2 DEF ServerInv, TimerInv, ServerTypeOK
  <2>4. TickerSound'
    BY <1>1 DEF ServerInv, TimerInv, TickerSound, TickerEvent
  <2>5. CallsSound'
    BY <1>1, <1>6 DEF ServerInv, TimerInv, CallsSound, Idle
  <2> QED
    BY <2>3, <2>4, <2>5
<1>9. ASSUME NEW r \in Sids PROVE QuietLobby(r)' /\ Moving(r)'
  <2>1. QuietLobby(r) /\ Moving(r)
    BY DEF ServerInv, TimerInv
  <2>2. QuietLobby(r)'
    BY <1>1, <1>3, <1>5, <1>6, <2>1 DEF QuietLobby, InTickersHands, Idle
  <2>3. r # s /\ BeingArmed(r) => BeingArmed(r)'
    BY <1>6 DEF BeingArmed, s
  <2> QED
    BY <1>1, <1>5, <2>1, <2>2, <2>3 DEF Moving, Running
<1>10. ArmedWithinLimits'
  <2>1. ASSUME NEW r \in Sids, r \in DOMAIN deadlines'
        PROVE  WithinLimits(r, deadlines'[r])
    <3>1. CASE r = s
      BY <1>3, <1>5, <2>1, <3>1
    <3>2. CASE r # s
      BY <1>5, <2>1, <3>2 DEF ServerInv, TimerInv, ArmedWithinLimits
    <3> QED
      BY <3>1, <3>2
  <2>2. ASSUME NEW r \in Sids, NEW u \in Threads, call'[u].stage = "arm", call'[u].session = r
        PROVE  WithinLimits(r, call'[u].deadline)
    BY <1>6, <2>2 DEF Idle, ServerInv, TimerInv, ArmedWithinLimits
  <2> QED
    BY <1>1, <2>1, <2>2 DEF ArmedWithinLimits, WithinLimits, QuestionsOf
<1> QED
  BY <1>1, <1>8, <1>9, <1>10 DEF TimerInv

(* A tick under the service's lock: what expires goes into the hands of    *)
(* the tick handler, and the same for an automatic advance that is due.    *)
LEMMA UnderLockStep ==
  ASSUME ServerInv, TickUnderLock
  PROVE  TimerInv'
<1> DEFINE at == ticker.at
           expired == Timer!Expired(at)
           due == Timer!AutoDue(at)
           updates == Timer!UpdateDue(at)
<1>1. /\ UNCHANGED <<quizzes, sessions, now>> /\ Sids' = Sids /\ now \in Nat
      /\ UNCHANGED <<timeouts, call>>
      /\ \A r \in Sids : Deadlined(r)'
  BY ManagerRests DEF TickUnderLock
<1>2. /\ expired \subseteq DOMAIN deadlines /\ updates \subseteq DOMAIN deadlines
      /\ due \subseteq DOMAIN auto_advance_deadlines
      /\ expired \cup due \cup updates \subseteq Sids
  BY DEF Timer!Expired, Timer!UpdateDue, Timer!AutoDue, ServerInv, TimerInv, ServerTypeOK, InstantMap
<1>3. ticker.stage = "clock" /\ ticker.events = {} /\ at \in Nat
  BY DEF TickUnderLock, TickerAt, ServerInv, TimerInv, TickerSound, ServerTypeOK
<1>4. /\ deadlines' = [k \in DOMAIN deadlines \ expired |-> deadlines[k]]
      /\ last_updates' = [k \in (DOMAIN last_updates \cup updates) \ expired |->
                             IF k \in updates THEN at ELSE last_updates[k]]
      /\ auto_advance_deadlines' =
           [k \in DOMAIN auto_advance_deadlines \ due |-> auto_advance_deadlines[k]]
      /\ ticker' = [ticker EXCEPT !.stage = "events", !.at = 0, !.events = Timer!TickEvents(at)]
  BY DEF TickUnderLock, Timer!Tick, Timer!Erase
<1>5. /\ ticker' \in [stage : {"events"}, at : {0}, events : {Timer!TickEvents(at)},
                      session : {ticker.session}]
  BY <1>4 DEF ServerInv, TimerInv, TickerSound
<1>6. Timer!TickEvents(at) =
        [type : {"QuestionDeadline"}, event : {"QuestionTimeout"}, session : expired]
          \cup [type : {"QuestionDeadline"}, event : {"TimerUpdate"}, session : updates]
          \cup [type : {"AutoAdvance"}, event : {"QuestionTimeout"}, session : due]
  BY DEF Timer!TickEvents, Timer!Timeouts, Timer!Updates, Timer!Advances
<1> HIDE DEF at, expired, due, updates
<1>7. Timer!TickEvents(at) \subseteq TickerEvent
  BY <1>2, <1>6 DEF TickerEvent
<1>8. TickerSound' /\ CallsSound'
  BY <1>1, <1>5, <1>7 DEF ServerInv, TimerInv, TickerSound, TickerEvent, Stages, CallsSound
<1>9. ServerTypeOK'
  <2>1. /\ InstantMap(deadlines)' /\ InstantMap(last_updates)'
        /\ InstantMap(auto_advance_deadlines)'
    BY <1>1, <1>2, <1>3, <1>4 DEF ServerInv, TimerInv, ServerTypeOK, InstantMap
  <2>2. \A e \in ticker'.events : e.session \in Sids
    BY <1>5, <1>7 DEF TickerEvent
  <2>3. /\ ticker'.stage = "events" /\ ticker'.at = 0 /\ ticker'.session \in 0..Len(sessions)
    BY <1>5 DEF ServerInv, TimerInv, ServerTypeOK
  <2> QED
    BY <1>1, <2>1, <2>2, <2>3 DEF ServerInv, TimerInv, ServerTypeOK
<1>10. ASSUME NEW r \in Sids PROVE QuietLobby(r)'
  <2>1. QuietLobby(r)
    BY DEF ServerInv, TimerInv
  <2>2. sessions[r].state = "Lobby" => ~InTickersHands(r)'
    BY <1>2, <1>5, <1>6, <2>1 DEF QuietLobby, InTickersHands
  <2> QED
    BY <1>1, <1>4, <2>1, <2>2 DEF QuietLobby
<1>11. ASSUME NEW r \in Sids PROVE Moving(r)'
  <2>1. Moving(r)
    BY DEF ServerInv, TimerInv
  <2>2. r \in expired \cup due =>
          \E e \in ticker'.events : e.session = r /\ e.event = "QuestionTimeout"
    <3>1. ASSUME r \in expired
          PROVE  [type |-> "QuestionDeadline", event |-> "QuestionTimeout", session |-> r]
                   \in ticker'.events
      BY <1>5, <1>6, <3>1
    <3>2. ASSUME r \in due
          PROVE  [type |-> "AutoAdvance", event |-> "QuestionTimeout", session |-> r]
                   \in ticker'.events
      BY <1>5, <1>6, <3>2
    <3> QED
      BY <3>1, <3>2
  <2>3. r \in DOMAIN deadlines => r \in expired \/ r \in DOMAIN deadlines'
    BY <1>4
  <2>4. r \in DOMAIN auto_advance_deadlines => r \in due \/ r \in DOMAIN auto_advance_deadlines'
    BY <1>4
  <2> QED
    BY <1>1, <1>3, <2>1, <2>2, <2>3, <2>4 DEF Moving, Running, BeingArmed
<1>12. ArmedWithinLimits'
  BY <1>1, <1>4 DEF ServerInv, TimerInv, ArmedWithinLimits, WithinLimits, QuestionsOf
<1> QED
  BY <1>1, <1>8, <1>9, <1>10, <1>11, <1>12 DEF TimerInv

(* An event is broadcast: a timeout passes from the events to the stage    *)
(* that follows, and is counted for the question the game is at.           *)
LEMMA BroadcastsStep ==
  ASSUME ServerInv, NEW e \in ticker.events, TickBroadcasts(e)
  PROVE  TimerInv'
<1> DEFINE key == <<e.session, sessions[e.session].current_question_index>>
           sent == IF key \in DOMAIN timeouts THEN timeouts[key] ELSE 0
           timely == e.event = "QuestionTimeout"
           stage == IF e.type = "AutoAdvance" THEN "next" ELSE IF timely THEN "auto" ELSE "events"
<1>1. /\ UNCHANGED <<quizzes, sessions, now>> /\ Sids' = Sids /\ now \in Nat
      /\ UNCHANGED <<deadlines, last_updates, auto_advance_deadlines, call>>
      /\ \A r \in Sids : Deadlined(r)'
  BY ManagerRests DEF TickBroadcasts, timerVars
<1>2. /\ CallsSound'
      /\ call' \in [Threads -> [stage : {"idle", "advance", "fetch", "arm"},
                               session : 0..Len(sessions'), deadline : Nat]]
      /\ \A r \in Sids : BeingArmed(r)' <=> BeingArmed(r)
  BY CallsRest DEF TickBroadcasts
<1>3. /\ e \in TickerEvent /\ e.session \in Sids /\ ticker.stage = "events"
      /\ e.type = "AutoAdvance" => timely
  <2>1. e \in TickerEvent
    BY DEF ServerInv, TimerInv, TickerSound
  <2> QED
    BY <2>1 DEF TickerEvent, TickBroadcasts, TickerAt
<1>4. timeouts' = IF timely
                  THEN [k \in DOMAIN timeouts \cup {key} |-> IF k = key THEN sent + 1 ELSE timeouts[k]]
                  ELSE timeouts
  BY DEF TickBroadcasts, Timer!Put
<1>5. ticker' \in [stage : {stage}, at : {ticker.at}, events : {ticker.events \ {e}},
                  session : {IF timely THEN e.session ELSE 0}]
  <2>1. ticker \in [stage : Stages, at : Nat, events : SUBSET TickerEvent, session : Nat]
    BY DEF ServerInv, TimerInv, TickerSound
  <2>2. stage = CASE e.type = "AutoAdvance" -> "next"
                  [] e.type = "QuestionDeadline" /\ e.event = "QuestionTimeout" -> "auto"
                  [] OTHER -> "events"
    BY <1>3 DEF TickerEvent
  <2>3. ticker' = [ticker EXCEPT !.events = ticker.events \ {e},
                                 !.session = IF timely THEN e.session ELSE 0,
                                 !.stage = stage]
    BY <2>2 DEF TickBroadcasts
  <2> HIDE DEF stage, timely
  <2> QED
    BY <2>1, <2>3
<1>6. stage \in Stages /\ (stage \in {"auto", "set", "next"} <=> timely)
      /\ stage \in {"events", "auto", "next"}
  BY <1>3 DEF Stages
<1>7. key[1] = e.session /\ sent + 1 \in Nat \ {0}
  BY DEF ServerInv, TimerInv, ServerTypeOK
<1> HIDE DEF stage, sent
<1>8. TickerSound'
  <2>1. ticker.events \subseteq TickerEvent /\ ticker.at \in Nat /\ e.session \in Nat
    BY <1>3, SidsAre DEF ServerInv, TimerInv, TickerSound
  <2>2. TickerEvent' = TickerEvent
    BY <1>1 DEF TickerEvent
  <2>3. ticker' \in [stage : Stages, at : Nat, events : SUBSET TickerEvent, session : Nat]
    BY <1>5, <1>6, <2>1
  <2> QED
    BY <1>1, <1>3, <1>5, <1>6, <2>2, <2>3 DEF TickerSound
<1>9. ServerTypeOK'
  <2>1. /\ ticker'.stage \in Stages /\ ticker'.at \in Nat
        /\ ticker'.session \in 0..Len(sessions)
        /\ \A f \in ticker'.events : f.session \in Sids
    BY <1>3, <1>5, <1>6, SidsAre DEF ServerInv, TimerInv, ServerTypeOK
  <2>2. \A k \in DOMAIN timeouts' : k[1] \in Sids /\ timeouts'[k] \in Nat \ {0}
    <3> HIDE DEF key
    <3> QED BY <1>3, <1>4, <1>7 DEF ServerInv, TimerInv, ServerTypeOK
  <2> QED
    BY <1>1, <1>2, <2>1, <2>2 DEF ServerInv, TimerInv, ServerTypeOK, InstantMap, Stages
<1>10. ASSUME NEW r \in Sids PROVE QuietLobby(r)'
  <2>1. QuietLobby(r)
    BY DEF ServerInv, TimerInv
  <2>2. ASSUME sessions[r].state = "Lobby"
        PROVE  ~InTickersHands(r)' /\ \A k \in DOMAIN timeouts' : k[1] # r
    <3>1. timely => e.session # r
      BY <2>1, <2>2 DEF QuietLobby, InTickersHands
    <3>2. \A f \in ticker'.events : ~(f.session = r /\ f.event = "QuestionTimeout")
      BY <1>5, <2>1, <2>2 DEF QuietLobby, InTickersHands
    <3>3. ~(ticker'.stage \in {"auto", "set", "next"} /\ ticker'.session = r)
      BY <1>5, <1>6, <3>1
    <3>4. \A k \in DOMAIN timeouts' : k[1] # r
      <4> HIDE DEF key
      <4> QED BY <1>4, <1>7, <2>1, <2>2, <3>1 DEF QuietLobby
    <3> QED
      BY <3>2, <3>3, <3>4 DEF InTickersHands
  <2> QED
    BY <1>1, <2>1, <2>2 DEF QuietLobby
<1>11. ASSUME NEW r \in Sids PROVE Moving(r)'
  <2>1. Moving(r)
    BY DEF ServerInv, TimerInv
  <2>2. ASSUME NEW f \in ticker.events, f # e, f.session = r, f.event = "QuestionTimeout"
        PROVE  Moving(r)'
    <3>1. f \in ticker'.events
      BY <1>5, <2>2
    <3> QED
      BY <2>2, <3>1 DEF Moving
  <2>3. ASSUME timely, e.session = r PROVE Moving(r)'
    <3>1. CASE e.type = "AutoAdvance"
      BY <1>5, <2>3, <3>1 DEF stage, Moving
    <3>2. CASE e.type # "AutoAdvance" /\ sessions[r].auto_advance_delay_ms > 0
      <4>1. ticker'.stage = "auto" /\ ticker'.session = r
        BY <1>5, <2>3, <3>2 DEF stage
      <4> QED
        BY <1>1, <3>2, <4>1 DEF Moving
    <3>3. CASE sessions[r].auto_advance_delay_ms <= 0
      <4>1. <<r, sessions[r].current_question_index>> \in DOMAIN timeouts'
        BY <1>4, <2>3
      <4> QED
        BY <1>1, <3>3, <4>1 DEF Moving
    <3>4. sessions[r].auto_advance_delay_ms \in Int
      BY SessionAssumption DEF ServerInv, IInv, TypeOK, SessionsTyped, IsSession
    <3> QED
      BY <3>1, <3>2, <3>3, <3>4
  <2>4. DOMAIN timeouts \subseteq DOMAIN timeouts'
    BY <1>4
  <2> QED
    BY <1>1, <1>2, <1>3, <2>1, <2>2, <2>3, <2>4 DEF Moving, Running
<1>12. ArmedWithinLimits'
  BY <1>1 DEF ServerInv, TimerInv, ArmedWithinLimits, WithinLimits, QuestionsOf
<1> QED
  BY <1>1, <1>2, <1>8, <1>9, <1>10, <1>11, <1>12 DEF TimerInv

(* After a timeout the deadline of the automatic advance is computed, if   *)
(* the session has one.                                                    *)
LEMMA ReadsDelayStep ==
  ASSUME ServerInv, TickReadsDelay
  PROVE  TimerInv'
<1>1. /\ UNCHANGED <<quizzes, sessions, now>> /\ Sids' = Sids /\ now \in Nat
      /\ UNCHANGED <<deadlines, last_updates, auto_advance_deadlines, call, timeouts>>
      /\ \A r \in Sids : Deadlined(r)'
  BY ManagerRests DEF TickReadsDelay, timerVars
<1>2. /\ CallsSound'
      /\ call' \in [Threads -> [stage : {"idle", "advance", "fetch", "arm"},
                               session : 0..Len(sessions'), deadline : Nat]]
      /\ \A r \in Sids : BeingArmed(r)' <=> BeingArmed(r)
  BY CallsRest DEF TickReadsDelay
<1>3. PICK s : s = ticker.session
  OBVIOUS
<1>4. PICK delay : delay = sessions[s].auto_advance_delay_ms
  OBVIOUS
<1>5. ticker.stage = "auto" /\ s \in Sids
  BY <1>3 DEF ServerInv, TimerInv, TickerSound, TickReadsDelay, TickerAt
<1>6. delay \in Int
  BY <1>4, <1>5, SessionAssumption DEF ServerInv, IInv, TypeOK, SessionsTyped, IsSession
<1>7. ticker \in [stage : {"auto"}, at : Nat, events : {ticker.events}, session : {s}]
  BY <1>3, <1>5 DEF ServerInv, TimerInv, TickerSound
<1>8. \/ /\ delay > 0
         /\ ticker' \in [stage : {"set"}, at : Nat, events : {ticker.events}, session : {s}]
      \/ /\ delay <= 0
         /\ ticker' \in [stage : {"events"}, at : Nat, events : {ticker.events}, session : {0}]
  <2>1. CASE delay > 0
    <3>1. PICK deadline \in Nat : deadline = now + delay
      BY <1>1, <1>6, <2>1
    <3>2. ticker' = [ticker EXCEPT !.stage = "set", !.at = deadline]
      BY <1>3, <1>4, <2>1, <3>1 DEF TickReadsDelay, Delay, ToSet
    <3> QED
      BY <1>7, <2>1, <3>2
  <2>2. CASE ~(delay > 0)
    <3>1. ticker' = [ticker EXCEPT !.stage = "events", !.at = 0, !.session = 0]
      <4>1. ticker' = IF Delay > 0 THEN ToSet(now + Delay) ELSE Handled
        BY DEF TickReadsDelay
      <4>2. Delay = delay
        BY <1>3, <1>4 DEF Delay
      <4> QED
        BY <2>2, <4>1, <4>2 DEF Handled
    <3>2. delay <= 0
      BY <1>6, <2>2
    <3>3. ticker' \in [stage : {"events"}, at : Nat, events : {ticker.events}, session : {0}]
      BY <1>7, <3>1
    <3> QED
      BY <3>2, <3>3
  <2> QED
    BY <2>1, <2>2
<1>9. /\ ticker'.events = ticker.events /\ ticker'.at \in Nat
      /\ ticker'.stage \in {"set", "events"} /\ ticker'.session \in {s, 0}
      /\ ticker'.stage = "set" => delay > 0 /\ ticker'.session = s
      /\ ticker'.stage = "events" => delay <= 0
  BY <1>6, <1>8
<1>10. TickerSound'
  <2>1. ticker.events \subseteq TickerEvent /\ s \in Nat
    BY <1>5, SidsAre DEF ServerInv, TimerInv, TickerSound
  <2>2. TickerEvent' = TickerEvent
    BY <1>1 DEF TickerEvent
  <2>3. ticker' \in [stage : Stages, at : Nat, events : SUBSET TickerEvent, session : Nat]
    BY <1>8, <2>1 DEF Stages
  <2> QED
    BY <1>1, <1>5, <1>9, <2>2, <2>3 DEF TickerSound
<1>11. ServerTypeOK'
  <2>1. /\ ticker'.session \in 0..Len(sessions)
        /\ \A f \in ticker'.events : f.session \in Sids
    BY <1>5, <1>9, SidsAre DEF ServerInv, TimerInv, ServerTypeOK
  <2> QED
    BY <1>1, <1>2, <1>9, <2>1 DEF ServerInv, TimerInv, ServerTypeOK, InstantMap
<1>12. ASSUME NEW r \in Sids PROVE QuietLobby(r)'
  <2>1. QuietLobby(r)
    BY DEF ServerInv, TimerInv
  <2>2. InTickersHands(r)' => InTickersHands(r)
    BY <1>3, <1>5, <1>9 DEF InTickersHands
  <2> QED
    BY <1>1, <2>1, <2>2 DEF QuietLobby
<1>13. ASSUME NEW r \in Sids PROVE Moving(r)'
  <2>1. Moving(r)
    BY DEF ServerInv, TimerInv
  <2>2. r = s /\ sessions[r].auto_advance_delay_ms > 0
          => ticker'.stage = "set" /\ ticker'.session = r
    BY <1>4, <1>6, <1>9
  <2> QED
    BY <1>1, <1>2, <1>3, <1>5, <1>9, <2>1, <2>2 DEF Moving, Running
<1>14. ArmedWithinLimits'
  BY <1>1 DEF ServerInv, TimerInv, ArmedWithinLimits, WithinLimits, QuestionsOf
<1> QED
  BY <1>1, <1>2, <1>10, <1>11, <1>12, <1>13, <1>14 DEF TimerInv

(* Then it is set, whatever happened to the session meanwhile.             *)
LEMMA SetsAutoStep ==
  ASSUME ServerInv, TickSetsAutoAdvance
  PROVE  TimerInv'
<1> DEFINE s == ticker.session
           deadline == ticker.at
<1>1. /\ UNCHANGED <<quizzes, sessions, now>> /\ Sids' = Sids /\ now \in Nat
      /\ UNCHANGED <<call, timeouts>>
      /\ \A r \in Sids : Deadlined(r)'
  BY ManagerRests DEF TickSetsAutoAdvance
<1>2. /\ CallsSound'
      /\ call' \in [Threads -> [stage : {"idle", "advance", "fetch", "arm"},
                               session : 0..Len(sessions'), deadline : Nat]]
      /\ \A r \in Sids : BeingArmed(r)' <=> BeingArmed(r)
  BY CallsRest DEF TickSetsAutoAdvance
<1>3. ticker.stage = "set" /\ s \in Sids
  BY DEF ServerInv, TimerInv, TickerSound, TickSetsAutoAdvance, TickerAt
<1>4. deadline \in Nat
  BY DEF ServerInv, TimerInv, TickerSound
<1>5. UNCHANGED <<deadlines, last_updates>>
  BY DEF TickSetsAutoAdvance, Timer!SetAutoAdvanceDeadline, timerVars
<1>6. auto_advance_deadlines' =
        [k \in DOMAIN auto_advance_deadlines \cup {s} |->
           IF k = s THEN deadline ELSE auto_advance_deadlines[k]]
  BY DEF TickSetsAutoAdvance, Timer!SetAutoAdvanceDeadline, Timer!Put, timerVars
<1>7. ticker' \in [stage : {"events"}, at : {0}, events : {ticker.events}, session : {0}]
  <2>1. ticker' = [ticker EXCEPT !.stage = "events", !.at = 0, !.session = 0]
    BY DEF TickSetsAutoAdvance, Handled
  <2> QED
    BY <2>1 DEF ServerInv, TimerInv, TickerSound
<1> HIDE DEF s, deadline
<1>8. TickerSound'
  <2>1. ticker.events \subseteq TickerEvent
    BY DEF ServerInv, TimerInv, TickerSound
  <2>2. TickerEvent' = TickerEvent
    BY <1>1 DEF TickerEvent
  <2>3. ticker' \in [stage : Stages, at : Nat, events : SUBSET TickerEvent, session : Nat]
    BY <1>7, <2>1 DEF Stages
  <2> QED
    BY <1>7, <2>2, <2>3 DEF TickerSound
<1>9. ServerTypeOK'
  <2>1. InstantMap(auto_advance_deadlines)'
    BY <1>1, <1>3, <1>4, <1>6 DEF ServerInv, TimerInv, ServerTypeOK, InstantMap
  <2>2. /\ ticker'.stage = "events" /\ ticker'.at \in Nat
        /\ ticker'.session \in 0..Len(sessions)
        /\ \A f \in ticker'.events : f.session \in Sids
    BY <1>7, SidsAre DEF ServerInv, TimerInv, ServerTypeOK
  <2> QED
    BY <1>1, <1>2, <1>5, <2>1, <2>2 DEF ServerInv, TimerInv, ServerTypeOK, InstantMap
<1>10. ASSUME NEW r \in Sids PROVE QuietLobby(r)'
  <2>1. QuietLobby(r)
    BY DEF ServerInv, TimerInv
  <2>2. sessions[r].state = "Lobby" => r # s
    BY <1>3, <2>1 DEF QuietLobby, InTickersHands, s
  <2>3. InTickersHands(r)' => InTickersHands(r)
    BY <1>7 DEF InTickersHands
  <2> QED
    BY <1>1, <1>5, <1>6, <2>1, <2>2, <2>3 DEF QuietLobby
<1>11. ASSUME NEW r \in Sids PROVE Moving(r)'
  <2>1. Moving(r)
    BY DEF ServerInv, TimerInv
  <2>2. r = s => r \in DOMAIN auto_advance_deadlines'
    BY <1>6
  <2>3. DOMAIN auto_advance_deadlines \subseteq DOMAIN auto_advance_deadlines'
    BY <1>6
  <2>4. ticker'.events = ticker.events
    BY <1>7
  <2> QED
    BY <1>1, <1>2, <1>3, <1>5, <2>1, <2>2, <2>3, <2>4 DEF Moving, Running, s
<1>12. ArmedWithinLimits'
  BY <1>1, <1>5 DEF ServerInv, TimerInv, ArmedWithinLimits, WithinLimits, QuestionsOf
<1> QED
  BY <1>1, <1>2, <1>8, <1>9, <1>10, <1>11, <1>12 DEF TimerInv

-----------------------------------------------------------------------------
(* The invariant.                                                          *)

(* At the start no timer runs and nobody is in a call.                     *)
LEMMA InitServerInv == ServerInit => ServerInv
<1> SUFFICES ASSUME ServerInit
             PROVE  ServerInv
  OBVIOUS
<1>1. IInv
  BY InitIInv DEF ServerInit
<1>2. sessions = <<>> /\ now = 0 /\ Sids = {} /\ Len(sessions) = 0
  BY EmptyIsSeq DEF ServerInit, ManagerInit, Sids
<1>3. /\ DOMAIN deadlines = {} /\ DOMAIN last_updates = {} /\ DOMAIN auto_advance_deadlines = {}
      /\ DOMAIN timeouts = {}
  BY DEF ServerInit, Timer!TimerInit, Timer!Nothing
<1>4. call = [t \in Threads |-> Idle] /\ ticker = Resting
  BY DEF ServerInit
<1>5. ServerTypeOK
  BY <1>2, <1>3, <1>4 DEF ServerTypeOK, InstantMap, Idle, Resting
<1>6. TickerSound /\ CallsSound /\ ArmedWithinLimits
  BY <1>2, <1>4 DEF TickerSound, CallsSound, ArmedWithinLimits, Idle, Resting, Stages
<1> QED
  BY <1>1, <1>2, <1>5, <1>6 DEF ServerInv, TimerInv

(* A command that only the manager sees, or the send of an event.          *)
LEMMA PlainSteps ==
  ASSUME ServerInv, NEW t \in Threads, PlainCommand(t) \/ SendEvent(t)
  PROVE  ServerInv'
<1>1. UNCHANGED <<timerVars, call, ticker, timeouts>>
  BY DEF PlainCommand, SendEvent
<1>2. ASSUME NEW code \in DOMAIN quizzes, NEW host \in PlayerIds, NEW pin \in Pins,
             NEW delay \in Delays, CreateSession(t, code, host, pin, delay)
      PROVE  IInv' /\ GamesRest
  BY <1>2, CreateSessionStep, CreateRests DEF ServerInv
<1>3. ASSUME NEW s \in Sids, NEW id \in PlayerIds, NEW pin \in Pins, JoinAsPlayer(t, s, pin, id)
      PROVE  IInv' /\ GamesRest
  BY <1>3, JoinStep, PlayersRest DEF ServerInv
<1>4. ASSUME NEW s \in Sids, NEW id \in PlayerIds, Leave(t, s, id)
      PROVE  IInv' /\ GamesRest
  BY <1>4, LeaveStep, PlayersRest DEF ServerInv
<1>5. ASSUME NEW s \in Sids, NEW id \in PlayerIds, NEW answer \in Answers,
             SubmitAnswer(t, s, id, answer)
      PROVE  IInv' /\ GamesRest
  BY <1>5, SubmitAnswerStep, PlayersRest DEF ServerInv
<1>6. ASSUME Broadcast(t) PROVE IInv' /\ GamesRest
  <2>1. UNCHANGED <<sessions, quizzes, now>>
    BY <1>6 DEF Broadcast
  <2> QED
    BY <1>6, <2>1, BroadcastStep, OthersRest DEF ServerInv
<1>7. IInv' /\ GamesRest
  BY <1>2, <1>3, <1>4, <1>5, <1>6 DEF PlainCommand, SendEvent
<1> QED
  BY <1>1, <1>7, RestStep DEF ServerInv

(* StartGame, and the step of NextQuestion that asks the manager.          *)
LEMMA GameSteps ==
  ASSUME ServerInv, NEW t \in Threads, (\E s \in Sids : ControllerStart(t, s)) \/ AdvanceGame(t)
  PROVE  ServerInv'
<1>1. ASSUME NEW s \in Sids, ControllerStart(t, s) PROVE ServerInv'
  <2>1. /\ StartGame(t, s) /\ Goes(t, At("fetch", s, 0)) /\ call[t] = Idle
        /\ UNCHANGED <<timerVars, ticker, timeouts>>
    BY <1>1 DEF ControllerStart, Available
  <2>2. IInv' /\ GameGoesOn(s)
    BY <2>1, StartGameStep, StartGoesOn DEF ServerInv
  <2> QED
    BY <2>1, <2>2, GoesOnStep DEF ServerInv
<1>2. ASSUME AdvanceGame(t) PROVE ServerInv'
  <2>1. PICK s : s = call[t].session
    OBVIOUS
  <2>2. call[t].stage = "advance" /\ s \in Sids /\ UNCHANGED <<timerVars, ticker, timeouts>>
    BY <1>2, <2>1 DEF AdvanceGame, ServerInv, TimerInv, CallsSound
  <2>3. CASE NextQuestion(t, s) /\ Goes(t, At("fetch", s, 0))
    <3>1. Deadlined(s)
      BY <2>2 DEF ServerInv, TimerInv
    <3>2. IInv' /\ GameGoesOn(s)
      BY <2>2, <2>3, <3>1, NextQuestionStep, NextGoesOn DEF ServerInv
    <3> QED
      BY <2>1, <2>2, <2>3, <3>2, GoesOnStep DEF ServerInv
  <2>4. CASE ~CanAdvance(sessions[s]) /\ Goes(t, Idle) /\ UNCHANGED managerVars
    <3>1. ~Running(s)
      BY <2>4 DEF CanAdvance, Running
    <3>2. TimerInv'
      BY <2>1, <2>2, <2>4, <3>1, RefusedStep
    <3>3. [ManagerNext]_managerVars
      BY <2>4
    <3> QED
      BY <3>2, <3>3, NextIInv DEF ServerInv
  <2> QED
    BY <1>2, <2>1, <2>3, <2>4 DEF AdvanceGame
<1> QED
  BY <1>1, <1>2

(* The tick handler.                                                       *)
LEMMA TickerSteps ==
  ASSUME ServerInv, TickerStep
  PROVE  ServerInv'
<1>1. ASSUME UNCHANGED managerVars PROVE IInv'
  BY <1>1, NextIInv DEF ServerInv
<1>2. ASSUME TickReadsClock PROVE ServerInv'
  <2>1. UNCHANGED <<managerVars, timerVars, call, timeouts>>
        /\ ticker.stage = "rest" /\ ticker' = [ticker EXCEPT !.stage = "clock", !.at = now]
    BY <1>2 DEF TickReadsClock, TickerAt
  <2>2. UNCHANGED <<sessions, quizzes, now>>
    BY <2>1 DEF managerVars
  <2>3. TickerHoldsNothing
    <3>1. ticker.events = {} /\ now' \in Nat
      BY <2>1, <2>2 DEF ServerInv, TimerInv, TickerSound, IInv, TypeOK
    <3> QED
      BY <2>1, <2>2, <3>1 DEF TickerHoldsNothing, ServerInv, TimerInv, TickerSound
  <2>4. GamesRest
    BY <2>2, OthersRest DEF ServerInv
  <2> QED
    BY <1>1, <2>1, <2>3, <2>4, RestStep DEF ServerInv
<1>3. ASSUME TickUnderLock PROVE ServerInv'
  BY <1>1, <1>3, UnderLockStep DEF TickUnderLock, ServerInv
<1>4. ASSUME NEW e \in ticker.events, TickBroadcasts(e) PROVE ServerInv'
  BY <1>1, <1>4, BroadcastsStep DEF TickBroadcasts, ServerInv
<1>5. ASSUME TickSetsAutoAdvance PROVE ServerInv'
  BY <1>1, <1>5, SetsAutoStep DEF TickSetsAutoAdvance, ServerInv
<1>8. ASSUME TickReadsDelay PROVE ServerInv'
  BY <1>1, <1>8, ReadsDelayStep DEF TickReadsDelay, ServerInv
<1>6. ASSUME TickAdvances PROVE ServerInv'
  <2>1. PICK s : s = ticker.session
    OBVIOUS
  <2>2. /\ ClearTimers(Ticker, s) /\ ticker.stage = "next" /\ Ticker \in Threads /\ s \in Sids
        /\ ticker' = [ticker EXCEPT !.stage = "events", !.session = 0]
        /\ UNCHANGED managerVars
    BY <1>6, <2>1, ServerAssumption
    DEF TickAdvances, TickerAt, ClearTimers, ServerInv, TimerInv, TickerSound
  <2> QED
    BY <1>1, <2>1, <2>2, ClearStep DEF ServerInv
<1>7. ASSUME TickCleansUp PROVE ServerInv'
  <2>1. CleanupBegin \/ CleanupStep
    BY <1>7 DEF TickCleansUp
  <2>2. IInv' /\ GamesRest
    BY <2>1, CleanupKeeps, CleanupRests DEF ServerInv
  <2>3. UNCHANGED <<timerVars, call, timeouts>>
    BY <1>7 DEF TickCleansUp
  <2>4. UNCHANGED now /\ now \in Nat
    BY <2>1
    DEF ServerInv, IInv, TypeOK, CleanupBegin, CleanupStep, CleanupList, CleanupSession,
        CleanupAnnounce, CleanupEnd
  <2>5. ticker.events = {} /\ ticker.stage \notin {"auto", "set", "next"} /\ ticker.at \in Nat
    BY <1>7 DEF TickCleansUp, TickerAt, ServerInv, TimerInv, TickerSound, ServerTypeOK
  <2>6. \/ ticker' = [ticker EXCEPT !.stage = "cleanup"]
        \/ ticker' = ticker \/ ticker' = Resting
    BY <1>7 DEF TickCleansUp
  <2>7. UNCHANGED ticker \/ TickerHoldsNothing
    <3>1. CASE ticker' = [ticker EXCEPT !.stage = "cleanup"]
      BY <2>4, <2>5, <3>1 DEF TickerHoldsNothing, ServerInv, TimerInv, TickerSound
    <3>2. CASE ticker' = Resting
      BY <2>4, <2>5, <3>2 DEF TickerHoldsNothing, Resting
    <3> QED
      BY <2>6, <3>1, <3>2
  <2> QED
    BY <2>2, <2>3, <2>7, RestStep DEF ServerInv
<1> QED
  BY <1>2, <1>3, <1>4, <1>5, <1>6, <1>7, <1>8 DEF TickerStep

(* No step of the server breaks the invariant.                             *)
LEMMA NextServerInv == ServerInv /\ [ServerNext]_serverVars => ServerInv'
<1> SUFFICES ASSUME ServerInv, [ServerNext]_serverVars
             PROVE  ServerInv'
  OBVIOUS
<1>1. ASSUME UNCHANGED managerVars PROVE IInv'
  BY <1>1, NextIInv DEF ServerInv
<1>2. ASSUME NEW t \in Threads, PlainCommand(t) \/ SendEvent(t) PROVE ServerInv'
  BY <1>2, PlainSteps
<1>3. ASSUME NEW t \in Threads, (\E s \in Sids : ControllerStart(t, s)) \/ AdvanceGame(t)
      PROVE  ServerInv'
  BY <1>3, GameSteps
<1>4. ASSUME NEW t \in Threads, NEW s \in Sids, ControllerNext(t, s) PROVE ServerInv'
  BY <1>1, <1>4, ClearStep DEF ControllerNext, ClearTimers, ServerInv
<1>5. ASSUME NEW t \in Threads, FetchDeadline(t) PROVE ServerInv'
  BY <1>1, <1>5, FetchStep DEF FetchDeadline, ServerInv
<1>6. ASSUME NEW t \in Threads, ArmTimer(t) PROVE ServerInv'
  BY <1>1, <1>6, ArmStep DEF ArmTimer, ServerInv
<1>7. ASSUME TickerStep PROVE ServerInv'
  BY <1>7, TickerSteps
<1>8. ASSUME SilentCommand PROVE ServerInv'
  <2>1. UNCHANGED <<timerVars, call, ticker, timeouts>>
    BY <1>8 DEF SilentCommand
  <2>2. ASSUME NEW quiz \in QuizDrafts, StoreQuiz(quiz) PROVE IInv' /\ GamesRest
    <3>1. UNCHANGED sessions
      BY <2>2 DEF StoreQuiz
    <3> QED
      BY <2>2, <3>1, StoreQuizStep, OthersRest DEF ServerInv
  <2>3. ASSUME NEW s \in Sids, NEW id \in Droppers, Disconnect(s, id) \/ Reconnect(s, id)
        PROVE  IInv' /\ GamesRest
    BY <2>3, PresenceStep, PlayersRest DEF ServerInv
  <2>4. IInv' /\ GamesRest
    BY <1>8, <2>2, <2>3 DEF SilentCommand
  <2> QED
    BY <2>1, <2>4, RestStep DEF ServerInv
<1>9. ASSUME ClockRuns PROVE ServerInv'
  <2>1. PICK instants : TimePasses(instants)
    BY <1>9 DEF ClockRuns
  <2>2. IInv' /\ GamesRest
    <3>1. UNCHANGED sessions
      BY <2>1 DEF TimePasses
    <3> QED
      BY <2>1, <3>1, TimeStep, OthersRest DEF ServerInv
  <2>3. UNCHANGED <<timerVars, call, ticker, timeouts>>
    BY <1>9 DEF ClockRuns
  <2> QED
    BY <2>2, <2>3, RestStep DEF ServerInv
<1>10. ASSUME UNCHANGED serverVars PROVE ServerInv'
  <2>1. UNCHANGED <<managerVars, timerVars, call, ticker, timeouts>>
    BY <1>10 DEF serverVars
  <2>2. UNCHANGED <<sessions, quizzes, now>>
    BY <2>1 DEF managerVars
  <2>3. GamesRest
    BY <2>2, OthersRest DEF ServerInv
  <2> QED
    BY <1>1, <2>1, <2>3, RestStep DEF ServerInv
<1> QED
  BY <1>2, <1>3, <1>4, <1>5, <1>6, <1>7, <1>8, <1>9, <1>10 DEF ServerNext, CallStep

(* The invariant holds in every state of the server.                       *)
LEMMA AlwaysServerInv == ServerSpec => []ServerInv
BY InitServerInv, NextServerInv, PTL DEF ServerSpec

-----------------------------------------------------------------------------
(* The variables of the server keep their types: the tick handler and the  *)
(* controller calls only ever name sessions that exist, and every deadline *)
(* is an instant.                                                          *)
THEOREM ServerTypeCorrect == ServerSpec => []ServerTypeOK
<1>1. ServerInv => ServerTypeOK
  BY DEF ServerInv, TimerInv
<1> QED
  BY <1>1, AlwaysServerInv, PTL

(* A running game always has what will move it on, whatever the number of  *)
(* threads that start, advance and time it out at once and wherever they   *)
(* are interrupted between the manager and the timers.                     *)
THEOREM TimersAreNotLost == ServerSpec => []TimerNotLost
<1>1. ServerInv => TimerNotLost
  BY DEF ServerInv, TimerInv, Moving, TimerNotLost, InTickersHands
<1> QED
  BY <1>1, AlwaysServerInv, PTL

(* A session in the lobby has no timer and is sent no timeout.             *)
THEOREM LobbiesStayQuiet == ServerSpec => []LobbyIsQuiet
<1>1. ServerInv => LobbyIsQuiet
  BY DEF ServerInv, TimerInv, QuietLobby, LobbyIsQuiet
<1> QED
  BY <1>1, AlwaysServerInv, PTL

(* However stale the copy it comes from, a deadline that is armed is never *)
(* further ahead than the limit of a question the session has come to.     *)
THEOREM WaitsAreLimited == ServerSpec => []ArmedWithinLimits
<1>1. ServerInv => ArmedWithinLimits
  BY DEF ServerInv, TimerInv
<1> QED
  BY <1>1, AlwaysServerInv, PTL

(* Under the controller and the tick handler, too, the question index of a *)
(* session always names a question of its quiz.                            *)
THEOREM ServerQuestionsExist == ServerSpec => []QuestionInRange
<1>1. ServerInv => QuestionInRange
  BY DEF ServerInv, IInv
<1> QED
  BY <1>1, AlwaysServerInv, PTL
=============================================================================
