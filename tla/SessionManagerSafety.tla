------------------------ MODULE SessionManagerSafety ------------------------
(***************************************************************************)
(* The safety properties of SessionManager that need more than types: who  *)
(* is credited for what, what a step may never do, and, at the end, that   *)
(* SessionManager implements QuizGame, for any number of threads, players, *)
(* sessions and quizzes.                                                   *)
(***************************************************************************)
EXTENDS SessionManagerProofs, SessionManagerGame, FiniteSetTheorems, WellFoundedInduction

(* What the answered flag is for: an accepted answer belongs to a game     *)
(* that has started and to a question up to the current one, and whoever   *)
(* answered the current one carries the flag while the game runs.          *)
AnswersAccounted ==
  \A s \in Sids : \A e \in ledger[s] :
    /\ sessions[s].state # "Lobby"
    /\ e.question <= sessions[s].current_question_index
    /\ /\ sessions[s].state = "Running"
       /\ e.question = sessions[s].current_question_index
       /\ e.player \in DOMAIN sessions[s].players
       => sessions[s].players[e.player].answered_current_question

LInv == AnswersAccounted /\ OneAnswerPerQuestion

(* From the lobby on, a session may only move to a later question, or keep *)
(* the flags of the players it keeps.                                      *)
KeepsFlags(old, new) ==
  old.state # "Lobby" =>
    /\ new.state # "Lobby"
    /\ new.current_question_index >= old.current_question_index
    /\ new.state = "Running" /\ new.current_question_index = old.current_question_index =>
         /\ old.state = "Running"
         /\ \A p \in DOMAIN new.players :
              /\ p \in DOMAIN old.players
              /\ new.players[p].answered_current_question
                   = old.players[p].answered_current_question

(* Nobody's score changes, and who is new has none.                        *)
KeepsScores(old, new) ==
  \A p \in DOMAIN new.players :
    \/ p \in DOMAIN old.players /\ new.players[p].score = old.players[p].score
    \/ old.state = "Lobby" /\ new.players[p].score = 0

KeepsCredits(old, new) == KeepsFlags(old, new) /\ KeepsScores(old, new)

-----------------------------------------------------------------------------
(* Each rule of the domain moves a session on and keeps its flags.         *)

(* A session left alone.                                                   *)
LEMMA SameMoves ==
  ASSUME NEW s, IsSession(s)
  PROVE  MovesOn(s, s) /\ KeepsCredits(s, s)
BY DEF IsSession, IsMap, Player, SessionState, MovesOn, KeepsCredits, KeepsFlags, KeepsScores

(* AddPlayer.                                                              *)
LEMMA AddPlayerMoves ==
  ASSUME NEW s, IsSession(s), NEW id \in PlayerIds, CanAddPlayer(s, id)
  PROVE  MovesOn(s, AddPlayer(s, id)) /\ KeepsCredits(s, AddPlayer(s, id))
<1> DEFINE f == [p \in DOMAIN s.players \cup {id} |-> IF p = id THEN NewPlayer ELSE s.players[p]]
           x == [s EXCEPT !.players = f]
<1>1. /\ x.state = s.state /\ x.players = f
      /\ x.current_question_index = s.current_question_index
  <2> HIDE DEF f
  <2> QED BY DEF IsSession
<1>2. s.state = "Lobby" /\ id \notin DOMAIN s.players /\ s.current_question_index \in Nat
  BY DEF CanAddPlayer, HasPlayer, IsSession
<1>3. /\ DOMAIN f = DOMAIN s.players \cup {id} /\ f[id].score = 0
      /\ \A p \in DOMAIN s.players : f[p] = s.players[p]
  BY <1>2 DEF NewPlayer
<1> HIDE DEF x, f
<1>4. MovesOn(s, x) /\ KeepsCredits(s, x)
  BY <1>1, <1>2, <1>3 DEF MovesOn, KeepsCredits, KeepsFlags, KeepsScores
<1> QED
  BY <1>4 DEF AddPlayer, x, f

(* RemovePlayers.                                                          *)
LEMMA RemovePlayersMoves ==
  ASSUME NEW s, IsSession(s), NEW ids
  PROVE  MovesOn(s, RemovePlayers(s, ids)) /\ KeepsCredits(s, RemovePlayers(s, ids))
<1> DEFINE f == [p \in DOMAIN s.players \ ids |-> s.players[p]]
           x == [s EXCEPT !.players = f]
<1>1. /\ x.state = s.state /\ x.players = f
      /\ x.current_question_index = s.current_question_index
  <2> HIDE DEF f
  <2> QED BY DEF IsSession
<1>2. s.current_question_index \in Nat /\ s.state \in SessionState
  BY DEF IsSession
<1>3. DOMAIN f \subseteq DOMAIN s.players /\ \A p \in DOMAIN f : f[p] = s.players[p]
  OBVIOUS
<1> HIDE DEF x, f
<1>4. MovesOn(s, x) /\ KeepsCredits(s, x)
  BY <1>1, <1>2, <1>3 DEF MovesOn, KeepsCredits, KeepsFlags, KeepsScores, SessionState
<1> QED
  BY <1>4 DEF RemovePlayers, x, f

(* StartGame, once the first question has its deadline.                    *)
LEMMA StartMoves ==
  ASSUME NEW s, IsSession(s), CanStartGame(s), NEW deadline,
         s.current_question_index = 0
  PROVE  /\ MovesOn(s, WithDeadline(StartedGame(s), deadline))
         /\ KeepsCredits(s, WithDeadline(StartedGame(s), deadline))
<1> DEFINE f == FlagsCleared(s.players)
           x == WithDeadline(StartedGame(s), deadline)
<1>1. x.state = "Running" /\ x.current_question_index = 0 /\ x.players = f
  <2> DEFINE y == StartedGame(s)
  <2>1. /\ y.state = "Running" /\ y.current_question_index = 0 /\ y.players = f
        /\ DOMAIN y = DOMAIN s
    <3> HIDE DEF f
    <3> QED BY DEF StartedGame, IsSession, f
  <2>2. DOMAIN s = {"pin", "quiz_code", "state", "players", "current_question_index",
                    "question_deadline", "has_question_deadline", "auto_advance_delay_ms"}
    BY DEF IsSession
  <2> HIDE DEF y, f
  <2> QED
    BY <2>1, <2>2 DEF WithDeadline, y
<1>2. s.state = "Lobby"
  BY DEF CanStartGame
<1>3. \A p \in DOMAIN f : p \in DOMAIN s.players /\ f[p].score = s.players[p].score
  BY DEF FlagsCleared, IsSession, IsMap, Player
<1> HIDE DEF x, f
<1> QED
  BY <1>1, <1>2, <1>3 DEF MovesOn, KeepsCredits, KeepsFlags, KeepsScores, x

(* AdvanceToNextQuestion, to the end of the game or not.                   *)
LEMMA AdvanceMoves ==
  ASSUME NEW s, IsSession(s), CanAdvance(s), NEW total \in Nat, NEW x, NEW deadline,
         \/ x = AdvanceToNextQuestion(s, total)
         \/ x = WithDeadline(AdvanceToNextQuestion(s, total), deadline)
  PROVE  /\ MovesOn(s, x) /\ KeepsCredits(s, x)
         /\ x.current_question_index = s.current_question_index + 1
<1> DEFINE f == FlagsCleared(s.players)
           y == AdvanceToNextQuestion(s, total)
<1>1. /\ y.state \in {"Running", "Finished"}
      /\ y.current_question_index = s.current_question_index + 1
      /\ y.players = f /\ DOMAIN y = DOMAIN s
  <2> HIDE DEF f
  <2> QED BY DEF AdvanceToNextQuestion, IsSession, CanAdvance, f
<1>2. DOMAIN s = {"pin", "quiz_code", "state", "players", "current_question_index",
                  "question_deadline", "has_question_deadline", "auto_advance_delay_ms"}
  BY DEF IsSession
<1>3. s.state = "Running" /\ s.current_question_index \in Nat
  BY DEF CanAdvance, IsSession
<1>4. \A p \in DOMAIN f : p \in DOMAIN s.players /\ f[p].score = s.players[p].score
  BY DEF FlagsCleared, IsSession, IsMap, Player
<1>5. /\ x.state \in {"Running", "Finished"}
      /\ x.current_question_index = s.current_question_index + 1 /\ x.players = f
  <2> HIDE DEF y, f
  <2> QED BY <1>1, <1>2 DEF WithDeadline, y
<1> HIDE DEF f
<1> QED
  BY <1>3, <1>4, <1>5 DEF MovesOn, KeepsCredits, KeepsFlags, KeepsScores

(* A player entry whose score is the same, unless the game runs.           *)
LEMMA WithPlayerMoves ==
  ASSUME NEW s, IsSession(s), NEW id \in DOMAIN s.players, NEW player \in Player,
         s.state = "Running" \/ player.score = s.players[id].score
  PROVE  MovesOn(s, WithPlayer(s, id, player))
<1> DEFINE f == [s.players EXCEPT ![id] = player]
           x == [s EXCEPT !.players = f]
<1>1. /\ x.state = s.state /\ x.players = f
      /\ x.current_question_index = s.current_question_index
  <2> HIDE DEF f
  <2> QED BY DEF IsSession
<1>2. s.current_question_index \in Nat /\ s.state \in SessionState
  BY DEF IsSession
<1>3. DOMAIN f = DOMAIN s.players /\ f[id] = player
      /\ \A p \in DOMAIN f : p # id => f[p] = s.players[p]
  BY DEF IsSession, IsMap
<1> HIDE DEF x, f
<1>4. MovesOn(s, x)
  BY <1>1, <1>2, <1>3 DEF MovesOn, SessionState
<1> QED
  BY <1>4 DEF WithPlayer, x, f

(* Disconnect and Reconnect: neither score nor flag changes.               *)
LEMMA PresenceMoves ==
  ASSUME NEW s, IsSession(s), NEW id \in DOMAIN s.players, NEW at \in Nat, NEW x,
         x = DisconnectPlayer(s, id, at) \/ x = ReconnectPlayer(s, id)
  PROVE  MovesOn(s, x) /\ KeepsCredits(s, x)
<1>1. s.players[id] \in Player
  BY DEF IsSession, IsMap
<1>2. PICK player \in Player :
        /\ player.score = s.players[id].score
        /\ player.answered_current_question = s.players[id].answered_current_question
        /\ x = WithPlayer(s, id, player)
  <2>1. CASE x = DisconnectPlayer(s, id, at)
    <3> DEFINE player == [s.players[id] EXCEPT !.connected = FALSE, !.disconnected_at = at]
    <3>1. /\ player \in Player /\ player.score = s.players[id].score
          /\ player.answered_current_question = s.players[id].answered_current_question
      BY <1>1 DEF Player
    <3> QED
      BY <2>1, <3>1 DEF DisconnectPlayer
  <2>2. CASE x = ReconnectPlayer(s, id)
    <3> DEFINE player == [s.players[id] EXCEPT !.connected = TRUE, !.disconnected_at = Never]
    <3>1. /\ player \in Player /\ player.score = s.players[id].score
          /\ player.answered_current_question = s.players[id].answered_current_question
      BY <1>1 DEF Player
    <3> QED
      BY <2>2, <3>1 DEF ReconnectPlayer
  <2> QED
    BY <2>1, <2>2
<1>3. MovesOn(s, x)
  BY <1>2, WithPlayerMoves
<1>4. KeepsCredits(s, x)
  <2> DEFINE f == [s.players EXCEPT ![id] = player]
  <2>1. /\ x.state = s.state /\ x.players = f
        /\ x.current_question_index = s.current_question_index
    <3> HIDE DEF f
    <3> QED BY <1>2 DEF IsSession, WithPlayer, f
  <2>2. DOMAIN f = DOMAIN s.players
        /\ \A p \in DOMAIN f :
             /\ f[p].answered_current_question = s.players[p].answered_current_question
             /\ f[p].score = s.players[p].score
    BY <1>2 DEF IsSession, IsMap
  <2>3. s.current_question_index \in Nat
    BY DEF IsSession
  <2> HIDE DEF f
  <2> QED
    BY <2>1, <2>2, <2>3 DEF KeepsCredits, KeepsFlags, KeepsScores
<1> QED
  BY <1>3, <1>4

-----------------------------------------------------------------------------
(* What a step may do to a session, whoever takes it.                      *)

OneSessionMoves ==
  \E s \in Sids : \E x :
    /\ MovesOn(sessions[s], x) /\ KeepsCredits(sessions[s], x)
    /\ Update(s, x) /\ UNCHANGED ledger

SessionAppears ==
  \E x : /\ sessions' = Append(sessions, x) /\ ledger' = Append(ledger, {})
        /\ \A p \in DOMAIN x.players : x.players[p].score = 0

AnswerAccepted ==
  \E t \in Threads, s \in Sids, id \in PlayerIds, answer \in Answers :
    SubmitAnswer(t, s, id, answer)

(* Every step is of one of four kinds.                                     *)
LEMMA StepKinds ==
  ASSUME IInv, [ManagerNext]_managerVars
  PROVE  \/ OneSessionMoves
         \/ SessionAppears
         \/ AnswerAccepted
         \/ UNCHANGED <<sessions, ledger>>
<1>1. \A s \in Sids : /\ IsSession(sessions[s]) /\ IndexFitsState(sessions[s])
                      /\ HasQuiz(sessions[s].quiz_code)
  BY DEF IInv, TypeOK, SessionsTyped, QuestionInRange, IndexFitsState
<1>2. now \in Nat
  BY DEF IInv, TypeOK
<1>3. ASSUME NEW quiz \in QuizDrafts, StoreQuiz(quiz) PROVE UNCHANGED <<sessions, ledger>>
  BY <1>3 DEF StoreQuiz
<1>4. ASSUME NEW t \in Threads, NEW code, NEW host, NEW pin, NEW delay,
             CreateSession(t, code, host, pin, delay)
      PROVE  SessionAppears
  <2> DEFINE x == NewSession(code, pin, host, delay)
  <2>1. \A p \in DOMAIN x.players : x.players[p].score = 0
    BY DEF NewSession, NewPlayer
  <2>2. sessions' = Append(sessions, x) /\ ledger' = Append(ledger, {})
    BY <1>4 DEF CreateSession
  <2> HIDE DEF x
  <2> QED
    BY <2>1, <2>2 DEF SessionAppears
<1>5. ASSUME NEW t \in Threads, NEW s \in Sids, NEW pin, NEW id \in PlayerIds,
             JoinAsPlayer(t, s, pin, id)
      PROVE  OneSessionMoves
  <2>1. CanAddPlayer(sessions[s], id) /\ Update(s, AddPlayer(sessions[s], id)) /\ UNCHANGED ledger
    BY <1>5 DEF JoinAsPlayer
  <2> QED
    BY <1>1, <2>1, AddPlayerMoves DEF OneSessionMoves
<1>6. ASSUME NEW t \in Threads, NEW s \in Sids, NEW id \in PlayerIds, Leave(t, s, id)
      PROVE  OneSessionMoves
  <2>1. Update(s, RemovePlayers(sessions[s], {id})) /\ UNCHANGED ledger
    BY <1>6 DEF Leave
  <2> QED
    BY <1>1, <2>1, RemovePlayersMoves DEF OneSessionMoves
<1>7. ASSUME NEW t \in Threads, NEW s \in Sids, StartGame(t, s)
      PROVE  OneSessionMoves
  <2>1. CanStartGame(sessions[s]) /\ UNCHANGED ledger
        /\ \E deadline : Update(s, WithDeadline(StartedGame(sessions[s]), deadline))
    BY <1>7 DEF StartGame
  <2>2. sessions[s].current_question_index = 0
    BY <1>1, <2>1 DEF IndexFitsState, CanStartGame
  <2> QED
    BY <1>1, <2>1, <2>2, StartMoves DEF OneSessionMoves
<1>8. ASSUME NEW t \in Threads, NEW s \in Sids, NextQuestion(t, s)
      PROVE  OneSessionMoves
  <2> DEFINE total == Len(QuestionsOf(s))
             next  == AdvanceToNextQuestion(sessions[s], total)
  <2>1. /\ CanAdvance(sessions[s]) /\ UNCHANGED ledger
        /\ \/ Update(s, next)
           \/ \E deadline : Update(s, WithDeadline(next, deadline))
    BY <1>8 DEF NextQuestion
  <2>2. total \in Nat
    BY <1>1, StoredQuestions DEF QuestionsOf, HasQuiz
  <2> HIDE DEF total
  <2> QED
    BY <1>1, <2>1, <2>2, AdvanceMoves DEF OneSessionMoves
<1>9. ASSUME NEW s \in Sids, NEW id \in Droppers, Disconnect(s, id) \/ Reconnect(s, id)
      PROVE  OneSessionMoves
  <2>1. /\ id \in DOMAIN sessions[s].players /\ UNCHANGED ledger
        /\ \/ Update(s, DisconnectPlayer(sessions[s], id, now))
           \/ Update(s, ReconnectPlayer(sessions[s], id))
    BY <1>9 DEF Disconnect, Reconnect, HasPlayer
  <2> QED
    BY <1>1, <1>2, <2>1, PresenceMoves DEF OneSessionMoves
<1>10. ASSUME NEW s \in Sids, CleanupSession(s)
       PROVE  OneSessionMoves
  <2>1. UNCHANGED ledger /\ \E gone : Update(s, RemovePlayers(sessions[s], gone))
    BY <1>10 DEF CleanupSession
  <2> QED
    BY <1>1, <2>1, RemovePlayersMoves DEF OneSessionMoves
<1>11. CASE \/ \E t \in Threads : Broadcast(t)
            \/ CleanupBegin \/ CleanupList \/ CleanupEnd
            \/ \E s \in Sids, id \in PlayerIds : CleanupAnnounce(s, id)
            \/ TimePasses(SessionInstants) \/ UNCHANGED managerVars
  BY <1>11 DEF Broadcast, CleanupBegin, CleanupList, CleanupEnd, CleanupAnnounce, TimePasses,
               managerVars
<1> QED
  BY <1>3, <1>4, <1>5, <1>6, <1>7, <1>8, <1>9, <1>10, <1>11
  DEF ManagerNext, CleanupStep, AnswerAccepted

(* What an accepted answer does: it flags its player, for whom the session *)
(* has no entry yet, and adds one.                                         *)
LEMMA AnswerFacts ==
  ASSUME IInv, NEW t \in Threads, NEW s \in Sids, NEW id \in PlayerIds, NEW answer \in Answers,
         SubmitAnswer(t, s, id, answer)
  PROVE  \E points \in Int : \E x :
           /\ MovesOn(sessions[s], x) /\ Update(s, x)
           /\ id \in DOMAIN sessions[s].players /\ sessions[s].state = "Running"
           /\ ~sessions[s].players[id].answered_current_question
           /\ ledger' = [ledger EXCEPT ![s] = ledger[s] \cup
                {[player |-> id, question |-> sessions[s].current_question_index,
                  points |-> points]}]
           /\ x.state = "Running"
           /\ x.current_question_index = sessions[s].current_question_index
           /\ DOMAIN x.players = DOMAIN sessions[s].players
           /\ x.players[id].answered_current_question
           /\ x.players[id].score = sessions[s].players[id].score + points
           /\ \A p \in DOMAIN x.players : p # id => x.players[p] = sessions[s].players[p]
<1> DEFINE points == CalculatePoints(CurrentQuestion(s), answer)
           player == [sessions[s].players[id] EXCEPT !.answered_current_question = TRUE,
                                         !.score = sessions[s].players[id].score + points]
           f == [sessions[s].players EXCEPT ![id] = player]
           x == WithPlayer(sessions[s], id, player)
<1>1. IsSession(sessions[s]) /\ IndexFitsState(sessions[s]) /\ HasQuiz(sessions[s].quiz_code)
  BY DEF IInv, TypeOK, SessionsTyped, QuestionInRange, IndexFitsState
<1>2. /\ Update(s, RecordAnswer(sessions[s], id, points))
      /\ ledger' = [ledger EXCEPT ![s] = ledger[s] \cup
           {[player |-> id, question |-> sessions[s].current_question_index,
             points |-> points]}]
      /\ id \in DOMAIN sessions[s].players /\ sessions[s].state = "Running"
      /\ ~sessions[s].players[id].answered_current_question
      /\ sessions[s].current_question_index < Len(QuestionsOf(s))
  BY DEF SubmitAnswer, CanSubmitAnswer, HasPlayer
<1>3. points \in Int
  <2>1. sessions[s].current_question_index + 1 \in 1..Len(QuestionsOf(s))
    BY <1>1, <1>2, StoredQuestions DEF HasQuiz, QuestionsOf, IsSession
  <2>2. CurrentQuestion(s) \in Question
    BY <1>1, <2>1, StoredQuestions DEF HasQuiz, QuestionsOf, CurrentQuestion
  <2> QED
    BY <2>2, ManagerAssumption, PointsType
<1> HIDE DEF points
<1>4. /\ player \in Player
      /\ player.answered_current_question
      /\ player.score = sessions[s].players[id].score + points
  <2>1. sessions[s].players[id] \in Player
    BY <1>1, <1>2 DEF IsSession, IsMap
  <2>2. sessions[s].players[id].score + points \in Int
    BY <1>3, <2>1 DEF Player
  <2> QED
    BY <2>1, <2>2 DEF Player
<1>5. x = RecordAnswer(sessions[s], id, points)
  BY DEF RecordAnswer
<1> HIDE DEF player
<1>6. MovesOn(sessions[s], x)
  BY <1>1, <1>2, <1>4, WithPlayerMoves
<1>7. /\ x.state = sessions[s].state /\ x.players = f
      /\ x.current_question_index = sessions[s].current_question_index
  <2> HIDE DEF f
  <2> QED BY <1>1 DEF IsSession, WithPlayer, f
<1>8. /\ DOMAIN f = DOMAIN sessions[s].players /\ f[id] = player
      /\ \A p \in DOMAIN f : p # id => f[p] = sessions[s].players[p]
  BY <1>1, <1>2 DEF IsSession, IsMap
<1> HIDE DEF x, f
<1>9. Update(s, x)
  BY <1>2, <1>5
<1> WITNESS points \in Int
<1> WITNESS x
<1> QED
  BY <1>2, <1>4, <1>6, <1>7, <1>8, <1>9

-----------------------------------------------------------------------------
(* One answer per question.                                                *)

(* Two sequences of per-session data that grow together: the session that  *)
(* appears has an empty ledger, the others keep theirs.                    *)
LEMMA AppearsFacts ==
  ASSUME IInv, NEW x, sessions' = Append(sessions, x), ledger' = Append(ledger, {})
  PROVE  /\ Sids \subseteq Sids' /\ Sids' = Sids \cup {Len(sessions) + 1}
         /\ Len(sessions) + 1 \notin Sids /\ ledger'[Len(sessions) + 1] = {}
         /\ \A s \in Sids : sessions'[s] = sessions[s] /\ ledger'[s] = ledger[s]
<1> DEFINE n == Len(sessions)
<1>1. IsSeq(sessions) /\ n \in Nat /\ Sids = 1..n
  BY SeqDomain DEF IInv, TypeOK, SessionsTyped, Sids
<1>2. Sids' = Sids \cup {n + 1} /\ \A s \in Sids : sessions'[s] = sessions[s]
  BY <1>1, SeqAppend DEF Sids
<1>3. ledger \in [1..n -> SUBSET Entry]
  BY <1>1 DEF IInv, TypeOK
<1>4. ledger \in Seq(SUBSET Entry)
  BY <1>1, <1>3, SeqDef
<1>5. Len(ledger) = n
  BY <1>1, <1>3, <1>4, LenProperties
<1>6. \A s \in 1..n : ledger'[s] = ledger[s]
  BY <1>4, <1>5, AppendProperties
<1>7. ledger'[n + 1] = {}
  BY <1>4, <1>5, AppendProperties
<1>8. n + 1 \notin Sids
  BY <1>1
<1>9. \A s \in Sids : ledger'[s] = ledger[s]
  BY <1>1, <1>6
<1> HIDE DEF n
<1> QED
  BY <1>2, <1>7, <1>8, <1>9 DEF n

(* A session that moves on, with nothing credited, keeps the account.      *)
LEMMA MoveKeepsAccount ==
  ASSUME IInv, IInv', LInv, OneSessionMoves
  PROVE  LInv'
<1>0. PICK s \in Sids : \E x : KeepsCredits(sessions[s], x) /\ Update(s, x) /\ UNCHANGED ledger
  BY DEF OneSessionMoves
<1>1. PICK x : KeepsCredits(sessions[s], x) /\ Update(s, x) /\ UNCHANGED ledger
  BY <1>0
<1>2. /\ Sids' = Sids /\ sessions'[s] = x
      /\ \A r \in Sids : r # s => sessions'[r] = sessions[r]
  BY <1>1, SeqExcept DEF IInv, TypeOK, SessionsTyped, Update, Sids
<1>3. OneAnswerPerQuestion'
  BY <1>1, <1>2 DEF LInv, OneAnswerPerQuestion
<1>4. ASSUME NEW e \in ledger[s]
      PROVE  /\ x.state # "Lobby" /\ e.question <= x.current_question_index
             /\ /\ x.state = "Running" /\ e.question = x.current_question_index
                /\ e.player \in DOMAIN x.players
                => x.players[e.player].answered_current_question
  <2>1. /\ sessions[s].state # "Lobby"
        /\ e.question <= sessions[s].current_question_index
        /\ /\ sessions[s].state = "Running"
           /\ e.question = sessions[s].current_question_index
           /\ e.player \in DOMAIN sessions[s].players
           => sessions[s].players[e.player].answered_current_question
    BY DEF LInv, AnswersAccounted
  <2>2. /\ x.state # "Lobby" /\ x.current_question_index >= sessions[s].current_question_index
        /\ x.state = "Running" /\ x.current_question_index = sessions[s].current_question_index
             => sessions[s].state = "Running" /\ \A p \in DOMAIN x.players :
                  /\ p \in DOMAIN sessions[s].players
                  /\ x.players[p].answered_current_question
                       = sessions[s].players[p].answered_current_question
    BY <1>1, <2>1 DEF KeepsCredits, KeepsFlags, KeepsScores
  <2>3. /\ e.question \in Nat /\ sessions[s].current_question_index \in Nat
        /\ x.current_question_index \in Int
    <3>1. e \in Entry
      BY DEF IInv, TypeOK
    <3>2. sessions[s].current_question_index \in Nat
      BY DEF IInv, TypeOK, SessionsTyped, IsSession
    <3>3. x.current_question_index \in Int
      BY <1>2 DEF IInv, TypeOK, SessionsTyped, IsSession
    <3> QED
      BY <3>1, <3>2, <3>3 DEF Entry
  <2> QED
    BY <2>1, <2>2, <2>3
<1>5. AnswersAccounted'
  BY <1>1, <1>2, <1>4 DEF LInv, AnswersAccounted
<1> QED
  BY <1>3, <1>5 DEF LInv

(* An accepted answer is the first of its player to the question.          *)
LEMMA AnswerKeepsAccount ==
  ASSUME IInv, LInv, AnswerAccepted
  PROVE  LInv'
<1>0. PICK t \in Threads, s \in Sids, id \in PlayerIds, answer \in Answers :
        SubmitAnswer(t, s, id, answer)
  BY DEF AnswerAccepted
<1> DEFINE old == sessions[s]
           Accepted(points, x) ==
             /\ Update(s, x)
             /\ id \in DOMAIN old.players /\ old.state = "Running"
             /\ ~old.players[id].answered_current_question
             /\ ledger' = [ledger EXCEPT ![s] = ledger[s] \cup
                  {[player |-> id, question |-> old.current_question_index, points |-> points]}]
             /\ x.state = "Running"
             /\ x.current_question_index = old.current_question_index
             /\ DOMAIN x.players = DOMAIN old.players
             /\ x.players[id].answered_current_question
             /\ x.players[id].score = old.players[id].score + points
             /\ \A p \in DOMAIN x.players : p # id => x.players[p] = old.players[p]
<1>1. PICK points \in Int : \E x : Accepted(points, x)
  BY <1>0, AnswerFacts
<1>2. PICK x : Accepted(points, x)
  BY <1>1
<1>3. PICK entry : entry = [player |-> id, question |-> old.current_question_index,
                            points |-> points]
  OBVIOUS
<1>4. entry.player = id /\ entry.question = old.current_question_index
  BY <1>3
<1>5. /\ Sids' = Sids /\ sessions'[s] = x
      /\ \A r \in Sids : r # s => sessions'[r] = sessions[r]
  BY <1>2, SeqExcept DEF IInv, TypeOK, SessionsTyped, Update, Sids
<1>6. /\ ledger'[s] = ledger[s] \cup {entry}
      /\ \A r \in Sids : r # s => ledger'[r] = ledger[r]
  <2>1. DOMAIN ledger = Sids
    BY DEF IInv, TypeOK
  <2> QED
    BY <1>2, <1>3, <2>1
<1>7. \A e \in ledger[s] : ~(e.player = id /\ e.question = old.current_question_index)
  BY <1>2 DEF LInv, AnswersAccounted
<1>8. OneAnswerPerQuestion'
  BY <1>4, <1>5, <1>6, <1>7 DEF LInv, OneAnswerPerQuestion
<1>9. old.current_question_index \in Nat
  BY DEF IInv, TypeOK, SessionsTyped, IsSession
<1>10. AnswersAccounted'
  <2>1. ASSUME NEW e \in ledger[s] \cup {entry}
        PROVE  /\ x.state # "Lobby" /\ e.question <= x.current_question_index
               /\ e.question = x.current_question_index /\ e.player \in DOMAIN x.players
                  => x.players[e.player].answered_current_question
    <3>1. CASE e = entry
      BY <1>2, <1>4, <1>9, <3>1
    <3>2. CASE e \in ledger[s]
      BY <1>2, <1>7, <3>2 DEF LInv, AnswersAccounted
    <3> QED
      BY <3>1, <3>2
  <2> QED
    BY <1>5, <1>6, <2>1 DEF LInv, AnswersAccounted
<1> QED
  BY <1>8, <1>10 DEF LInv

(* No step credits a player twice for a question.                          *)
LEMMA NextLInv == IInv /\ LInv /\ [ManagerNext]_managerVars => LInv'
<1> SUFFICES ASSUME IInv, LInv, [ManagerNext]_managerVars
             PROVE  LInv'
  OBVIOUS
<1>1. CASE OneSessionMoves
  BY <1>1, NextIInv, MoveKeepsAccount
<1>2. CASE SessionAppears
  <2>1. PICK x : sessions' = Append(sessions, x) /\ ledger' = Append(ledger, {})
    BY <1>2 DEF SessionAppears
  <2>2. /\ Sids' = Sids \cup {Len(sessions) + 1} /\ ledger'[Len(sessions) + 1] = {}
        /\ \A s \in Sids : sessions'[s] = sessions[s] /\ ledger'[s] = ledger[s]
    BY <2>1, AppearsFacts
  <2> QED
    BY <2>2 DEF LInv, AnswersAccounted, OneAnswerPerQuestion
<1>3. CASE AnswerAccepted
  BY <1>3, AnswerKeepsAccount
<1>4. CASE UNCHANGED <<sessions, ledger>>
  BY <1>4 DEF LInv, AnswersAccounted, OneAnswerPerQuestion, Sids
<1> QED
  BY <1>1, <1>2, <1>3, <1>4, StepKinds

(* The account of the answers is always in order.                          *)
LEMMA AlwaysLInv == ManagerSpec => []LInv
<1>1. ManagerInit => LInv
  <2> SUFFICES ASSUME ManagerInit
               PROVE  LInv
    OBVIOUS
  <2>1. Sids = {}
    BY EmptyIsSeq DEF ManagerInit, Sids
  <2> QED
    BY <2>1 DEF LInv, AnswersAccounted, OneAnswerPerQuestion
<1> QED
  BY <1>1, NextLInv, AlwaysIInv, PTL DEF ManagerSpec

(* A participant is credited at most once for a question, whatever the     *)
(* number of threads that submit, advance, remove and reconnect at once.   *)
THEOREM AnswersCountOnce == ManagerSpec => []OneAnswerPerQuestion
<1>1. LInv => OneAnswerPerQuestion
  BY DEF LInv
<1> QED
  BY <1>1, AlwaysLInv, PTL

-----------------------------------------------------------------------------
(* What a step may never do.                                               *)

(* No step loses a session, or moves one but forward.                      *)
LEMMA StepMovesOn ==
  ASSUME IInv, [ManagerNext]_managerVars
  PROVE  \A s \in Sids : s \in Sids' /\ MovesOn(sessions[s], sessions'[s])
<1>1. \A s \in Sids : MovesOn(sessions[s], sessions[s])
  BY SameMoves DEF IInv, TypeOK, SessionsTyped
<1>2. CASE OneSessionMoves
  <2>1. \E s \in Sids : \E x : MovesOn(sessions[s], x) /\ Update(s, x)
    BY <1>2 DEF OneSessionMoves
  <2>2. PICK s \in Sids : \E x : MovesOn(sessions[s], x) /\ Update(s, x)
    BY <2>1
  <2>3. PICK x : MovesOn(sessions[s], x) /\ Update(s, x)
    BY <2>2
  <2>4. /\ Sids' = Sids /\ sessions'[s] = x
        /\ \A r \in Sids : r # s => sessions'[r] = sessions[r]
    BY <2>3, SeqExcept DEF IInv, TypeOK, SessionsTyped, Update, Sids
  <2> QED
    BY <1>1, <2>3, <2>4 DEF Sids
<1>3. CASE SessionAppears
  <2>1. PICK x : sessions' = Append(sessions, x) /\ ledger' = Append(ledger, {})
    BY <1>3 DEF SessionAppears
  <2>2. Sids \subseteq Sids' /\ \A s \in Sids : sessions'[s] = sessions[s]
    BY <2>1, AppearsFacts
  <2> QED
    BY <1>1, <2>2 DEF Sids
<1>4. CASE AnswerAccepted
  <2>1. \E s \in Sids : \E x : MovesOn(sessions[s], x) /\ Update(s, x)
    BY <1>4, AnswerFacts DEF AnswerAccepted
  <2>2. PICK s \in Sids : \E x : MovesOn(sessions[s], x) /\ Update(s, x)
    BY <2>1
  <2>3. PICK x : MovesOn(sessions[s], x) /\ Update(s, x)
    BY <2>2
  <2>4. /\ Sids' = Sids /\ sessions'[s] = x
        /\ \A r \in Sids : r # s => sessions'[r] = sessions[r]
    BY <2>3, SeqExcept DEF IInv, TypeOK, SessionsTyped, Update, Sids
  <2> QED
    BY <1>1, <2>3, <2>4 DEF Sids
<1>5. CASE UNCHANGED <<sessions, ledger>>
  BY <1>1, <1>5 DEF Sids
<1> QED
  BY <1>2, <1>3, <1>4, <1>5, StepKinds

(* The index never goes back and a finished game stays as it is: no order  *)
(* of calls, from any number of threads, undoes a step of the game.        *)
THEOREM NoWayBack == ManagerSpec => GameOnlyMovesForward
<1>1. ASSUME IInv, [ManagerNext]_managerVars
      PROVE  \A s \in Sids : s \in DOMAIN sessions' /\ MovesOn(sessions[s], sessions'[s])
  BY <1>1, StepMovesOn DEF Sids
<1> QED
  BY <1>1, AlwaysIInv, PTL DEF ManagerSpec, GameOnlyMovesForward

(* The clock a cleanup read before it took any lock is never ahead, so     *)
(* those it removes have been gone for the whole timeout by now, and are   *)
(* still gone: whoever came back in time is safe, for any timeout and any  *)
(* number of sessions visited in between.                                  *)
THEOREM RecentAreSpared == ManagerSpec => CleanupSparesTheRecent
<1> DEFINE Spared(s) ==
      \A p \in DOMAIN sessions[s].players \ DOMAIN sessions'[s].players :
        cleanup' # cleanup =>
          /\ ~sessions[s].players[p].connected
          /\ now - sessions[s].players[p].disconnected_at >= ReconnectTimeout
<1>1. ASSUME IInv, [ManagerNext]_managerVars, NEW r \in Sids
      PROVE  Spared(r)
  <2>1. CASE UNCHANGED cleanup \/ UNCHANGED sessions
    BY <2>1
  <2>2. CASE \E s \in Sids : CleanupSession(s)
    <3>1. PICK s \in Sids : CleanupSession(s)
      BY <2>2
    <3> DEFINE gone == LongGone(sessions[s], cleanup.now, ReconnectTimeout)
               kept == DOMAIN sessions[s].players \ gone
    <3>2. Update(s, RemovePlayers(sessions[s], gone))
      BY <3>1 DEF CleanupSession
    <3>3. /\ sessions'[s] = RemovePlayers(sessions[s], gone)
          /\ r # s => sessions'[r] = sessions[r]
      <4> HIDE DEF gone
      <4> QED BY <1>1, <3>2, SeqExcept DEF IInv, TypeOK, SessionsTyped, Update, Sids
    <3>4. IsSession(sessions[s]) /\ now \in Nat /\ cleanup.now \in 0..now
      BY <1>1 DEF IInv, TypeOK, SessionsTyped, CleanupTyped
    <3>5. DOMAIN sessions'[s].players = kept
      <4> HIDE DEF gone
      <4> QED BY <3>3, <3>4 DEF RemovePlayers, IsSession
    <3>6. \A p \in gone : /\ ~sessions[s].players[p].connected
                          /\ now - sessions[s].players[p].disconnected_at >= ReconnectTimeout
      <4>1. SUFFICES ASSUME NEW p \in gone
                     PROVE  /\ ~sessions[s].players[p].connected
                            /\ now - sessions[s].players[p].disconnected_at >= ReconnectTimeout
        OBVIOUS
      <4>2. /\ p \in DOMAIN sessions[s].players /\ ~sessions[s].players[p].connected
            /\ sessions[s].players[p].disconnected_at # Never
            /\ cleanup.now - sessions[s].players[p].disconnected_at >= ReconnectTimeout
        BY DEF LongGone
      <4>3. sessions[s].players[p].disconnected_at \in Nat
        BY <3>4, <4>2 DEF IsSession, IsMap, Player
      <4> QED
        BY <3>4, <4>2, <4>3, ManagerAssumption
    <3> HIDE DEF gone
    <3>7. CASE r = s
      BY <3>5, <3>6, <3>7
    <3>8. CASE r # s
      BY <3>3, <3>8
    <3> QED
      BY <3>7, <3>8
  <2>3. ASSUME ~UNCHANGED cleanup, ~UNCHANGED sessions
        PROVE  \E s \in Sids : CleanupSession(s)
    <3>1. \A quiz : ~StoreQuiz(quiz)
      BY <2>3 DEF StoreQuiz
    <3>2. \A t, code, host, pin, delay : ~CreateSession(t, code, host, pin, delay)
      BY <2>3 DEF CreateSession
    <3>3. \A t, s, pin, id : ~JoinAsPlayer(t, s, pin, id) /\ ~Leave(t, s, id)
      BY <2>3 DEF JoinAsPlayer, Leave
    <3>4. \A t, s : ~StartGame(t, s) /\ ~NextQuestion(t, s) /\ ~Broadcast(t)
      BY <2>3 DEF StartGame, NextQuestion, Broadcast
    <3>5. \A t, s, id, answer : ~SubmitAnswer(t, s, id, answer)
      BY <2>3 DEF SubmitAnswer
    <3>6. \A s, id : ~Disconnect(s, id) /\ ~Reconnect(s, id) /\ ~CleanupAnnounce(s, id)
      BY <2>3 DEF Disconnect, Reconnect, CleanupAnnounce
    <3>7. /\ ~CleanupBegin /\ ~CleanupList /\ ~CleanupEnd
          /\ ~TimePasses(SessionInstants) /\ ~UNCHANGED managerVars
      BY <2>3 DEF CleanupBegin, CleanupList, CleanupEnd, TimePasses, managerVars
    <3> QED
      BY <1>1, <3>1, <3>2, <3>3, <3>4, <3>5, <3>6, <3>7 DEF ManagerNext, CleanupStep
  <2> QED
    BY <2>1, <2>2, <2>3
<1>2. ASSUME IInv, [ManagerNext]_managerVars
      PROVE  \A s \in Sids : \A p \in DOMAIN sessions[s].players \ DOMAIN sessions'[s].players :
               cleanup' # cleanup =>
                 /\ ~sessions[s].players[p].connected
                 /\ now - sessions[s].players[p].disconnected_at >= ReconnectTimeout
  BY <1>1, <1>2
<1> QED
  BY <1>2, AlwaysIInv, PTL DEF ManagerSpec, CleanupSparesTheRecent

-----------------------------------------------------------------------------
(* The final standings.                                                    *)

(* The thread is about to broadcast the end of the game.                   *)
Finalizing(t, s) == pending[t].kind = "GameFinished" /\ pending[t].session = s

(* The board shows the score of everyone still there.                      *)
Agrees(board, session) ==
  \A p \in DOMAIN session.players :
    p \in DOMAIN board /\ board[p] = session.players[p].score

(* Inductive: there is at most one GameFinished of a session, formed or    *)
(* sent, none before the end of the game, and its board agrees with the    *)
(* scores.                                                                 *)
OneFinal(s) ==
  /\ Len(view[s].finals) \in {0, 1}
  /\ Len(view[s].finals) = 1 =>
       sessions[s].state = "Finished" /\ Agrees(view[s].finals[1], sessions[s])
  /\ \A t \in Threads : Finalizing(t, s) =>
       /\ Len(view[s].finals) = 0
       /\ sessions[s].state = "Finished" /\ Agrees(pending[t].board, sessions[s])
       /\ \A u \in Threads : Finalizing(u, s) => u = t

FInv == \A s \in Sids : OneFinal(s)

(* A board that agrees with a finished session agrees for good.            *)
LEMMA AgreesForGood ==
  ASSUME NEW old, NEW new, MovesOn(old, new), old.state = "Finished",
         NEW board, Agrees(board, old)
  PROVE  new.state = "Finished" /\ Agrees(board, new)
BY DEF MovesOn, Agrees

(* Nobody finishes a game, or is told.                                     *)
NoFinal ==
  /\ \A u \in Threads : pending'[u].kind = "GameFinished" => pending'[u] = pending[u]
  /\ \A s \in Sids : view'[s].finals = view[s].finals
  /\ \A s \in Sids' \ Sids : view'[s] = Unseen

(* A thread finishes a game and forms the event.                           *)
GameEnds(t, s) ==
  /\ sessions[s].state = "Running"
  /\ \E x : /\ Update(s, x) /\ IsSession(x) /\ x.state = "Finished"
            /\ pending' = [pending EXCEPT ![t] = GameFinished(s, Board(x))]
  /\ UNCHANGED view

(* A thread that forms another event finishes no game.                     *)
LEMMA EmitsNoFinal ==
  ASSUME IInv, NEW t \in Threads, NEW e, e.kind # "GameFinished", Emit(t, e)
  PROVE  \A u \in Threads : pending'[u].kind = "GameFinished" => pending'[u] = pending[u]
BY DEF IInv, TypeOK, PendingTyped, Emit

(* A session updated is none that appears.                                 *)
LEMMA KeepsView ==
  ASSUME IInv, NEW s \in Sids, NEW x, Update(s, x), UNCHANGED view
  PROVE  /\ \A r \in Sids : view'[r] = view[r]
         /\ \A r \in Sids' \ Sids : view'[r] = Unseen
BY SeqExcept DEF IInv, TypeOK, SessionsTyped, Update, Sids

(* As far as final boards go, every step is of one of three kinds.         *)
LEMMA FinalKinds ==
  ASSUME IInv, IInv', [ManagerNext]_managerVars
  PROVE  \/ NoFinal
         \/ \E t \in Threads : \E s \in Sids : GameEnds(t, s)
         \/ \E t \in Threads : Broadcast(t)
<1>1. ASSUME UNCHANGED <<sessions, pending, view>>
      PROVE  NoFinal
  BY <1>1 DEF NoFinal, Sids
<1>2. ASSUME NEW s \in Sids, NEW x, Update(s, x), UNCHANGED <<pending, view>>
      PROVE  NoFinal
  BY <1>2, KeepsView DEF NoFinal
<1>3. ASSUME NEW t \in Threads, NEW s \in Sids, NEW x, Update(s, x),
             NEW e, e.kind # "GameFinished", Emit(t, e), UNCHANGED view
      PROVE  NoFinal
  BY <1>3, KeepsView, EmitsNoFinal DEF NoFinal
<1>4. ASSUME NEW quiz \in QuizDrafts, StoreQuiz(quiz)
      PROVE  NoFinal
  BY <1>1, <1>4 DEF StoreQuiz
<1>5. ASSUME NEW t \in Threads, NEW code, NEW host, NEW pin, NEW delay,
             CreateSession(t, code, host, pin, delay)
      PROVE  NoFinal
  <2> DEFINE e == PlayerJoined(Len(sessions) + 1, host)
             new == NewSession(code, pin, host, delay)
  <2>1. /\ sessions' = Append(sessions, new) /\ view' = Append(view, Unseen) /\ Emit(t, e)
    BY <1>5 DEF CreateSession
  <2>2. \A u \in Threads : pending'[u].kind = "GameFinished" => pending'[u] = pending[u]
    <3>1. e.kind # "GameFinished"
      BY DEF PlayerJoined
    <3> HIDE DEF e
    <3> QED BY <2>1, <3>1, EmitsNoFinal
  <2>3. /\ IsSeq(sessions) /\ IsSeq(view) /\ DOMAIN view = DOMAIN sessions
    BY DEF IInv, TypeOK, SessionsTyped, ViewTyped, Sids
  <2>4. Len(view) = Len(sessions)
    <3>1. 1..Len(view) = 1..Len(sessions) /\ Len(view) \in Nat /\ Len(sessions) \in Nat
      BY <2>3, SeqDomain
    <3> QED BY <3>1
  <2> HIDE DEF new
  <2>5. Sids' = Sids \cup {Len(sessions) + 1}
    BY <2>1, <2>3, SeqAppend DEF Sids
  <2>6. /\ \A r \in Sids : view'[r] = view[r]
        /\ view'[Len(sessions) + 1] = Unseen
    BY <2>1, <2>3, <2>4, SeqAppend DEF Sids
  <2> QED
    BY <2>2, <2>5, <2>6 DEF NoFinal
<1>6. ASSUME NEW t \in Threads, NEW s \in Sids, NEW pin, NEW id,
             JoinAsPlayer(t, s, pin, id) \/ Leave(t, s, id)
      PROVE  NoFinal
  <2>1. PlayerJoined(s, id).kind # "GameFinished" /\ PlayerLeft(s, id).kind # "GameFinished"
    BY DEF PlayerJoined, PlayerLeft
  <2> QED
    BY <1>3, <1>6, <2>1 DEF JoinAsPlayer, Leave
<1>7. ASSUME NEW i
      PROVE  \A s : QuestionStarted(s, i).kind # "GameFinished"
  BY DEF QuestionStarted
<1>8. ASSUME NEW t \in Threads, NEW s \in Sids, StartGame(t, s)
      PROVE  NoFinal
  <2>1. PICK x, i : /\ Update(s, x) /\ Emit(t, QuestionStarted(s, i)) /\ UNCHANGED view
    BY <1>8 DEF StartGame
  <2> QED
    BY <1>3, <1>7, <2>1
<1>9. ASSUME NEW t \in Threads, NEW s \in Sids, NextQuestion(t, s)
      PROVE  NoFinal \/ GameEnds(t, s)
  <2> DEFINE next == AdvanceToNextQuestion(sessions[s], Len(QuestionsOf(s)))
  <2>1. CASE /\ next.state = "Finished" /\ Update(s, next)
             /\ Emit(t, GameFinished(s, Board(next)))
    <3>1. sessions[s].state = "Running" /\ UNCHANGED view
      BY <1>9 DEF NextQuestion, CanAdvance
    <3> HIDE DEF next
    <3>2. sessions'[s] = next /\ s \in Sids'
      BY <2>1, SeqExcept DEF IInv, TypeOK, SessionsTyped, Update, Sids
    <3>3. IsSession(next)
      BY <3>2 DEF IInv, TypeOK, SessionsTyped, IsSession
    <3> QED
      BY <2>1, <3>1, <3>3 DEF GameEnds, Emit
  <2>2. CASE \E x, i : Update(s, x) /\ Emit(t, QuestionStarted(s, i))
    <3>1. PICK x, i : Update(s, x) /\ Emit(t, QuestionStarted(s, i))
      BY <2>2
    <3>2. UNCHANGED view
      BY <1>9 DEF NextQuestion
    <3> QED
      BY <1>3, <1>7, <3>1, <3>2
  <2> QED
    BY <1>9, <2>1, <2>2 DEF NextQuestion
<1>10. ASSUME NEW t \in Threads, NEW s \in Sids, NEW id, NEW answer,
              SubmitAnswer(t, s, id, answer)
       PROVE  NoFinal
  <2>1. PICK x, b : Update(s, x) /\ Emit(t, Leaderboard(s, b)) /\ UNCHANGED view
    BY <1>10 DEF SubmitAnswer
  <2>2. Leaderboard(s, b).kind # "GameFinished"
    BY DEF Leaderboard
  <2> QED
    BY <1>3, <2>1, <2>2
<1>11. ASSUME NEW s \in Sids, NEW id, Disconnect(s, id) \/ Reconnect(s, id)
       PROVE  NoFinal
  BY <1>2, <1>11 DEF Disconnect, Reconnect
<1>12. ASSUME NEW s \in Sids, CleanupSession(s)
       PROVE  NoFinal
  BY <1>2, <1>12 DEF CleanupSession
<1>13. CASE CleanupBegin \/ CleanupList \/ CleanupEnd
            \/ TimePasses(SessionInstants) \/ UNCHANGED managerVars
  BY <1>1, <1>13 DEF CleanupBegin, CleanupList, CleanupEnd, TimePasses, managerVars
<1>14. ASSUME NEW s \in Sids, NEW id \in PlayerIds, CleanupAnnounce(s, id)
       PROVE  NoFinal
  <2>1. PICK x : x = Seen(view[s], PlayerLeft(s, id))
    OBVIOUS
  <2>2. view' = [view EXCEPT ![s] = x] /\ UNCHANGED <<sessions, pending>>
    BY <1>14, <2>1 DEF CleanupAnnounce, Tell, PlayerLeft
  <2>3. IsSeq(view) /\ DOMAIN view = Sids /\ IsView(view[s])
    BY DEF IInv, TypeOK, ViewTyped
  <2>4. x.finals = view[s].finals
    BY <2>1, <2>3 DEF Seen, PlayerLeft, IsView
  <2>5. view'[s] = x /\ \A r \in Sids : r # s => view'[r] = view[r]
    BY <2>2, <2>3, SeqExcept
  <2>6. Sids' = Sids
    BY <2>2 DEF Sids
  <2> QED
    BY <2>2, <2>4, <2>5, <2>6 DEF NoFinal
<1> QED
  BY <1>4, <1>5, <1>6, <1>8, <1>9, <1>10, <1>11, <1>12, <1>13, <1>14 DEF ManagerNext, CleanupStep

(* Every step keeps the one final board of a session true.                 *)
LEMMA NextFInv ==
  ASSUME IInv, IInv', FInv, [ManagerNext]_managerVars
  PROVE  FInv'
<1>1. \A s \in Sids : s \in Sids' /\ MovesOn(sessions[s], sessions'[s])
  BY StepMovesOn
<1>2. CASE NoFinal
  <2>1. ASSUME NEW s \in Sids
        PROVE  OneFinal(s)'
    <3>1. OneFinal(s) /\ MovesOn(sessions[s], sessions'[s])
          /\ view'[s].finals = view[s].finals
      BY <1>1, <1>2 DEF FInv, NoFinal
    <3>2. \A u \in Threads : Finalizing(u, s)' =>
            Finalizing(u, s) /\ pending'[u] = pending[u]
      BY <1>2 DEF NoFinal, Finalizing
    <3> QED
      BY <3>1, <3>2, AgreesForGood DEF OneFinal
  <2>2. ASSUME NEW s \in Sids' \ Sids
        PROVE  OneFinal(s)'
    <3>1. view'[s].finals = <<>> /\ Len(<<>>) = 0
      BY <1>2 DEF NoFinal, Unseen
    <3>2. \A u \in Threads : ~Finalizing(u, s)'
      <4>1. SUFFICES ASSUME NEW u \in Threads, Finalizing(u, s)'
                     PROVE  FALSE
        OBVIOUS
      <4>2. pending[u].kind = "GameFinished" /\ pending[u].session = s
        BY <1>2, <4>1 DEF NoFinal, Finalizing
      <4>3. IsEvent(pending[u])
        BY DEF IInv, TypeOK, PendingTyped
      <4> QED
        BY <4>2, <4>3 DEF IsEvent
    <3> QED
      BY <3>1, <3>2 DEF OneFinal
  <2> QED
    BY <2>1, <2>2 DEF FInv
<1>3. ASSUME NEW t \in Threads, NEW s \in Sids, GameEnds(t, s)
      PROVE  FInv'
  <2>1. PICK x : /\ Update(s, x) /\ IsSession(x) /\ x.state = "Finished"
                 /\ pending' = [pending EXCEPT ![t] = GameFinished(s, Board(x))]
    BY <1>3 DEF GameEnds
  <2>2. sessions[s].state = "Running" /\ UNCHANGED view
    BY <1>3 DEF GameEnds
  <2>3. /\ Sids' = Sids /\ sessions'[s] = x
        /\ \A r \in Sids : r # s => sessions'[r] = sessions[r]
    BY <2>1, SeqExcept DEF IInv, TypeOK, SessionsTyped, Update, Sids
  <2>4. /\ pending'[t] = GameFinished(s, Board(x))
        /\ \A u \in Threads \ {t} : pending'[u] = pending[u]
    BY <2>1 DEF IInv, TypeOK, PendingTyped
  <2>5. Agrees(Board(x), x)
    BY <2>1 DEF Agrees, Board, IsSession
  <2>6. OneFinal(s)'
    <3>1. Len(view[s].finals) = 0 /\ \A u \in Threads : ~Finalizing(u, s)
      BY <2>2 DEF FInv, OneFinal
    <3>2. \A u \in Threads : Finalizing(u, s)' => u = t
      BY <2>4, <3>1 DEF Finalizing
    <3>3. Finalizing(t, s)' /\ pending'[t].board = Board(x)
      BY <2>4 DEF Finalizing, GameFinished
    <3> QED
      BY <2>1, <2>2, <2>3, <2>5, <3>1, <3>2, <3>3 DEF OneFinal
  <2>7. ASSUME NEW r \in Sids \ {s}
        PROVE  OneFinal(r)'
    <3>1. \A u \in Threads : Finalizing(u, r)' => Finalizing(u, r) /\ pending'[u] = pending[u]
      BY <2>4 DEF Finalizing, GameFinished
    <3>2. OneFinal(r) /\ sessions'[r] = sessions[r] /\ view'[r] = view[r]
      BY <2>2, <2>3 DEF FInv
    <3> QED
      BY <3>1, <3>2 DEF OneFinal
  <2> QED
    BY <2>3, <2>6, <2>7 DEF FInv
<1>4. ASSUME NEW t \in Threads, Broadcast(t)
      PROVE  FInv'
  <2> DEFINE e == pending[t]
  <2>1. IsEvent(e) /\ e # Quiet
    BY <1>4 DEF IInv, TypeOK, PendingTyped, Broadcast, Free
  <2>2. PICK s \in Sids : s = pending[t].session
    BY <2>1 DEF IsEvent, Quiet
  <2>3. /\ view' = [view EXCEPT ![s] = Seen(view[s], e)]
        /\ pending' = [pending EXCEPT ![t] = Quiet] /\ UNCHANGED sessions
    BY <1>4, <2>2 DEF Broadcast, Tell, Emit
  <2>4. /\ view'[s] = Seen(view[s], e) /\ \A r \in Sids : r # s => view'[r] = view[r]
    BY <2>2, <2>3, SeqExcept DEF IInv, TypeOK, ViewTyped
  <2>5. /\ pending'[t] = Quiet /\ \A u \in Threads \ {t} : pending'[u] = pending[u]
    BY <2>3 DEF IInv, TypeOK, PendingTyped
  <2>6. Sids' = Sids
    BY <2>3 DEF Sids
  <2>7. ASSUME NEW r \in Sids, NEW u \in Threads, Finalizing(u, r)'
        PROVE  u # t /\ Finalizing(u, r) /\ pending'[u] = pending[u]
    BY <2>5, <2>7 DEF Finalizing, Quiet
  <2>8. ASSUME NEW r \in Sids, r # s \/ e.kind # "GameFinished"
        PROVE  OneFinal(r)'
    <3>1. view'[r].finals = view[r].finals
      <4>1. CASE r # s
        BY <2>4, <4>1
      <4>2. CASE r = s
        <5>1. IsView(view[s])
          BY <2>2 DEF IInv, TypeOK, ViewTyped
        <5>2. e.kind \in {"QuestionStarted", "Leaderboard", "PlayerJoined", "PlayerLeft"}
          BY <2>1, <2>8, <4>2 DEF IsEvent, Quiet
        <5>3. Seen(view[s], e).finals = view[s].finals
          <6> HIDE DEF e
          <6> QED BY <5>1, <5>2 DEF Seen, IsView
        <5> QED BY <2>4, <4>2, <5>3
      <4> QED BY <4>1, <4>2
    <3>2. OneFinal(r)
      BY DEF FInv
    <3> QED
      BY <2>3, <2>7, <3>1, <3>2 DEF OneFinal
  <2>9. CASE e.kind = "GameFinished"
    <3>1. OneFinal(s) /\ Finalizing(t, s)
      BY <2>2, <2>9 DEF FInv, Finalizing
    <3>2. /\ Len(view[s].finals) = 0 /\ sessions[s].state = "Finished"
          /\ Agrees(e.board, sessions[s])
          /\ \A u \in Threads : Finalizing(u, s) => u = t
      BY <3>1 DEF OneFinal
    <3>3. view'[s].finals = Append(view[s].finals, e.board)
      <4>1. IsView(view[s])
        BY <2>2 DEF IInv, TypeOK, ViewTyped
      <4> QED BY <2>4, <2>9, <4>1 DEF Seen, IsView
    <3>4. IsSeq(view[s].finals)
      BY <2>2 DEF IInv, TypeOK, ViewTyped, IsView
    <3>5. Len(view'[s].finals) = 1 /\ view'[s].finals[1] = e.board
      <4>1. /\ DOMAIN Append(view[s].finals, e.board) = {1}
            /\ Append(view[s].finals, e.board)[1] = e.board
            /\ IsSeq(Append(view[s].finals, e.board))
        BY <3>2, <3>4, SeqAppend, SeqDomain
      <4>2. /\ Len(Append(view[s].finals, e.board)) \in Nat
            /\ 1..Len(Append(view[s].finals, e.board)) = {1}
        BY <4>1, SeqDomain
      <4>3. \A k \in Nat : 1..k = {1} => k = 1
        OBVIOUS
      <4> QED
        BY <3>3, <4>1, <4>2, <4>3
    <3>6. \A u \in Threads : ~Finalizing(u, s)'
      BY <2>2, <2>7, <3>2
    <3>7. OneFinal(s)'
      <4> HIDE DEF e
      <4> QED BY <2>3, <3>2, <3>5, <3>6 DEF OneFinal
    <3> QED
      BY <2>6, <2>8, <3>7 DEF FInv
  <2> QED
    BY <2>6, <2>8, <2>9 DEF FInv
<1> QED
  BY <1>2, <1>3, <1>4, FinalKinds

(* GameFinished goes out at most once, and the board it shows is that of   *)
(* the end for good, whatever the other threads had in flight when the     *)
(* lock was released.                                                      *)
THEOREM OneTrueFinal == ManagerSpec => []FinalStandings
<1>1. ManagerInit => FInv
  BY EmptyIsSeq DEF ManagerInit, Sids, FInv
<1>2. ASSUME IInv, FInv
      PROVE  FinalStandings
  <2>1. SUFFICES ASSUME NEW s \in Sids
                 PROVE  /\ Len(view[s].finals) <= 1
                        /\ Len(view[s].finals) = 1 =>
                             \A t \in Threads : ~(pending[t].kind = "GameFinished" /\ pending[t].session = s)
                        /\ FinalBoardsOf(s) # {} => sessions[s].state = "Finished"
                        /\ \A b \in FinalBoardsOf(s) : \A p \in DOMAIN sessions[s].players :
                             p \in DOMAIN b /\ b[p] = sessions[s].players[p].score
    BY DEF FinalStandings
  <2>2. OneFinal(s)
    BY <1>2 DEF FInv
  <2>3. IsSeq(view[s].finals)
    BY <1>2 DEF IInv, TypeOK, ViewTyped, IsView
  <2>4. ASSUME NEW b \in FinalBoardsOf(s)
        PROVE  sessions[s].state = "Finished" /\ Agrees(b, sessions[s])
    <3>1. CASE \E i \in DOMAIN view[s].finals : b = view[s].finals[i]
      <4>1. PICK i \in DOMAIN view[s].finals : b = view[s].finals[i]
        BY <3>1
      <4>2. i \in 1..Len(view[s].finals)
        BY <2>3, <4>1, SeqDomain
      <4>3. Len(view[s].finals) = 1 /\ i = 1
        BY <2>2, <4>2 DEF OneFinal
      <4> QED BY <2>2, <4>1, <4>3 DEF OneFinal
    <3>2. CASE \E t \in Threads : Finalizing(t, s) /\ b = pending[t].board
      BY <2>2, <3>2 DEF OneFinal
    <3> QED
      BY <3>1, <3>2 DEF FinalBoardsOf, Finalizing
  <2>5. Len(view[s].finals) \in {0, 1}
    BY <2>2 DEF OneFinal
  <2>6. \A t \in Threads : Finalizing(t, s) => Len(view[s].finals) = 0
    BY <2>2 DEF OneFinal
  <2>7. \A t \in Threads : Len(view[s].finals) = 1 => ~Finalizing(t, s)
    BY <2>6
  <2>8. FinalBoardsOf(s) # {} => sessions[s].state = "Finished"
    BY <2>4
  <2>9. \A b \in FinalBoardsOf(s) : Agrees(b, sessions[s])
    BY <2>4
  <2>10. Len(view[s].finals) <= 1
    <3>1. \A n \in {0, 1} : n <= 1
      OBVIOUS
    <3> QED BY <2>5, <3>1, Zenon
  <2>11. Len(view[s].finals) = 1 =>
           \A t \in Threads : ~(pending[t].kind = "GameFinished" /\ pending[t].session = s)
    BY <2>7 DEF Finalizing
  <2>12. \A b \in FinalBoardsOf(s) : \A p \in DOMAIN sessions[s].players :
            p \in DOMAIN b /\ b[p] = sessions[s].players[p].score
    BY <2>9 DEF Agrees
  <2> QED
    BY <2>8, <2>10, <2>11, <2>12
<1>3. ManagerSpec => []FInv
  <2>1. IInv /\ IInv' /\ FInv /\ [ManagerNext]_managerVars => FInv'
    BY NextFInv
  <2> QED
    BY <1>1, <2>1, AlwaysIInv, PTL DEF ManagerSpec
<1> QED
  BY <1>2, <1>3, AlwaysIInv, PTL

-----------------------------------------------------------------------------
(* The scores.                                                             *)

(* Induction over the naturals, for a set of them: a set without its least *)
(* element is empty.                                                       *)
LEMMA NaturalInduction ==
  ASSUME NEW S \in SUBSET Nat, 0 \in S, \A n \in S : n + 1 \in S
  PROVE  S = Nat
<1> DEFINE less == OpToRel(<, Nat)
           T == Nat \ S
<1>1. IsWellFoundedOn(less, Nat)
  BY NatLessThanWellFounded, Zenon
<1>2. \A x, y \in Nat : x < y => <<x, y>> \in less
  BY Zenon DEF OpToRel
<1>3. SUFFICES ASSUME T # {} PROVE FALSE
  OBVIOUS
<1>4. \E x \in T : \A y \in T : ~(<<y, x>> \in less)
  <2> HIDE DEF less, T
  <2>1. T \subseteq Nat
    BY DEF T
  <2> QED BY <1>1, <1>3, <2>1, WFMin, Zenon
<1>5. PICK x \in T : \A y \in T : ~(<<y, x>> \in less)
  BY <1>4
<1> HIDE DEF less
<1>6. x # 0 /\ x - 1 \in Nat /\ x - 1 < x
  OBVIOUS
<1>7. x - 1 \in S
  BY <1>2, <1>5, <1>6
<1> QED
  BY <1>6, <1>7

(* The sum of the points of a set of entries, and the function by which    *)
(* MapThenSumSet computes it: it takes the entries off one by one, in the  *)
(* order of CHOOSE.                                                        *)
Total(S) == FiniteSums!MapThenSumSet(LAMBDA e : e.points, S)

Pick(s) == CHOOSE x \in s : TRUE

SumsUp(S, g) ==
  g = [s \in SUBSET S |-> IF s = {} THEN 0 ELSE Pick(s).points + g[s \ {Pick(s)}]]

(* The sum the community module computes is the value of the function that *)
(* satisfies its recursive equation.                                       *)
LEMMA TotalIs ==
  ASSUME NEW S
  PROVE  Total(S) = (CHOOSE g : SumsUp(S, g))[S]
BY DEF Total, Pick, SumsUp, FiniteSums!MapThenSumSet, FiniteSums!MapThenFoldSet

(* Taking one element out of a finite set makes it smaller.                *)
LEMMA Picked ==
  ASSUME NEW S, IsFiniteSet(S), NEW s \in SUBSET S, s # {}
  PROVE  /\ Pick(s) \in s /\ s \ {Pick(s)} \in SUBSET S
         /\ \A x \in s : /\ Cardinality(s \ {x}) \in Nat /\ Cardinality(s) \in Nat
                       /\ Cardinality(s \ {x}) + 1 = Cardinality(s)
<1>1. IsFiniteSet(s)
  BY FS_Subset
<1>2. Cardinality(s) \in Nat
  BY <1>1, FS_CardinalityType
<1>3. ASSUME NEW x \in s
      PROVE  Cardinality(s \ {x}) \in Nat /\ Cardinality(s \ {x}) + 1 = Cardinality(s)
  <2>1. IsFiniteSet(s \ {x}) /\ Cardinality(s \ {x}) = Cardinality(s) - 1
    BY <1>1, FS_RemoveElement
  <2>2. Cardinality(s \ {x}) \in Nat
    BY <2>1, FS_CardinalityType
  <2> QED BY <1>2, <2>1, <2>2
<1>4. Pick(s) \in s
  BY DEF Pick
<1> QED
  BY <1>2, <1>3, <1>4

(* There is such a function: for the subsets of a size from those smaller. *)
LEMMA SumExists ==
  ASSUME NEW S, IsFiniteSet(S), \A e \in S : e.points \in Int
  PROVE  \E g : SumsUp(S, g)
<1> DEFINE Small(n) == {s \in SUBSET S : Cardinality(s) <= n}
           SumOf(g, s) == IF s = {} THEN 0 ELSE Pick(s).points + g[s \ {Pick(s)}]
           SumsTo(n, g) == g \in [Small(n) -> Int] /\ \A s \in Small(n) : g[s] = SumOf(g, s)
           L == {n \in Nat : \E g : SumsTo(n, g)}
<1>1. 0 \in L
  <2> DEFINE g == [s \in Small(0) |-> 0]
  <2>1. \A s \in Small(0) : s = {}
    BY FS_Subset, FS_EmptySet, FS_CardinalityType
  <2>2. SumsTo(0, g)
    BY <2>1
  <2> QED BY <2>2
<1>2. ASSUME NEW n \in L PROVE n + 1 \in L
  <2>1. PICK g : SumsTo(n, g)
    OBVIOUS
  <2> DEFINE h == [s \in Small(n + 1) |-> SumOf(g, s)]
  <2>2. ASSUME NEW s \in Small(n + 1), s # {}
        PROVE  /\ s \ {Pick(s)} \in Small(n) /\ s \ {Pick(s)} \in Small(n + 1)
               /\ Pick(s).points \in Int
    BY <2>2, Picked
  <2>3. h \in [Small(n + 1) -> Int]
    <3>1. ASSUME NEW s \in Small(n + 1) PROVE SumOf(g, s) \in Int
      <4>1. CASE s = {}
        BY <4>1
      <4>2. CASE s # {}
        <5>1. g[s \ {Pick(s)}] \in Int /\ Pick(s).points \in Int
          <6> HIDE DEF Small
          <6> QED BY <2>1, <2>2, <4>2
        <5> QED BY <4>2, <5>1
      <4> QED BY <4>1, <4>2
    <3> HIDE DEF Small, SumOf
    <3> QED BY <3>1
  <2>4. ASSUME NEW s \in Small(n) PROVE h[s] = g[s]
    <3>1. Cardinality(s) \in Nat
      BY FS_Subset, FS_CardinalityType
    <3>2. s \in Small(n + 1)
      BY <3>1
    <3> HIDE DEF Small, SumOf
    <3> QED BY <2>1, <3>2
  <2>5. ASSUME NEW s \in Small(n + 1) PROVE h[s] = SumOf(h, s)
    <3>1. h[s] = SumOf(g, s)
      <4> HIDE DEF Small, SumOf
      <4> QED OBVIOUS
    <3>2. CASE s = {}
      BY <3>1, <3>2
    <3>3. CASE s # {}
      <4>1. h[s \ {Pick(s)}] = g[s \ {Pick(s)}]
        <5> HIDE DEF Small, h
        <5> QED BY <2>2, <2>4, <3>3
      <4> HIDE DEF h
      <4> QED BY <3>1, <3>3, <4>1
    <3> QED BY <3>2, <3>3
  <2>6. SumsTo(n + 1, h)
    <3> HIDE DEF Small, SumOf, h
    <3> QED BY <2>3, <2>5
  <2>7. n + 1 \in Nat
    OBVIOUS
  <2> HIDE DEF SumsTo
  <2> QED BY <2>6, <2>7
<1>3. L = Nat
  <2> HIDE DEF L
  <2>1. L \in SUBSET Nat
    BY DEF L
  <2> QED BY <1>1, <1>2, <2>1, NaturalInduction
<1>4. Cardinality(S) \in Nat /\ Small(Cardinality(S)) = SUBSET S
  BY FS_CardinalityType, FS_Subset
<1>5. PICK g : SumsTo(Cardinality(S), g)
  BY <1>3, <1>4
<1>6. g \in [SUBSET S -> Int] /\ \A s \in SUBSET S : g[s] = SumOf(g, s)
  BY <1>4, <1>5
<1>7. g = [s \in SUBSET S |-> SumOf(g, s)]
  <2> HIDE DEF SumOf
  <2> QED BY <1>6
<1> QED
  BY <1>7 DEF SumsUp

(* What the sum of a set is does not depend on the larger set for which    *)
(* the function was made.                                                  *)
LEMMA SumAgrees ==
  \A S, T, g, h : IsFiniteSet(S) /\ S \subseteq T /\ SumsUp(S, g) /\ SumsUp(T, h) => g[S] = h[S]
<1> SUFFICES ASSUME NEW S, NEW T, NEW g, NEW h,
                    IsFiniteSet(S), S \subseteq T, SumsUp(S, g), SumsUp(T, h)
             PROVE  g[S] = h[S]
  OBVIOUS
<1> DEFINE L == {n \in Nat : \A s \in SUBSET S : Cardinality(s) <= n => g[s] = h[s]}
<1>1. ASSUME NEW s \in SUBSET S
      PROVE  /\ g[s] = IF s = {} THEN 0 ELSE Pick(s).points + g[s \ {Pick(s)}]
             /\ h[s] = IF s = {} THEN 0 ELSE Pick(s).points + h[s \ {Pick(s)}]
  BY DEF SumsUp
<1>2. 0 \in L
  <2>1. ASSUME NEW s \in SUBSET S, Cardinality(s) <= 0 PROVE s = {}
    BY <2>1, FS_Subset, FS_EmptySet, FS_CardinalityType
  <2> QED BY <1>1, <2>1
<1>3. ASSUME NEW n \in L PROVE n + 1 \in L
  <2>1. ASSUME NEW s \in SUBSET S, Cardinality(s) <= n + 1 PROVE g[s] = h[s]
    <3>1. CASE s = {}
      BY <1>1, <3>1
    <3>2. CASE s # {}
      <4>1. s \ {Pick(s)} \in SUBSET S /\ Cardinality(s \ {Pick(s)}) <= n
        BY <2>1, <3>2, Picked
      <4>2. g[s \ {Pick(s)}] = h[s \ {Pick(s)}]
        BY <4>1
      <4> QED BY <1>1, <3>2, <4>2
    <3> QED BY <3>1, <3>2
  <2> QED BY <2>1
<1>4. L = Nat
  <2> HIDE DEF L
  <2>1. L \in SUBSET Nat
    BY DEF L
  <2> QED BY <1>2, <1>3, <2>1, NaturalInduction
<1> QED
  BY <1>4, FS_CardinalityType

(* The order in which the entries are taken off does not matter.           *)
LEMMA SumRemove ==
  ASSUME NEW S, IsFiniteSet(S), \A e \in S : e.points \in Int, NEW g, SumsUp(S, g)
  PROVE  \A s \in SUBSET S : /\ g[s] \in Int
                            /\ \A e \in s : g[s] = e.points + g[s \ {e}]
<1> DEFINE Fine(s) == g[s] \in Int /\ \A e \in s : g[s] = e.points + g[s \ {e}]
           L == {n \in Nat : \A s \in SUBSET S : Cardinality(s) <= n => Fine(s)}
<1>1. ASSUME NEW s \in SUBSET S
      PROVE  g[s] = IF s = {} THEN 0 ELSE Pick(s).points + g[s \ {Pick(s)}]
  BY DEF SumsUp
<1>2. 0 \in L
  <2>1. ASSUME NEW s \in SUBSET S, Cardinality(s) <= 0 PROVE s = {}
    BY <2>1, FS_Subset, FS_EmptySet, FS_CardinalityType
  <2>2. ASSUME NEW s \in SUBSET S, s = {} PROVE Fine(s)
    <3>1. g[s] = 0
      BY <1>1, <2>2
    <3> QED BY <2>2, <3>1
  <2> HIDE DEF Fine
  <2> QED BY <2>1, <2>2
<1>3. ASSUME NEW n \in L PROVE n + 1 \in L
  <2>0. n \in Nat
    OBVIOUS
  <2>1. ASSUME NEW s \in SUBSET S, Cardinality(s) <= n + 1, s # {} PROVE Fine(s)
    <3>1. PICK x : x = Pick(s)
      OBVIOUS
    <3>2. x \in s /\ g[s] = x.points + g[s \ {x}] /\ x.points \in Int
      BY <1>1, <2>1, <3>1, Picked
    <3>3. \A e \in s : s \ {e} \in SUBSET S /\ Fine(s \ {e})
      <4>1. \A e \in s : s \ {e} \in SUBSET S /\ Cardinality(s \ {e}) <= n
        BY <2>1, Picked
      <4> HIDE DEF Fine
      <4> QED BY <4>1
    <3>4. g[s] \in Int
      BY <3>2, <3>3
    <3>5. ASSUME NEW e \in s PROVE g[s] = e.points + g[s \ {e}]
      <4>1. CASE e = x
        BY <3>2, <4>1
      <4>2. CASE e # x
        <5>1. e \in s \ {x} /\ x \in s \ {e}
          BY <3>2, <4>2
        <5>2. g[s \ {x}] = e.points + g[(s \ {x}) \ {e}]
          BY <3>2, <3>3, <5>1
        <5>3. g[s \ {e}] = x.points + g[(s \ {e}) \ {x}]
          BY <3>2, <3>3, <5>1
        <5>4. (s \ {x}) \ {e} = (s \ {e}) \ {x}
          OBVIOUS
        <5>5. g[(s \ {e}) \ {x}] \in Int
          <6>1. (s \ {e}) \ {x} \in SUBSET S /\ Cardinality((s \ {e}) \ {x}) <= n
            <7>1. s \ {e} \in SUBSET S /\ s \ {e} # {}
              BY <5>1
            <7>2. Cardinality(s \ {e}) \in Nat /\ Cardinality(s \ {e}) <= n
              BY <2>1, Picked
            <7>3. PICK r : r = s \ {e}
              OBVIOUS
            <7>4. \A z \in r : /\ Cardinality(r \ {z}) \in Nat
                              /\ Cardinality(r \ {z}) + 1 = Cardinality(r)
              <8>1. r \in SUBSET S /\ r # {}
                BY <7>1, <7>3, Zenon
              <8> HIDE DEF L, Fine
              <8> QED BY <8>1, Picked
            <7>5. Cardinality(r \ {x}) <= n
              <8>1. n \in Nat
                BY <2>0, Zenon
              <8>2. x \in r
                BY <5>1, <7>3, Zenon
              <8>3. Cardinality(r) <= n
                BY <7>2, <7>3, Zenon
              <8>4. Cardinality(r \ {x}) \in Nat /\ Cardinality(r \ {x}) + 1 = Cardinality(r)
                BY <7>4, <8>2, Zenon
              <8> HIDE DEF L, Fine
              <8> QED BY <8>1, <8>3, <8>4
            <7> QED BY <7>1, <7>3, <7>5
          <6>2. Fine((s \ {e}) \ {x})
            <7> HIDE DEF Fine
            <7> QED BY <6>1
          <6> QED BY <6>2
        <5>6. e.points \in Int
          OBVIOUS
        <5>7. PICK r : r = g[(s \ {e}) \ {x}]
          OBVIOUS
        <5>8. r \in Int /\ g[s \ {x}] = e.points + r /\ g[s \ {e}] = x.points + r
          BY <5>2, <5>3, <5>4, <5>5, <5>7
        <5>9. x.points + (e.points + r) = e.points + (x.points + r)
          BY <3>2, <5>6, <5>8
        <5> QED BY <3>2, <5>8, <5>9
      <4> QED BY <4>1, <4>2
    <3> QED BY <3>4, <3>5
  <2>2. ASSUME NEW s \in SUBSET S, s = {} PROVE Fine(s)
    <3>1. g[s] = 0
      BY <1>1, <2>2
    <3> QED BY <2>2, <3>1
  <2> HIDE DEF Fine
  <2> QED BY <2>1, <2>2
<1>4. L = Nat
  <2> HIDE DEF L
  <2>1. L \in SUBSET Nat
    BY DEF L
  <2> QED BY <1>2, <1>3, <2>1, NaturalInduction
<1>5. \A s \in SUBSET S : Fine(s)
  <2> HIDE DEF Fine
  <2> QED BY <1>4, FS_Subset, FS_CardinalityType
<1> QED
  BY <1>5

(* One more entry counts for what it is worth, whatever the others.        *)
LEMMA TotalFacts ==
  /\ Total({}) = 0
  /\ \A S, e : (/\ IsFiniteSet(S) /\ e \notin S
               /\ e.points \in Int /\ \A d \in S : d.points \in Int)
                => Total(S \cup {e}) = Total(S) + e.points
<1>1. ASSUME NEW S, IsFiniteSet(S), \A d \in S : d.points \in Int
      PROVE  \E g : SumsUp(S, g) /\ Total(S) = g[S]
  <2>1. \E g : SumsUp(S, g)
    BY <1>1, SumExists
  <2> DEFINE g == CHOOSE g : SumsUp(S, g)
  <2>2. SumsUp(S, g)
    BY <2>1
  <2> QED BY <2>2, TotalIs
<1>2. Total({}) = 0
  <2>1. PICK g : SumsUp({}, g) /\ Total({}) = g[{}]
    BY <1>1, FS_EmptySet
  <2> QED BY <2>1 DEF SumsUp
<1>3. ASSUME NEW S, NEW e, IsFiniteSet(S), e \notin S, e.points \in Int, \A d \in S : d.points \in Int
      PROVE  Total(S \cup {e}) = Total(S) + e.points
  <2>0. PICK T : T = S \cup {e}
    OBVIOUS
  <2>1. IsFiniteSet(T) /\ \A d \in T : d.points \in Int
    BY <1>3, <2>0, FS_AddElement
  <2>2. PICK g : SumsUp(S, g) /\ Total(S) = g[S]
    BY <1>1, <1>3
  <2>3. PICK h : SumsUp(T, h) /\ Total(T) = h[T]
    BY <1>1, <2>1
  <2>4. S \subseteq T /\ T \ {e} = S /\ e \in T
    BY <1>3, <2>0
  <2>5. g[S] = h[S]
    <3>1. IsFiniteSet(S) /\ S \subseteq T /\ SumsUp(S, g) /\ SumsUp(T, h)
      BY <1>3, <2>2, <2>3, <2>4
    <3> QED
      BY <3>1, SumAgrees
  <2>6. h[T] = e.points + h[T \ {e}] /\ h[S] \in Int
    <3>1. /\ IsFiniteSet(T) /\ SumsUp(T, h) /\ \A d \in T : d.points \in Int
          /\ T \in SUBSET T /\ S \in SUBSET T
      BY <2>1, <2>3, <2>4
    <3>2. \A s \in SUBSET T : h[s] \in Int /\ \A d \in s : h[s] = d.points + h[s \ {d}]
      BY <3>1, SumRemove
    <3> QED
      BY <2>4, <3>1, <3>2
  <2>7. Total(T) = e.points + h[S]
    BY <2>3, <2>4, <2>6
  <2>8. Total(T) = Total(S) + e.points
    BY <1>3, <2>2, <2>5, <2>6, <2>7
  <2> QED BY <2>0, <2>8
<1> QED
  BY <1>2, <1>3, Zenon

(* The entries of a player.                                                *)
AnswersOf(entries, p) == {e \in entries : e.player = p}

(* Inductive, with the account of the answers: the ledgers are finite and  *)
(* every score is the sum of its entries.                                  *)
AddsUp(session, entries) ==
  /\ IsFiniteSet(entries)
  /\ \A p \in DOMAIN session.players :
       session.players[p].score = Total(AnswersOf(entries, p))

SInv == \A s \in Sids : AddsUp(sessions[s], ledger[s])

(* Nobody has scored in the lobby: no answer is accounted to it.           *)
LEMMA NobodyScoresYet ==
  ASSUME LInv, NEW s \in Sids, sessions[s].state = "Lobby"
  PROVE  ledger[s] = {}
BY DEF LInv, AnswersAccounted

(* Scores kept add up as they did.                                         *)
LEMMA KeptScoresAddUp ==
  ASSUME LInv, NEW s \in Sids, AddsUp(sessions[s], ledger[s]),
         NEW x, KeepsScores(sessions[s], x)
  PROVE  AddsUp(x, ledger[s])
<1>1. ASSUME NEW p \in DOMAIN x.players
      PROVE  x.players[p].score = Total(AnswersOf(ledger[s], p))
  <2>1. CASE p \in DOMAIN sessions[s].players /\ x.players[p].score = sessions[s].players[p].score
    BY <2>1 DEF AddsUp
  <2>2. CASE sessions[s].state = "Lobby" /\ x.players[p].score = 0
    <3>1. AnswersOf(ledger[s], p) = {}
      BY <2>2, NobodyScoresYet DEF AnswersOf
    <3>2. Total({}) = 0
      BY TotalFacts
    <3> QED
      BY <2>2, <3>1, <3>2
  <2> QED
    BY <2>1, <2>2 DEF KeepsScores
<1> QED
  BY <1>1 DEF AddsUp

(* One more entry of a player, who scores what it is worth.                *)
LEMMA ScoredAddsUp ==
  ASSUME NEW session, NEW entries \in SUBSET Entry, AddsUp(session, entries),
         NEW entry \in Entry, entry \notin entries,
         NEW x, DOMAIN x.players = DOMAIN session.players,
         entry.player \in DOMAIN session.players,
         x.players[entry.player].score = session.players[entry.player].score + entry.points,
         \A p \in DOMAIN x.players : p # entry.player => x.players[p] = session.players[p]
  PROVE  AddsUp(x, entries \cup {entry})
<1>1. IsFiniteSet(entries \cup {entry})
  BY FS_AddElement DEF AddsUp
<1>2. ASSUME NEW p \in DOMAIN x.players
      PROVE  x.players[p].score = Total(AnswersOf(entries \cup {entry}, p))
  <2>1. session.players[p].score = Total(AnswersOf(entries, p))
    BY DEF AddsUp
  <2>2. CASE p # entry.player
    <3>1. AnswersOf(entries \cup {entry}, p) = AnswersOf(entries, p)
      BY <2>2 DEF AnswersOf
    <3> QED
      BY <2>1, <2>2, <3>1
  <2>3. CASE p = entry.player
    <3>1. PICK own : own = AnswersOf(entries, p)
      OBVIOUS
    <3>2. AnswersOf(entries \cup {entry}, p) = own \cup {entry}
      BY <2>3, <3>1 DEF AnswersOf
    <3>3. IsFiniteSet(own) /\ entry \notin own
      <4>1. own \in SUBSET entries
        BY <3>1 DEF AnswersOf
      <4>2. IsFiniteSet(entries)
        BY DEF AddsUp
      <4> QED
        BY <4>1, <4>2, FS_Subset
    <3>4. entry.points \in Int /\ \A d \in own : d.points \in Int
      BY <3>1 DEF AnswersOf, Entry
    <3>5. Total(own \cup {entry}) = Total(own) + entry.points
      BY <3>3, <3>4, TotalFacts
    <3> QED
      BY <2>1, <2>3, <3>1, <3>2, <3>5
  <2> QED
    BY <2>2, <2>3
<1> QED
  BY <1>1, <1>2 DEF AddsUp

(* Every step keeps the scores what the answers earned.                    *)
LEMMA NextSInv ==
  ASSUME IInv, LInv, SInv, [ManagerNext]_managerVars
  PROVE  SInv'
<1>1. CASE OneSessionMoves
  <2>1. PICK s \in Sids : \E x : KeepsScores(sessions[s], x) /\ Update(s, x) /\ UNCHANGED ledger
    BY <1>1 DEF OneSessionMoves, KeepsCredits
  <2>2. PICK x : KeepsScores(sessions[s], x) /\ Update(s, x) /\ UNCHANGED ledger
    BY <2>1
  <2>3. /\ Sids' = Sids /\ sessions'[s] = x
        /\ \A r \in Sids : r # s => sessions'[r] = sessions[r]
    BY <2>2, SeqExcept DEF IInv, TypeOK, SessionsTyped, Update, Sids
  <2>4. AddsUp(x, ledger[s])
    BY <2>2, KeptScoresAddUp DEF SInv
  <2> QED
    BY <2>2, <2>3, <2>4 DEF SInv
<1>2. CASE SessionAppears
  <2>1. PICK x : /\ sessions' = Append(sessions, x) /\ ledger' = Append(ledger, {})
                 /\ \A p \in DOMAIN x.players : x.players[p].score = 0
    BY <1>2 DEF SessionAppears
  <2> DEFINE n == Len(sessions) + 1
  <2>2. /\ Sids' = Sids \cup {n} /\ ledger'[n] = {}
        /\ \A s \in Sids : sessions'[s] = sessions[s] /\ ledger'[s] = ledger[s]
    BY <2>1, AppearsFacts
  <2>3. sessions'[n] = x
    BY <2>1, SeqAppend DEF IInv, TypeOK, SessionsTyped
  <2>4. AddsUp(x, {})
    <3>1. \A p : AnswersOf({}, p) = {}
      BY DEF AnswersOf
    <3>2. Total({}) = 0 /\ IsFiniteSet({})
      BY TotalFacts, FS_EmptySet
    <3> QED
      BY <2>1, <3>1, <3>2 DEF AddsUp
  <2> HIDE DEF n
  <2> QED
    BY <2>2, <2>3, <2>4 DEF SInv
<1>3. CASE AnswerAccepted
  <2>1. PICK t \in Threads, s \in Sids, id \in PlayerIds, answer \in Answers :
          SubmitAnswer(t, s, id, answer)
    BY <1>3 DEF AnswerAccepted
  <2> DEFINE Accepted(points, x) ==
        /\ Update(s, x)
        /\ id \in DOMAIN sessions[s].players /\ sessions[s].state = "Running"
        /\ ~sessions[s].players[id].answered_current_question
        /\ ledger' = [ledger EXCEPT ![s] = ledger[s] \cup
             {[player |-> id, question |-> sessions[s].current_question_index,
               points |-> points]}]
        /\ DOMAIN x.players = DOMAIN sessions[s].players
        /\ x.players[id].score = sessions[s].players[id].score + points
        /\ \A p \in DOMAIN x.players : p # id => x.players[p] = sessions[s].players[p]
  <2>2. PICK points \in Int : \E x : Accepted(points, x)
    BY <2>1, AnswerFacts
  <2>3. PICK x : Accepted(points, x)
    BY <2>2
  <2>4. PICK entry : entry = [player |-> id, question |-> sessions[s].current_question_index,
                              points |-> points]
    OBVIOUS
  <2>5. /\ entry.player = id /\ entry.points = points
        /\ entry.question = sessions[s].current_question_index
    BY <2>4
  <2>6. entry \in Entry /\ ledger[s] \in SUBSET Entry /\ DOMAIN ledger = Sids
    <3>1. sessions[s].current_question_index \in Nat
      BY DEF IInv, TypeOK, SessionsTyped, IsSession
    <3> QED
      BY <2>4, <3>1 DEF IInv, TypeOK, Entry
  <2>7. entry \notin ledger[s]
    BY <2>3, <2>5 DEF LInv, AnswersAccounted
  <2>8. /\ Sids' = Sids /\ sessions'[s] = x
        /\ \A r \in Sids : r # s => sessions'[r] = sessions[r]
    BY <2>3, SeqExcept DEF IInv, TypeOK, SessionsTyped, Update, Sids
  <2>9. /\ ledger'[s] = ledger[s] \cup {entry}
        /\ \A r \in Sids : r # s => ledger'[r] = ledger[r]
    BY <2>3, <2>4, <2>6
  <2>10. AddsUp(x, ledger[s] \cup {entry})
    <3>1. AddsUp(sessions[s], ledger[s])
      BY DEF SInv
    <3>2. /\ DOMAIN x.players = DOMAIN sessions[s].players
          /\ entry.player \in DOMAIN sessions[s].players
          /\ x.players[entry.player].score = sessions[s].players[entry.player].score + entry.points
          /\ \A p \in DOMAIN x.players : p # entry.player => x.players[p] = sessions[s].players[p]
      BY <2>3, <2>5
    <3> QED
      BY <2>6, <2>7, <3>1, <3>2, ScoredAddsUp
  <2> QED
    BY <2>8, <2>9, <2>10 DEF SInv
<1>4. CASE UNCHANGED <<sessions, ledger>>
  BY <1>4 DEF SInv, Sids
<1> QED
  BY <1>1, <1>2, <1>3, <1>4, StepKinds

(* What a player is shown is the sum of what the accepted answers earned:  *)
(* no interleaving of submissions, question changes, departures and        *)
(* returns loses points or counts them twice.                              *)
THEOREM ScoresAddUp == ManagerSpec => []ScoreIsSumOfAnswers
<1>1. ManagerInit => SInv
  BY EmptyIsSeq DEF ManagerInit, Sids, SInv
<1>2. SInv => ScoreIsSumOfAnswers
  BY DEF SInv, AddsUp, AnswersOf, Total, ScoreIsSumOfAnswers
<1>3. IInv /\ LInv /\ SInv /\ [ManagerNext]_managerVars => SInv'
  BY NextSInv
<1> QED
  BY <1>1, <1>2, <1>3, AlwaysIInv, AlwaysLInv, PTL DEF ManagerSpec

-----------------------------------------------------------------------------
(* SessionManager implements QuizGame.  One lemma per operation says which *)
(* move of the game it is; the operations that only concern threads,       *)
(* events, presence and the clock are no move.                             *)

-----------------------------------------------------------------------------
(* The games, field by field.                                              *)

(* A game, by its fields.                                                  *)
Named(phase, question, total, standing, answered) ==
  [phase |-> phase, question |-> question, total |-> total,
   standing |-> standing, answered |-> answered]

(* Who has answered the current question.                                  *)
Answered(session) ==
  {p \in DOMAIN session.players : session.players[p].answered_current_question}

(* The game a session is, when its quiz has that many questions.           *)
GameIs(session, total) ==
  Named(session.state, session.current_question_index, total, Board(session), Answered(session))

(* The games of all sessions.                                              *)
GamesNow == [s \in Sids |-> GameOf(s)]

(* The game a session is, spelt out.                                       *)
LEMMA GameOfIs ==
  ASSUME NEW s
  PROVE  GameOf(s) = GameIs(sessions[s], Len(QuestionsOf(s)))
BY DEF GameOf, GameIs, Named, Answered

(* A game with some of its fields replaced.                                *)
WithPeople(game, standing, answered) ==
  [game EXCEPT !.standing = standing, !.answered = answered]

WithQuestion(game, question, answered, phase) ==
  [game EXCEPT !.question = question, !.answered = answered, !.phase = phase]

(* People come, go or answer: two fields change.                           *)
LEMMA TwoFields ==
  ASSUME NEW phase, NEW question, NEW total, NEW standing, NEW answered, NEW a, NEW b,
         NEW game, game = Named(phase, question, total, standing, answered)
  PROVE  WithPeople(game, a, b) = Named(phase, question, total, a, b)
<1> DEFINE first == [game EXCEPT !.standing = a]
<1>1. first = Named(phase, question, total, a, answered)
  BY DEF Named
<1> HIDE DEF first
<1>2. [first EXCEPT !.answered = b] = Named(phase, question, total, a, b)
  BY <1>1 DEF Named
<1>3. WithPeople(game, a, b) = [first EXCEPT !.answered = b]
  BY Zenon DEF first, WithPeople
<1> QED
  BY <1>2, <1>3

(* On to the next question: three fields change.                           *)
LEMMA ThreeFields ==
  ASSUME NEW phase, NEW question, NEW total, NEW standing, NEW answered,
         NEW a, NEW b, NEW c, NEW game, game = Named(phase, question, total, standing, answered)
  PROVE  WithQuestion(game, a, b, c) = Named(c, a, total, standing, b)
<1> DEFINE first == [game EXCEPT !.question = a]
           second == [first EXCEPT !.answered = b]
<1>1. first = Named(phase, a, total, standing, answered)
  BY DEF Named
<1> HIDE DEF first
<1>2. second = Named(phase, a, total, standing, b)
  BY <1>1 DEF Named
<1> HIDE DEF second
<1>3. [second EXCEPT !.phase = c] = Named(c, a, total, standing, b)
  BY <1>2 DEF Named
<1>4. WithQuestion(game, a, b, c) = [second EXCEPT !.phase = c]
  BY Zenon DEF first, second, WithQuestion
<1> QED
  BY <1>3, <1>4

(* An operation on one session changes one game.                           *)
LEMMA GameChanges ==
  ASSUME IInv, NEW s \in Sids, NEW x, Update(s, x), UNCHANGED quizzes,
         x.quiz_code = sessions[s].quiz_code
  PROVE  GamesNow' = [GamesNow EXCEPT ![s] = GameIs(x, Len(QuestionsOf(s)))]
<1>1. /\ Sids' = Sids /\ sessions'[s] = x
      /\ \A r \in Sids : r # s => sessions'[r] = sessions[r]
  BY SeqExcept DEF IInv, TypeOK, SessionsTyped, Update, Sids
<1>2. GameOf(s)' = GameIs(x, Len(QuestionsOf(s)))
  BY <1>1 DEF GameOf, GameIs, Named, Answered, QuestionsOf
<1>3. \A r \in Sids : r # s => GameOf(r)' = GameOf(r)
  BY <1>1 DEF GameOf, QuestionsOf
<1> QED
  BY <1>1, <1>2, <1>3 DEF GamesNow

(* Removing players from a session is going from its game.                 *)
LEMMA GoIsGo ==
  ASSUME IInv, NEW s \in Sids, NEW ids, Update(s, RemovePlayers(sessions[s], ids)),
         UNCHANGED quizzes
  PROVE  Game!Go(s, ids)
<1> DEFINE old == sessions[s]
           x == RemovePlayers(old, ids)
           total == Len(QuestionsOf(s))
           game == GameIs(old, total)
           standing == [p \in DOMAIN game.standing \ ids |-> game.standing[p]]
           answered == game.answered \ ids
<1>1. IsSession(old)
  BY DEF IInv, TypeOK, SessionsTyped
<1>2. /\ x.quiz_code = old.quiz_code /\ x.state = old.state
      /\ x.current_question_index = old.current_question_index
      /\ x.players = [p \in DOMAIN old.players \ ids |-> old.players[p]]
  BY <1>1 DEF RemovePlayers, IsSession
<1>3. Board(x) = standing /\ Answered(x) = answered
  BY <1>2 DEF Board, Answered, GameIs, Named
<1>4. GameIs(x, total) = WithPeople(game, standing, answered)
  <2> DEFINE phase == old.state
             question == old.current_question_index
             board == Board(old)
             flags == Answered(old)
  <2>1. game = Named(phase, question, total, board, flags)
    BY DEF GameIs
  <2>2. GameIs(x, total) = Named(phase, question, total, standing, answered)
    <3> HIDE DEF x, standing, answered
    <3> QED BY <1>2, <1>3 DEF GameIs
  <2> HIDE DEF x, old, game, total, standing, answered, phase, question, board, flags
  <2>3. WithPeople(game, standing, answered) = Named(phase, question, total, standing, answered)
    BY <2>1, TwoFields
  <2> QED BY <2>2, <2>3
<1>5. GamesNow' = [GamesNow EXCEPT ![s] = GameIs(x, total)] /\ GamesNow[s] = game
  BY <1>2, GameChanges, GameOfIs DEF GamesNow
<1> HIDE DEF x, game
<1>6. GamesNow' = [GamesNow EXCEPT ![s] = WithPeople(GamesNow[s],
        [p \in DOMAIN GamesNow[s].standing \ ids |-> GamesNow[s].standing[p]],
        GamesNow[s].answered \ ids)]
  BY <1>4, <1>5
<1> QED
  BY <1>6 DEF Game!Go, Game!Becomes, GamesNow, WithPeople

(* Somebody enters; one phase follows another; an answer counts.           *)
WithStanding(game, standing) == [game EXCEPT !.standing = standing]

WithPhase(game, phase) == [game EXCEPT !.phase = phase]

WithAnswer(game, p, points) ==
  [game EXCEPT !.standing[p] = @ + points, !.answered = @ \cup {p}]

(* One field changes.                                                      *)
LEMMA OneField ==
  ASSUME NEW phase, NEW question, NEW total, NEW standing, NEW answered, NEW a,
         NEW game, game = Named(phase, question, total, standing, answered)
  PROVE  /\ WithStanding(game, a) = Named(phase, question, total, a, answered)
         /\ WithPhase(game, a) = Named(a, question, total, standing, answered)
BY DEF Named, WithStanding, WithPhase

(* An answer changes the standing of one player and marks them.            *)
LEMMA AnswerFields ==
  ASSUME NEW phase, NEW question, NEW total, NEW standing, NEW answered, NEW p, NEW points,
         NEW game, game = Named(phase, question, total, standing, answered)
  PROVE  WithAnswer(game, p, points)
           = Named(phase, question, total,
                   [standing EXCEPT ![p] = standing[p] + points], answered \cup {p})
<1> DEFINE a == [standing EXCEPT ![p] = standing[p] + points]
           b == answered \cup {p}
<1>1. game.standing = standing /\ game.answered = answered
  BY DEF Named
<1>2. WithPeople(game, a, b) = Named(phase, question, total, a, b)
  <2> HIDE DEF a, b
  <2> QED BY TwoFields
<1>3. WithAnswer(game, p, points) = WithPeople(game, a, b)
  BY <1>1, Zenon DEF WithAnswer, WithPeople
<1> QED
  BY <1>2, <1>3

(* The game counts people the way the server does.                         *)
LEMMA SameCount == ASSUME NEW S PROVE Game!Cardinality(S) = Cardinality(S)
BY DEF Game!Cardinality, Cardinality

(* JoinAsPlayer is Enter.                                                  *)
LEMMA EnterIsEnter ==
  ASSUME IInv, NEW t \in Threads, NEW s \in Sids, NEW pin, NEW id, JoinAsPlayer(t, s, pin, id)
  PROVE  /\ Game!Enter(s, id)
         /\ \E x : /\ Update(s, x) /\ x.state = sessions[s].state
                  /\ Answered(x) \subseteq Answered(sessions[s])
<1> DEFINE old == sessions[s]
           x == AddPlayer(old, id)
           total == Len(QuestionsOf(s))
           game == GameIs(old, total)
           standing == [q \in DOMAIN game.standing \cup {id} |->
                          IF q = id THEN 0 ELSE game.standing[q]]
           phase == old.state
           question == old.current_question_index
           board == Board(old)
           flags == Answered(old)
<1>1. IsSession(old)
  BY DEF IInv, TypeOK, SessionsTyped
<1>2. /\ x.quiz_code = old.quiz_code /\ x.state = old.state
      /\ x.current_question_index = old.current_question_index
      /\ x.players = [p \in DOMAIN old.players \cup {id} |->
                        IF p = id THEN NewPlayer ELSE old.players[p]]
  BY <1>1 DEF AddPlayer, IsSession
<1>3. /\ Update(s, x) /\ UNCHANGED quizzes /\ phase = "Lobby" /\ id \notin DOMAIN old.players
      /\ Cardinality(DOMAIN old.players) < MaxPlayersPerSession
  BY DEF JoinAsPlayer, CanAddPlayer, HasPlayer
<1>4. Board(x) = standing /\ Answered(x) = flags
  BY <1>2, <1>3 DEF Board, Answered, GameIs, Named, NewPlayer
<1>5. game = Named(phase, question, total, board, flags)
  BY DEF GameIs
<1>6. GameIs(x, total) = Named(phase, question, total, standing, flags)
  <2> HIDE DEF x, standing
  <2> QED BY <1>2, <1>4 DEF GameIs
<1>7. GameIs(x, total) = WithStanding(game, standing)
  <2> HIDE DEF x, old, game, total, standing, phase, question, board, flags
  <2> QED BY <1>5, <1>6, OneField
<1>8. GamesNow' = [GamesNow EXCEPT ![s] = GameIs(x, total)] /\ GamesNow[s] = game
  BY <1>2, <1>3, GameChanges, GameOfIs DEF GamesNow
<1>9. /\ game.phase = "Lobby" /\ DOMAIN game.standing = DOMAIN old.players
      /\ Cardinality(DOMAIN game.standing) < MaxPlayersPerSession
  BY <1>3 DEF GameIs, Named, Board
<1> HIDE DEF x, game
<1>10. GamesNow' = [GamesNow EXCEPT ![s] = WithStanding(GamesNow[s],
         [q \in DOMAIN GamesNow[s].standing \cup {id} |->
            IF q = id THEN 0 ELSE GamesNow[s].standing[q]])]
  BY <1>7, <1>8
<1>11. Game!Enter(s, id)
  BY <1>3, <1>8, <1>9, <1>10, SameCount DEF Game!Enter, Game!Becomes, GamesNow, WithStanding
<1> QED
  BY <1>2, <1>3, <1>4, <1>11

(* StartGame is Begin.  It clears the flags, which Begin does not: nobody  *)
(* is marked in the lobby.                                                 *)
LEMMA StartIsBegin ==
  ASSUME IInv, NEW t \in Threads, NEW s \in Sids, StartGame(t, s),
         sessions[s].state = "Lobby" => Answered(sessions[s]) = {}
  PROVE  /\ Game!Begin(s)
         /\ \E x : Update(s, x) /\ x.state = "Running"
<1> DEFINE old == sessions[s]
           y == StartedGame(old)
           total == Len(QuestionsOf(s))
           game == GameIs(old, total)
           phase == old.state
           question == old.current_question_index
           board == Board(old)
           flags == Answered(old)
<1>1. IsSession(old) /\ IndexFitsState(old)
  BY DEF IInv, TypeOK, SessionsTyped, QuestionInRange
<1>2. /\ y.quiz_code = old.quiz_code /\ y.state = "Running" /\ y.current_question_index = 0
      /\ y.players = FlagsCleared(old.players) /\ DOMAIN y = DOMAIN old
  BY <1>1 DEF StartedGame, IsSession
<1>3. DOMAIN old = {"pin", "quiz_code", "state", "players", "current_question_index",
                    "question_deadline", "has_question_deadline", "auto_advance_delay_ms"}
  BY <1>1 DEF IsSession
<1>4. /\ \E deadline : Update(s, WithDeadline(y, deadline))
      /\ UNCHANGED quizzes /\ phase = "Lobby" /\ DOMAIN old.players # {}
  BY DEF StartGame, CanStartGame
<1>5. PICK x : /\ Update(s, x) /\ x.quiz_code = old.quiz_code /\ x.state = "Running"
               /\ x.current_question_index = 0 /\ x.players = FlagsCleared(old.players)
  <2>1. PICK deadline : Update(s, WithDeadline(y, deadline))
    BY <1>4
  <2>2. /\ WithDeadline(y, deadline).quiz_code = y.quiz_code
        /\ WithDeadline(y, deadline).state = y.state
        /\ WithDeadline(y, deadline).current_question_index = y.current_question_index
        /\ WithDeadline(y, deadline).players = y.players
    <3> HIDE DEF y, old
    <3> QED BY <1>2, <1>3 DEF WithDeadline
  <2> HIDE DEF y, old
  <2> QED BY <1>2, <2>1, <2>2
<1>6. question = 0 /\ flags = {}
  BY <1>1, <1>4 DEF IndexFitsState
<1>7. Board(x) = board /\ Answered(x) = {}
  BY <1>1, <1>5 DEF Board, Answered, FlagsCleared, IsSession, IsMap, Player
<1>8. game = Named(phase, question, total, board, flags)
  BY DEF GameIs
<1>9. GameIs(x, total) = Named("Running", question, total, board, flags)
  BY <1>5, <1>6, <1>7 DEF GameIs
<1>10. GameIs(x, total) = WithPhase(game, "Running")
  <2> HIDE DEF old, game, total, phase, question, board, flags
  <2> QED BY <1>8, <1>9, OneField
<1>11. GamesNow' = [GamesNow EXCEPT ![s] = GameIs(x, total)] /\ GamesNow[s] = game
  BY <1>4, <1>5, GameChanges, GameOfIs DEF GamesNow
<1>12. game.phase = "Lobby" /\ game.standing # <<>>
  BY <1>4, EmptyIsSeq DEF GameIs, Named, Board
<1> HIDE DEF game
<1>13. Game!Begin(s)
  BY <1>10, <1>11, <1>12 DEF Game!Begin, Game!Becomes, GamesNow, WithPhase
<1> QED
  BY <1>5, <1>13

(* NextQuestion is Advance.  The code compares with >=, the rules with =:  *)
(* a running game is never past its last question.                         *)
LEMMA NextIsAdvance ==
  ASSUME IInv, NEW t \in Threads, NEW s \in Sids, NextQuestion(t, s)
  PROVE  /\ Game!Advance(s)
         /\ \E x : Update(s, x) /\ x.state # "Lobby"
<1> DEFINE old == sessions[s]
           total == Len(QuestionsOf(s))
           y == AdvanceToNextQuestion(old, total)
           game == GameIs(old, total)
           phase == old.state
           question == old.current_question_index
           board == Board(old)
           flags == Answered(old)
           after == IF question + 1 = total THEN "Finished" ELSE "Running"
<1>1. IsSession(old) /\ IndexFitsState(old)
  BY DEF IInv, TypeOK, SessionsTyped, QuestionInRange
<1>2. /\ total \in Nat /\ question \in Nat /\ phase = "Running" /\ question < total
      /\ UNCHANGED quizzes
  BY <1>1, StoredQuestions DEF QuestionsOf, IndexFitsState, HasQuiz, NextQuestion, CanAdvance,
                               IsSession
<1>3. /\ y.quiz_code = old.quiz_code /\ y.players = FlagsCleared(old.players)
      /\ y.current_question_index = question + 1 /\ DOMAIN y = DOMAIN old
      /\ y.state = IF question + 1 >= total THEN "Finished" ELSE phase
  <2> HIDE DEF total
  <2> QED BY <1>1 DEF AdvanceToNextQuestion, IsSession
<1>4. y.state = after
  BY <1>2, <1>3
<1>5. DOMAIN old = {"pin", "quiz_code", "state", "players", "current_question_index",
                    "question_deadline", "has_question_deadline", "auto_advance_delay_ms"}
  BY <1>1 DEF IsSession
<1>6. \/ Update(s, y)
      \/ \E deadline : Update(s, WithDeadline(y, deadline))
  BY DEF NextQuestion
<1>7. PICK x : /\ Update(s, x) /\ x.quiz_code = old.quiz_code /\ x.state = after
               /\ x.current_question_index = question + 1
               /\ x.players = FlagsCleared(old.players)
  <2>1. ASSUME NEW deadline
        PROVE  /\ WithDeadline(y, deadline).quiz_code = y.quiz_code
               /\ WithDeadline(y, deadline).state = y.state
               /\ WithDeadline(y, deadline).current_question_index = y.current_question_index
               /\ WithDeadline(y, deadline).players = y.players
    <3> HIDE DEF y, old
    <3> QED BY <1>3, <1>5 DEF WithDeadline
  <2> HIDE DEF y, old, after, question, phase, total
  <2> QED BY <1>3, <1>4, <1>6, <2>1
<1>8. Board(x) = board /\ Answered(x) = {}
  BY <1>1, <1>7 DEF Board, Answered, FlagsCleared, IsSession, IsMap, Player
<1>9. game = Named(phase, question, total, board, flags)
  BY DEF GameIs
<1>10. GameIs(x, total) = Named(after, question + 1, total, board, {})
  <2> HIDE DEF after, question, total, board
  <2> QED BY <1>7, <1>8 DEF GameIs
<1>11. GameIs(x, total) = WithQuestion(game, question + 1, {}, after)
  <2> DEFINE next == question + 1
  <2> HIDE DEF old, game, total, phase, question, board, flags, after, next
  <2>1. GameIs(x, total) = Named(after, next, total, board, {})
    BY <1>10 DEF next
  <2> QED BY <1>9, <2>1, ThreeFields DEF next
<1>12. GamesNow' = [GamesNow EXCEPT ![s] = GameIs(x, total)] /\ GamesNow[s] = game
  BY <1>2, <1>7, GameChanges, GameOfIs DEF GamesNow
<1>13. game.phase = "Running" /\ game.question = question /\ game.total = total
  BY <1>2 DEF GameIs, Named
<1> HIDE DEF game
<1>14. GamesNow' = [GamesNow EXCEPT ![s] = WithQuestion(GamesNow[s], GamesNow[s].question + 1, {},
         IF GamesNow[s].question + 1 = GamesNow[s].total THEN "Finished" ELSE GamesNow[s].phase)]
  BY <1>11, <1>12, <1>13
<1>15. Game!Advance(s)
  BY <1>12, <1>13, <1>14 DEF Game!Advance, Game!Becomes, GamesNow, WithQuestion
<1> QED
  BY <1>7, <1>15

(* What the answers may earn.                                              *)
AnswersPoints == {CalculatePoints(q, a) : q \in QuestionsAsked, a \in Answers}

(* SubmitAnswer is AnswerQuestion, for the points of some question asked.  *)
LEMMA SubmitIsAnswer ==
  ASSUME IInv, quizzes \in Seq(QuizDrafts), NEW t \in Threads, NEW s \in Sids, NEW id,
         NEW answer \in Answers, SubmitAnswer(t, s, id, answer)
  PROVE  /\ \E points \in AnswersPoints : Game!AnswerQuestion(s, id, points)
         /\ \E x : Update(s, x) /\ x.state # "Lobby"
<1> DEFINE old == sessions[s]
           total == Len(QuestionsOf(s))
           points == CalculatePoints(CurrentQuestion(s), answer)
           player == [old.players[id] EXCEPT !.answered_current_question = TRUE,
                                             !.score = old.players[id].score + points]
           f == [old.players EXCEPT ![id] = player]
           x == RecordAnswer(old, id, points)
           game == GameIs(old, total)
           phase == old.state
           question == old.current_question_index
           board == Board(old)
           flags == Answered(old)
           standing == [board EXCEPT ![id] = board[id] + points]
<1>1. IsSession(old) /\ IndexFitsState(old) /\ HasQuiz(old.quiz_code)
  BY DEF IInv, TypeOK, SessionsTyped, QuestionInRange, IndexFitsState
<1>2. /\ Update(s, x) /\ UNCHANGED quizzes /\ phase = "Running" /\ id \in DOMAIN old.players
      /\ ~old.players[id].answered_current_question /\ question < total
  BY DEF SubmitAnswer, CanSubmitAnswer, HasPlayer
<1>3. points \in AnswersPoints
  <2>1. quizzes[old.quiz_code] \in QuizDrafts
    BY <1>1, ElementOfSeq, LenProperties DEF HasQuiz
  <2>2. question + 1 \in 1..total /\ DOMAIN QuestionsOf(s) = 1..total
    <3>1. total \in Nat \ {0} /\ question \in Nat
      BY <1>1, StoredQuestions DEF HasQuiz, QuestionsOf, IsSession
    <3>2. QuestionsOf(s) \in Seq(Question)
      BY <2>1, QuizAssumption DEF QuestionsOf, QuizType
    <3> QED BY <1>2, <3>1, <3>2, LenProperties
  <2>3. CurrentQuestion(s) \in QuestionsAsked
    BY <2>1, <2>2 DEF CurrentQuestion, QuestionsAsked, QuestionsOf
  <2> QED BY <2>3 DEF AnswersPoints
<1> HIDE DEF points
<1>4. x = WithPlayer(old, id, player)
  BY DEF RecordAnswer
<1>5. /\ x.quiz_code = old.quiz_code /\ x.state = phase
      /\ x.current_question_index = question /\ x.players = f
  <2> HIDE DEF x, player
  <2> QED BY <1>1, <1>4 DEF WithPlayer, IsSession
<1>6. DOMAIN f = DOMAIN old.players /\ f[id] = player
      /\ \A p \in DOMAIN f : p # id => f[p] = old.players[p]
  <2> HIDE DEF player
  <2> QED BY <1>1, <1>2 DEF IsSession, IsMap
<1>7. player.answered_current_question /\ player.score = old.players[id].score + points
  BY <1>1, <1>2 DEF IsSession, IsMap, Player
<1> HIDE DEF f, player, x
<1>8. Board(x) = standing
  BY <1>2, <1>5, <1>6, <1>7 DEF Board
<1>9. Answered(x) = flags \cup {id}
  BY <1>2, <1>5, <1>6, <1>7 DEF Answered
<1>10. game = Named(phase, question, total, board, flags)
  BY DEF GameIs
<1>11. GameIs(x, total) = Named(phase, question, total, standing, flags \cup {id})
  <2> HIDE DEF standing, phase, question, total, flags
  <2> QED BY <1>5, <1>8, <1>9 DEF GameIs
<1>12. GameIs(x, total) = WithAnswer(game, id, points)
  <2> HIDE DEF old, game, total, phase, question, board, flags
  <2> QED BY <1>10, <1>11, AnswerFields
<1>13. GamesNow' = [GamesNow EXCEPT ![s] = GameIs(x, total)] /\ GamesNow[s] = game
  BY <1>2, <1>5, GameChanges, GameOfIs DEF GamesNow
<1>14. game.phase = "Running" /\ id \in DOMAIN game.standing \ game.answered
  BY <1>2 DEF GameIs, Named, Board, Answered
<1> HIDE DEF game
<1>15. GamesNow' = [GamesNow EXCEPT ![s] = WithAnswer(GamesNow[s], id, points)]
  BY <1>12, <1>13
<1>16. Game!AnswerQuestion(s, id, points)
  BY <1>13, <1>14, <1>15 DEF Game!AnswerQuestion, Game!Becomes, GamesNow, WithAnswer
<1> QED
  BY <1>2, <1>3, <1>5, <1>16

(* A session that opens is a fresh game.                                   *)
LEMMA CreateIsOpen ==
  ASSUME IInv, quizzes \in Seq(QuizDrafts), NEW t \in Threads, NEW code \in DOMAIN quizzes,
         NEW host \in PlayerIds, NEW pin \in Pins, NEW delay \in Delays,
         CreateSession(t, code, host, pin, delay)
  PROVE  /\ \E total \in {Len(quiz.questions) : quiz \in QuizDrafts} : Game!Open(host, total)
         /\ \E x : sessions' = Append(sessions, x) /\ Answered(x) = {}
<1> DEFINE x == NewSession(code, pin, host, delay)
           total == Len(quizzes[code].questions)
           fresh == Game!Fresh(host, total)
<1>0. PICK n \in Nat : n = Len(sessions)
  BY SeqDomain DEF IInv, TypeOK, SessionsTyped
<1>1. IsSeq(sessions) /\ Sids = 1..n
  BY <1>0, SeqDomain DEF IInv, TypeOK, SessionsTyped, Sids
<1>2. sessions' = Append(sessions, x) /\ UNCHANGED quizzes
  BY DEF CreateSession
<1>3. /\ x.state = "Lobby" /\ x.current_question_index = 0 /\ x.quiz_code = code
      /\ x.players = [id \in {host} |-> NewPlayer]
  BY DEF NewSession
<1>4. Board(x) = [p \in {host} |-> 0] /\ Answered(x) = {}
  BY <1>3 DEF Board, Answered, NewPlayer
<1> HIDE DEF x
<1>5. /\ Sids' = Sids \cup {n + 1} /\ sessions'[n + 1] = x
      /\ \A r \in Sids : sessions'[r] = sessions[r]
  BY <1>0, <1>1, <1>2, SeqAppend DEF Sids
<1>6. GameOf(n + 1)' = fresh
  <2>1. QuestionsOf(n + 1)' = quizzes[code].questions
    BY <1>2, <1>3, <1>5 DEF QuestionsOf
  <2>2. GameOf(n + 1)' = [phase |-> x.state, question |-> x.current_question_index,
                          total |-> total, standing |-> Board(x), answered |-> Answered(x)]
    BY <1>5, <2>1 DEF GameOf, Answered
  <2> QED BY <1>3, <1>4, <2>2 DEF Game!Fresh
<1>7. \A r \in Sids : GameOf(r)' = GameOf(r)
  BY <1>2, <1>5 DEF GameOf, QuestionsOf
<1> HIDE DEF fresh
<1>8. GamesNow \in Seq({GameOf(r) : r \in Sids})
  <2> DEFINE T == {GameOf(r) : r \in Sids}
  <2>1. GamesNow \in [1..n -> T]
    BY <1>1 DEF GamesNow
  <2>2. GamesNow \in Seq(T)
    <3> HIDE DEF T, GamesNow
    <3> QED BY <1>0, <2>1, SeqDef
  <2> QED BY <2>2
<1>9. IsSeq(GamesNow) /\ DOMAIN GamesNow = Sids /\ Len(GamesNow) = n
  <2>1. DOMAIN GamesNow = Sids
    BY DEF GamesNow
  <2>2. IsSeq(GamesNow)
    BY <1>8, SeqIsSeq
  <2> QED BY <1>1, <2>1, <2>2, SeqDomain
<1>10. /\ IsSeq(Append(GamesNow, fresh)) /\ DOMAIN Append(GamesNow, fresh) = Sids \cup {n + 1}
       /\ \A r \in Sids : Append(GamesNow, fresh)[r] = GameOf(r)
       /\ Append(GamesNow, fresh)[n + 1] = fresh
  BY <1>9, SeqAppend DEF GamesNow
<1>11. Append(GamesNow, fresh) \in [1..(n + 1) -> {Append(GamesNow, fresh)[r] : r \in 1..(n + 1)}]
  <2> DEFINE a == Append(GamesNow, fresh)
  <2>1. IsSeq(a) /\ DOMAIN a = 1..(n + 1)
    BY <1>1, <1>10
  <2> HIDE DEF a
  <2>2. a \in [1..(n + 1) -> {a[r] : r \in 1..(n + 1)}]
    BY <2>1, SeqDomain, LenProperties DEF IsSeq
  <2> QED BY <2>2 DEF a
<1>12. GamesNow' = Append(GamesNow, fresh)
  <2>1. GamesNow' = [r \in Sids \cup {n + 1} |-> GameOf(r)']
    BY <1>5 DEF GamesNow
  <2> HIDE DEF GamesNow
  <2> QED BY <1>1, <1>6, <1>7, <1>10, <1>11, <2>1
<1>13. Game!Open(host, total)
  BY <1>12 DEF Game!Open, GamesNow, fresh
<1>14. total \in {Len(quiz.questions) : quiz \in QuizDrafts}
  <2>1. quizzes[code] \in QuizDrafts
    BY ElementOfSeq, LenProperties
  <2> QED BY <2>1
<1> QED
  BY <1>2, <1>4, <1>13, <1>14

(* Somebody goes, by leaving or because the cleanup removed them.          *)
RemovesFrom(s) ==
  \E ids \in SUBSET PlayerIds : Update(s, RemovePlayers(sessions[s], ids)) /\ UNCHANGED quizzes

(* Leave and CleanupSession are Go.                                        *)
LEMMA RemovalIsGo ==
  ASSUME IInv, NEW s \in Sids, RemovesFrom(s)
  PROVE  /\ \E ids \in SUBSET PlayerIds : Game!Go(s, ids)
         /\ \E x : /\ Update(s, x) /\ x.state = sessions[s].state
                  /\ Answered(x) \subseteq Answered(sessions[s])
<1>1. PICK ids \in SUBSET PlayerIds : Update(s, RemovePlayers(sessions[s], ids)) /\ UNCHANGED quizzes
  BY DEF RemovesFrom
<1> DEFINE x == RemovePlayers(sessions[s], ids)
<1>2. IsSession(sessions[s])
  BY DEF IInv, TypeOK, SessionsTyped
<1>3. /\ x.state = sessions[s].state
      /\ x.players = [p \in DOMAIN sessions[s].players \ ids |-> sessions[s].players[p]]
  BY <1>2 DEF RemovePlayers, IsSession
<1>4. Answered(x) \subseteq Answered(sessions[s])
  BY <1>3 DEF Answered
<1> QED
  BY <1>1, <1>3, <1>4, GoIsGo

(* Whether a player is connected is no matter of the game.                 *)
LEMMA PresenceIsNoMove ==
  ASSUME IInv, NEW s \in Sids, NEW id, Disconnect(s, id) \/ Reconnect(s, id)
  PROVE  /\ GamesNow' = GamesNow
         /\ \E x : /\ Update(s, x) /\ x.state = sessions[s].state
                  /\ Answered(x) \subseteq Answered(sessions[s])
<1> DEFINE old == sessions[s]
           total == Len(QuestionsOf(s))
           game == GameIs(old, total)
<1>1. IsSession(old)
  BY DEF IInv, TypeOK, SessionsTyped
<1>2. PICK player : /\ Update(s, WithPlayer(old, id, player))
                    /\ player.score = old.players[id].score
                    /\ player.answered_current_question = old.players[id].answered_current_question
  <2>1. /\ [old.players[id] EXCEPT !.connected = FALSE, !.disconnected_at = now].score
             = old.players[id].score
        /\ [old.players[id] EXCEPT !.connected = FALSE, !.disconnected_at = now].answered_current_question
             = old.players[id].answered_current_question
        /\ [old.players[id] EXCEPT !.connected = TRUE, !.disconnected_at = Never].score
             = old.players[id].score
        /\ [old.players[id] EXCEPT !.connected = TRUE, !.disconnected_at = Never].answered_current_question
             = old.players[id].answered_current_question
    <3>1. old.players[id] \in Player
      BY <1>1 DEF IsSession, IsMap, Disconnect, Reconnect, HasPlayer
    <3> QED BY <3>1 DEF Player
  <2> QED BY <2>1 DEF Disconnect, Reconnect, DisconnectPlayer, ReconnectPlayer
<1>3. id \in DOMAIN old.players /\ UNCHANGED quizzes
  BY DEF Disconnect, Reconnect, HasPlayer
<1> DEFINE f == [old.players EXCEPT ![id] = player]
           x == WithPlayer(old, id, player)
<1>4. /\ x.quiz_code = old.quiz_code /\ x.state = old.state
      /\ x.current_question_index = old.current_question_index /\ x.players = f
  BY <1>1 DEF WithPlayer, IsSession
<1>5. DOMAIN f = DOMAIN old.players /\ f[id] = player
      /\ \A p \in DOMAIN f : p # id => f[p] = old.players[p]
  BY <1>1, <1>3 DEF IsSession, IsMap
<1> HIDE DEF f, x
<1>6. Board(x) = Board(old)
  BY <1>2, <1>4, <1>5 DEF Board
<1>7. Answered(x) = Answered(old)
  BY <1>2, <1>4, <1>5 DEF Answered
<1>8. GameIs(x, total) = game
  BY <1>4, <1>6, <1>7 DEF GameIs
<1>9. Update(s, x)
  BY <1>2 DEF x
<1>10. GamesNow' = [GamesNow EXCEPT ![s] = GameIs(x, total)] /\ GamesNow[s] = game
  BY <1>3, <1>4, <1>9, GameChanges, GameOfIs DEF GamesNow
<1>11. GamesNow' = GamesNow
  <2> HIDE DEF game
  <2> QED BY <1>8, <1>10 DEF GamesNow
<1> QED
  BY <1>4, <1>7, <1>9, <1>11

(* Storing a quiz changes no quiz in use.                                  *)
LEMMA StoreIsNoMove ==
  ASSUME IInv, NEW quiz \in QuizDrafts, StoreQuiz(quiz)
  PROVE  GamesNow' = GamesNow /\ sessions' = sessions /\ quizzes' = Append(quizzes, quiz)
<1>1. quizzes' = Append(quizzes, quiz) /\ sessions' = sessions
  BY DEF StoreQuiz, CreateQuiz
<1>2. IsSeq(quizzes)
  BY SeqIsSeq DEF IInv, TypeOK, QuizzesTyped
<1>3. \A code \in DOMAIN quizzes : quizzes'[code] = quizzes[code]
  BY <1>1, <1>2, SeqAppend
<1>4. \A s \in Sids : sessions[s].quiz_code \in DOMAIN quizzes
  BY DEF IInv, QuestionInRange, IndexFitsState, HasQuiz
<1>5. \A s \in Sids : GameOf(s)' = GameOf(s)
  BY <1>1, <1>3, <1>4 DEF GameOf, QuestionsOf
<1> QED
  BY <1>1, <1>5 DEF GamesNow, Sids

-----------------------------------------------------------------------------
(* What the refinement needs to know of a state.                           *)
GInv ==
  /\ quizzes \in Seq(QuizDrafts)
  /\ \A s \in Sids : sessions[s].state = "Lobby" => Answered(sessions[s]) = {}

(* It lasts when a session is replaced by one no more marked.              *)
LEMMA GInvUpdate ==
  ASSUME IInv, GInv, NEW s \in Sids, NEW x, Update(s, x), UNCHANGED quizzes,
         x.state = "Lobby" =>
           sessions[s].state = "Lobby" /\ Answered(x) \subseteq Answered(sessions[s])
  PROVE  GInv'
<1>1. /\ Sids' = Sids /\ sessions'[s] = x
      /\ \A r \in Sids : r # s => sessions'[r] = sessions[r]
  BY SeqExcept DEF IInv, TypeOK, SessionsTyped, Update, Sids
<1>2. ASSUME NEW r \in Sids PROVE sessions'[r].state = "Lobby" => Answered(sessions'[r]) = {}
  <2>1. CASE r = s
    BY <1>1, <2>1 DEF GInv
  <2>2. CASE r # s
    BY <1>1, <2>2 DEF GInv
  <2> QED BY <2>1, <2>2
<1> QED
  BY <1>1, <1>2 DEF GInv, Answered

(* Every step of the server is a move of the game, or none.                *)
LEMMA StepIsMove ==
  ASSUME IInv, GInv, [ManagerNext]_managerVars
  PROVE  GInv' /\ [Game!GamesNext]_GamesNow
<1>1. ASSUME NEW quiz \in QuizDrafts, StoreQuiz(quiz) PROVE GInv' /\ GamesNow' = GamesNow
  <2>1. GamesNow' = GamesNow /\ sessions' = sessions /\ quizzes' = Append(quizzes, quiz)
    BY <1>1, StoreIsNoMove
  <2>2. quizzes' \in Seq(QuizDrafts)
    BY <2>1, AppendProperties DEF GInv
  <2> QED BY <2>1, <2>2 DEF GInv, Sids, Answered
<1>2. DOMAIN GamesNow = Sids
  BY DEF GamesNow
<1>3. ASSUME NEW t \in Threads, NEW code \in DOMAIN quizzes, NEW host \in PlayerIds,
             NEW pin \in Pins, NEW delay \in Delays, CreateSession(t, code, host, pin, delay)
      PROVE  GInv' /\ Game!GamesNext
  <2>1. /\ \E total \in {Len(quiz.questions) : quiz \in QuizDrafts} : Game!Open(host, total)
        /\ \E x : sessions' = Append(sessions, x) /\ Answered(x) = {}
    BY <1>3, CreateIsOpen DEF GInv
  <2>2. PICK x : sessions' = Append(sessions, x) /\ Answered(x) = {}
    BY <2>1
  <2>3. /\ Sids' = Sids \cup {Len(sessions) + 1} /\ sessions'[Len(sessions) + 1] = x
        /\ \A r \in Sids : sessions'[r] = sessions[r]
    BY <2>2, SeqAppend DEF IInv, TypeOK, SessionsTyped, Sids
  <2>4. quizzes' = quizzes
    BY <1>3 DEF CreateSession
  <2>5. GInv'
    BY <2>2, <2>3, <2>4 DEF GInv, Answered
  <2>6. Game!GamesNext
    BY <2>1 DEF Game!GamesNext
  <2> QED BY <2>5, <2>6
<1>4. ASSUME NEW t \in Threads, NEW s \in Sids, NEW pin, NEW id \in PlayerIds,
             JoinAsPlayer(t, s, pin, id)
      PROVE  GInv' /\ Game!GamesNext
  <2>1. Game!Enter(s, id)
    BY <1>4, EnterIsEnter
  <2>2. PICK x : /\ Update(s, x) /\ x.state = sessions[s].state
                 /\ Answered(x) \subseteq Answered(sessions[s])
    BY <1>4, EnterIsEnter
  <2>3. UNCHANGED quizzes
    BY <1>4 DEF JoinAsPlayer
  <2>4. GInv'
    BY <2>2, <2>3, GInvUpdate
  <2> QED BY <1>2, <2>1, <2>4 DEF Game!GamesNext, GamesNow
<1>5. ASSUME NEW s \in Sids, RemovesFrom(s) PROVE GInv' /\ Game!GamesNext
  <2>1. \E ids \in SUBSET PlayerIds : Game!Go(s, ids)
    BY <1>5, RemovalIsGo
  <2>2. PICK x : /\ Update(s, x) /\ x.state = sessions[s].state
                 /\ Answered(x) \subseteq Answered(sessions[s])
    BY <1>5, RemovalIsGo
  <2>3. UNCHANGED quizzes
    BY <1>5 DEF RemovesFrom
  <2>4. GInv'
    BY <2>2, <2>3, GInvUpdate
  <2> QED BY <1>2, <2>1, <2>4 DEF Game!GamesNext, GamesNow
<1>6. ASSUME NEW t \in Threads, NEW s \in Sids, NEW id \in PlayerIds, Leave(t, s, id)
      PROVE  RemovesFrom(s)
  BY <1>6 DEF Leave, RemovesFrom
<1>7. ASSUME NEW s \in Sids, CleanupSession(s) PROVE RemovesFrom(s)
  <2>1. IsSession(sessions[s])
    BY DEF IInv, TypeOK, SessionsTyped
  <2>2. LongGone(sessions[s], cleanup.now, ReconnectTimeout) \subseteq PlayerIds
    BY <2>1 DEF LongGone, IsSession, IsMap
  <2> QED BY <1>7, <2>2 DEF CleanupSession, RemovesFrom
<1>8. ASSUME NEW t \in Threads, NEW s \in Sids, StartGame(t, s)
      PROVE  GInv' /\ Game!GamesNext
  <2>1. sessions[s].state = "Lobby" => Answered(sessions[s]) = {}
    BY DEF GInv
  <2>2. Game!Begin(s)
    BY <1>8, <2>1, StartIsBegin
  <2>3. PICK x : Update(s, x) /\ x.state = "Running"
    BY <1>8, <2>1, StartIsBegin
  <2>4. UNCHANGED quizzes
    BY <1>8 DEF StartGame
  <2>5. GInv'
    BY <2>3, <2>4, GInvUpdate
  <2> QED BY <1>2, <2>2, <2>5 DEF Game!GamesNext, GamesNow
<1>9. ASSUME NEW t \in Threads, NEW s \in Sids, NextQuestion(t, s)
      PROVE  GInv' /\ Game!GamesNext
  <2>1. Game!Advance(s)
    BY <1>9, NextIsAdvance
  <2>2. PICK x : Update(s, x) /\ x.state # "Lobby"
    BY <1>9, NextIsAdvance
  <2>3. UNCHANGED quizzes
    BY <1>9 DEF NextQuestion
  <2>4. GInv'
    BY <2>2, <2>3, GInvUpdate
  <2> QED BY <1>2, <2>1, <2>4 DEF Game!GamesNext, GamesNow
<1>10. ASSUME NEW t \in Threads, NEW s \in Sids, NEW id \in PlayerIds, NEW answer \in Answers,
              SubmitAnswer(t, s, id, answer)
       PROVE  GInv' /\ Game!GamesNext
  <2>1. quizzes \in Seq(QuizDrafts)
    BY DEF GInv
  <2>2. \E points \in AnswersPoints : Game!AnswerQuestion(s, id, points)
    BY <1>10, <2>1, SubmitIsAnswer
  <2>3. PICK x : Update(s, x) /\ x.state # "Lobby"
    BY <1>10, <2>1, SubmitIsAnswer
  <2>4. UNCHANGED quizzes
    BY <1>10 DEF SubmitAnswer
  <2>5. GInv'
    BY <2>3, <2>4, GInvUpdate
  <2> QED BY <1>2, <2>2, <2>5 DEF Game!GamesNext, GamesNow, AnswersPoints
<1>11. ASSUME NEW s \in Sids, NEW id, Disconnect(s, id) \/ Reconnect(s, id)
       PROVE  GInv' /\ GamesNow' = GamesNow
  <2>1. GamesNow' = GamesNow
    BY <1>11, PresenceIsNoMove
  <2>2. PICK x : /\ Update(s, x) /\ x.state = sessions[s].state
                 /\ Answered(x) \subseteq Answered(sessions[s])
    BY <1>11, PresenceIsNoMove
  <2>3. UNCHANGED quizzes
    BY <1>11 DEF Disconnect, Reconnect
  <2>4. GInv'
    BY <2>2, <2>3, GInvUpdate
  <2> QED BY <2>1, <2>4
<1>12. CASE \/ \E t \in Threads : Broadcast(t)
            \/ CleanupBegin \/ CleanupList \/ CleanupEnd
            \/ \E s \in Sids, id \in PlayerIds : CleanupAnnounce(s, id)
            \/ TimePasses(SessionInstants) \/ UNCHANGED managerVars
  <2>1. UNCHANGED <<quizzes, sessions>>
    BY <1>12 DEF Broadcast, CleanupBegin, CleanupList, CleanupEnd, CleanupAnnounce, TimePasses,
                 managerVars
  <2> QED BY <2>1 DEF GInv, GamesNow, GameOf, Sids, QuestionsOf, Answered, Board
<1> QED
  BY <1>1, <1>3, <1>4, <1>5, <1>6, <1>7, <1>8, <1>9, <1>10, <1>11, <1>12
  DEF ManagerNext, CleanupStep

(* Before the first session there is no game.                              *)
LEMMA InitIsInit == ManagerInit => GInv /\ Game!GamesInit
<1> SUFFICES ASSUME ManagerInit
             PROVE  GInv /\ Game!GamesInit
  OBVIOUS
<1>1. quizzes = <<>> /\ sessions = <<>> /\ Sids = {}
  BY EmptyIsSeq DEF ManagerInit, RegistryInit, Sids
<1>2. GamesNow = <<>>
  BY <1>1, EmptyIsSeq, EmptySeq DEF GamesNow
<1> QED
  BY <1>1, <1>2, EmptySeq DEF GInv, Game!GamesInit, GamesNow

(* Many threads, a clock, a cleanup and events in flight: under them all,  *)
(* the sessions are games by the rules of QuizGame.                        *)
THEOREM PlaysTheGame == ManagerSpec => ImplementsGame
<1>1. ManagerInit => GInv /\ Game!GamesInit
  BY InitIsInit
<1>2. IInv /\ GInv /\ [ManagerNext]_managerVars => GInv' /\ [Game!GamesNext]_GamesNow
  BY StepIsMove
<1> QED
  BY <1>1, <1>2, AlwaysIInv, PTL DEF ManagerSpec, ImplementsGame, Game!GamesSpec, GamesNow

=============================================================================
