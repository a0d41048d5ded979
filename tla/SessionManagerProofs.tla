------------------------ MODULE SessionManagerProofs ------------------------
(***************************************************************************)
(* What SessionManager promises for any number of threads, players,        *)
(* sessions and quizzes, and any answers.                                  *)
(***************************************************************************)
EXTENDS SessionManager, SequenceTheorems, TLAPS

-----------------------------------------------------------------------------
(* Sequences that are typed entry by entry.                                *)

(* A sequence over any set is one over the set of its own entries.         *)
LEMMA SeqIsSeq ==
  ASSUME NEW S, NEW f \in Seq(S)
  PROVE  IsSeq(f)
<1> DEFINE T == {f[i] : i \in DOMAIN f}
<1>1. Len(f) \in Nat /\ f \in [1..Len(f) -> S]
  BY LenProperties
<1>2. f \in [1..Len(f) -> T]
  BY <1>1
<1>3. f \in Seq(T)
  <2> HIDE DEF T
  <2> QED BY <1>1, <1>2, SeqDef
<1> QED
  BY <1>3 DEF IsSeq

(* The domain of a sequence is an interval that starts at 1.               *)
LEMMA SeqDomain ==
  ASSUME NEW f, IsSeq(f)
  PROVE  Len(f) \in Nat /\ DOMAIN f = 1..Len(f)
BY LenProperties DEF IsSeq

(* The empty sequence has no entry.                                        *)
LEMMA EmptyIsSeq == IsSeq(<<>>) /\ DOMAIN <<>> = {}
<1>1. <<>> \in Seq({}) /\ Len(<<>>) = 0
  BY EmptySeq
<1>2. IsSeq(<<>>) /\ DOMAIN <<>> = 1..0
  BY <1>1, SeqIsSeq, LenProperties
<1> QED
  BY <1>2

(* Append keeps every entry and adds one.                                  *)
LEMMA SeqAppend ==
  ASSUME NEW f, IsSeq(f), NEW x
  PROVE  /\ IsSeq(Append(f, x))
         /\ DOMAIN Append(f, x) = DOMAIN f \cup {Len(f) + 1}
         /\ \A i \in DOMAIN f : Append(f, x)[i] = f[i]
         /\ Append(f, x)[Len(f) + 1] = x
<1> DEFINE T == {f[i] : i \in DOMAIN f}
           S == T \cup {x}
           g == Append(f, x)
<1>1. f \in Seq(S)
  <2>1. f \in Seq(T) /\ T \subseteq S
    BY DEF IsSeq
  <2> HIDE DEF T, S
  <2> QED BY <2>1, SeqMonotonic
<1>2. x \in S
  OBVIOUS
<1>3. g \in Seq(S) /\ Len(g) = Len(f) + 1 /\ g[Len(f) + 1] = x
      /\ \A i \in 1..Len(f) : g[i] = f[i]
  <2> HIDE DEF S
  <2> QED BY <1>1, <1>2, AppendProperties
<1>4. IsSeq(g)
  <2> HIDE DEF S, g
  <2> QED BY <1>3, SeqIsSeq
<1>5. Len(f) \in Nat /\ DOMAIN f = 1..Len(f) /\ DOMAIN g = 1..(Len(f) + 1)
  <2> HIDE DEF g
  <2> QED BY <1>3, <1>4, SeqDomain
<1> QED
  <2> HIDE DEF g
  <2>1. DOMAIN g = DOMAIN f \cup {Len(f) + 1}
    BY <1>5
  <2>2. \A i \in DOMAIN f : g[i] = f[i]
    BY <1>3, <1>5
  <2> QED BY <1>3, <1>4, <2>1, <2>2 DEF g

(* Changing an entry keeps the sequence and every other entry.             *)
LEMMA SeqExcept ==
  ASSUME NEW f, IsSeq(f), NEW s \in DOMAIN f, NEW x
  PROVE  /\ IsSeq([f EXCEPT ![s] = x])
         /\ DOMAIN [f EXCEPT ![s] = x] = DOMAIN f
         /\ [f EXCEPT ![s] = x][s] = x
         /\ \A r \in DOMAIN f : r # s => [f EXCEPT ![s] = x][r] = f[r]
<1> DEFINE T == {f[i] : i \in DOMAIN f}
           S == T \cup {x}
           g == [f EXCEPT ![s] = x]
<1>1. f \in Seq(S)
  <2>1. f \in Seq(T) /\ T \subseteq S
    BY DEF IsSeq
  <2> HIDE DEF T, S
  <2> QED BY <2>1, SeqMonotonic
<1>2. x \in S /\ s \in 1..Len(f)
  BY SeqDomain
<1>3. g \in Seq(S)
  <2> HIDE DEF S
  <2> QED BY <1>1, <1>2, ExceptSeq
<1>4. IsSeq(g)
  <2> HIDE DEF S, g
  <2> QED BY <1>3, SeqIsSeq
<1> QED
  BY <1>4, SeqDomain

-----------------------------------------------------------------------------
(* Every rule of the domain keeps a session well-formed.                   *)

(* A player who joins is well-formed.                                      *)
LEMMA NewPlayerType == NewPlayer \in Player
BY DEF NewPlayer, Player

(* CreateSession makes a well-formed session.                              *)
LEMMA NewSessionType ==
  ASSUME NEW quiz_code \in Nat, NEW pin \in Pins, NEW host_id \in PlayerIds,
         NEW delay \in Delays
  PROVE  IsSession(NewSession(quiz_code, pin, host_id, delay))
<1>1. IsMap([id \in {host_id} |-> NewPlayer], Player)
  BY NewPlayerType DEF IsMap
<1> QED
  BY <1>1 DEF IsSession, NewSession, SessionState

(* AddPlayer keeps a session well-formed.                                  *)
LEMMA AddPlayerType ==
  ASSUME NEW s, IsSession(s), NEW id \in PlayerIds
  PROVE  IsSession(AddPlayer(s, id))
<1> DEFINE f == [p \in DOMAIN s.players \cup {id} |-> IF p = id THEN NewPlayer ELSE s.players[p]]
<1>1. IsMap(f, Player)
  BY NewPlayerType DEF IsSession, IsMap
<1> QED
  BY <1>1 DEF IsSession, AddPlayer

(* Clearing the answered flags keeps every player well-formed.             *)
LEMMA FlagsClearedType ==
  ASSUME NEW f, IsMap(f, Player)
  PROVE  IsMap(FlagsCleared(f), Player)
BY DEF IsMap, FlagsCleared, Player

(* A session stays well-formed when one field gets a value of its type.    *)
LEMMA StateType ==
  ASSUME NEW s, IsSession(s), NEW state \in SessionState
  PROVE  IsSession([s EXCEPT !.state = state])
BY DEF IsSession

(* The same for the question index.                                        *)
LEMMA IndexType ==
  ASSUME NEW s, IsSession(s), NEW index \in Nat
  PROVE  IsSession([s EXCEPT !.current_question_index = index])
BY DEF IsSession

(* The same for the players.                                               *)
LEMMA PlayersType ==
  ASSUME NEW s, IsSession(s), NEW f, IsMap(f, Player)
  PROVE  IsSession([s EXCEPT !.players = f])
BY DEF IsSession

(* StartGame keeps a session well-formed.                                  *)
LEMMA StartedGameType ==
  ASSUME NEW s, IsSession(s)
  PROVE  IsSession(StartedGame(s))
<1> DEFINE f == FlagsCleared(s.players)
           a == [s EXCEPT !.state = "Running"]
           b == [a EXCEPT !.current_question_index = 0]
<1>1. IsMap(f, Player)
  BY FlagsClearedType DEF IsSession
<1>2. IsSession(a)
  BY StateType DEF SessionState
<1>3. IsSession(b)
  <2> HIDE DEF a
  <2> QED BY <1>2, IndexType
<1>4. IsSession([b EXCEPT !.players = f])
  <2> HIDE DEF b, f
  <2> QED BY <1>1, <1>3, PlayersType
<1> QED
  BY ONLY <1>4, Zenon DEF StartedGame

(* AdvanceToNextQuestion keeps a session well-formed, at its end too.      *)
LEMMA AdvanceType ==
  ASSUME NEW s, IsSession(s), NEW total \in Nat
  PROVE  IsSession(AdvanceToNextQuestion(s, total))
<1> DEFINE index == s.current_question_index + 1
           f     == FlagsCleared(s.players)
           state == IF index >= total THEN "Finished" ELSE s.state
           a     == [s EXCEPT !.current_question_index = index]
           b     == [a EXCEPT !.players = f]
<1>1. index \in Nat /\ IsMap(f, Player) /\ state \in SessionState
  BY FlagsClearedType DEF IsSession, SessionState
<1>2. IsSession(a)
  BY <1>1, IndexType
<1>3. IsSession(b)
  <2> HIDE DEF a, f
  <2> QED BY <1>1, <1>2, PlayersType
<1>4. IsSession([b EXCEPT !.state = state])
  <2> HIDE DEF b, state
  <2> QED BY <1>1, <1>3, StateType
<1> QED
  BY ONLY <1>4, Zenon DEF AdvanceToNextQuestion

(* Writing through FindPlayer's pointer keeps a session well-formed.       *)
LEMMA WithPlayerType ==
  ASSUME NEW s, IsSession(s), NEW id \in DOMAIN s.players, NEW player \in Player
  PROVE  IsSession(WithPlayer(s, id, player))
<1> DEFINE f == [s.players EXCEPT ![id] = player]
<1>1. IsMap(f, Player)
  BY DEF IsSession, IsMap
<1> QED
  BY <1>1, PlayersType DEF WithPlayer

(* RecordAnswer does, whatever the points.                                 *)
LEMMA RecordAnswerType ==
  ASSUME NEW s, IsSession(s), NEW id \in DOMAIN s.players, NEW points \in Int
  PROVE  IsSession(RecordAnswer(s, id, points))
<1>1. s.players[id] \in Player
  BY DEF IsSession, IsMap
<1>2. s.players[id].score + points \in Int
  BY <1>1 DEF Player
<1>3. [s.players[id] EXCEPT !.answered_current_question = TRUE,
                            !.score = s.players[id].score + points] \in Player
  BY <1>1, <1>2 DEF Player
<1> QED
  BY <1>3, WithPlayerType DEF RecordAnswer

(* Removing players keeps a session well-formed.                           *)
LEMMA RemovePlayersType ==
  ASSUME NEW s, IsSession(s), NEW ids
  PROVE  IsSession(RemovePlayers(s, ids))
<1>1. IsMap([p \in DOMAIN s.players \ ids |-> s.players[p]], Player)
  BY DEF IsSession, IsMap
<1> QED
  BY <1>1 DEF IsSession, RemovePlayers

(* DisconnectPlayer does, at any instant.                                  *)
LEMMA DisconnectType ==
  ASSUME NEW s, IsSession(s), NEW id \in DOMAIN s.players, NEW at \in Nat
  PROVE  IsSession(DisconnectPlayer(s, id, at))
<1>1. s.players[id] \in Player
  BY DEF IsSession, IsMap
<1>2. [s.players[id] EXCEPT !.connected = FALSE, !.disconnected_at = at] \in Player
  BY <1>1 DEF Player
<1> QED
  BY <1>2, WithPlayerType DEF DisconnectPlayer

(* So does ReconnectPlayer.                                                *)
LEMMA ReconnectType ==
  ASSUME NEW s, IsSession(s), NEW id \in DOMAIN s.players
  PROVE  IsSession(ReconnectPlayer(s, id))
<1>1. s.players[id] \in Player
  BY DEF IsSession, IsMap
<1>2. [s.players[id] EXCEPT !.connected = TRUE, !.disconnected_at = Never] \in Player
  BY <1>1 DEF Player
<1> QED
  BY <1>2, WithPlayerType DEF ReconnectPlayer

(* A deadline that is an instant keeps a session well-formed.              *)
LEMMA WithDeadlineType ==
  ASSUME NEW s, IsSession(s), NEW deadline \in Nat
  PROVE  IsSession(WithDeadline(s, deadline))
BY DEF IsSession, WithDeadline

(* A leaderboard gives players whole numbers.                              *)
LEMMA BoardType ==
  ASSUME NEW s, IsSession(s)
  PROVE  IsMap(Board(s), Int)
BY DEF IsSession, IsMap, Board, Player

-----------------------------------------------------------------------------
(* An answer earns a number of points that need not be positive: the bonus *)
(* of one reported long before the start is narrowed.                      *)
LEMMA PointsType ==
  ASSUME NEW question \in Question, NEW answer \in Answer
  PROVE  CalculatePoints(question, answer) \in Int
<1> DEFINE limit     == question.time_limit_ms
           remaining == limit - answer.time_since_question_start_ms
<1>1. limit \in Int /\ remaining \in Int
  BY DEF Question, Answer
<1>2. CASE limit > 0 /\ remaining > 0
  <2> DEFINE bonus == (SpeedBonusMax * remaining) \div limit
  <2>1. bonus \in Int
    BY <1>1, <1>2 DEF SpeedBonusMax
  <2>2. PICK modulus : modulus = 2 * IntLimit
    OBVIOUS
  <2>3. modulus \in Nat \ {0} /\ IntLimit \in Int
    BY <2>2, ScoringAssumption DEF BasePoints, SpeedBonusMax
  <2> HIDE DEF bonus
  <2>4. (bonus + IntLimit) % modulus \in Int
    BY <2>1, <2>3
  <2>5. Narrow(bonus) \in Int
    BY <2>2, <2>3, <2>4 DEF Narrow
  <2>6. SpeedBonus(remaining, limit) \in Int
    BY <2>5 DEF SpeedBonus, bonus
  <2> QED
    BY <2>6 DEF CalculatePoints, BasePoints
<1>3. CASE ~(limit > 0 /\ remaining > 0)
  <2>1. limit <= 0 \/ remaining <= 0
    BY <1>1, <1>3
  <2> QED
    BY <2>1 DEF CalculatePoints, BasePoints
<1> QED
  BY <1>2, <1>3

-----------------------------------------------------------------------------
(* The inductive invariant.  Types alone are not inductive: a deadline is  *)
(* an instant only because the question it is for exists and its time      *)
(* limit, which Validate checked when the quiz was stored, is positive.    *)
QuizzesValid == \A code \in DOMAIN quizzes : Validate(quizzes[code])

IInv == TypeOK /\ QuizzesValid /\ QuestionInRange

(* Every stored quiz has a question and every question a positive limit.   *)
LEMMA StoredQuestions ==
  ASSUME IInv, NEW code \in DOMAIN quizzes
  PROVE  LET questions == quizzes[code].questions
         IN  /\ Len(questions) \in Nat \ {0}
             /\ \A i \in 1..Len(questions) : /\ questions[i] \in Question
                                             /\ questions[i].time_limit_ms \in Nat
<1> DEFINE questions == quizzes[code].questions
<1>1. quizzes[code] \in QuizType /\ Validate(quizzes[code])
  BY ElementOfSeq, LenProperties DEF IInv, TypeOK, QuizzesTyped, QuizzesValid
<1>2. questions \in Seq(Question) /\ questions # <<>>
      /\ \A i \in DOMAIN questions : ValidateQuestion(questions[i])
  BY <1>1 DEF QuizType, Validate
<1>3. Len(questions) \in Nat /\ DOMAIN questions = 1..Len(questions)
      /\ \A i \in 1..Len(questions) : questions[i] \in Question
  <2> HIDE DEF questions
  <2> QED BY <1>2, LenProperties, ElementOfSeq
<1>4. Len(questions) # 0
  <2> HIDE DEF questions
  <2> QED BY <1>2, EmptySeq
<1>5. \A i \in 1..Len(questions) : questions[i].time_limit_ms \in Nat
  <2>1. \A q : ValidateQuestion(q) => q.time_limit_ms > 0
    BY DEF ValidateQuestion
  <2>2. \A q \in Question : q.time_limit_ms \in Int
    BY DEF Question
  <2> HIDE DEF questions
  <2> QED BY <1>2, <1>3, <2>1, <2>2
<1> QED
  BY <1>3, <1>4, <1>5

(* An event stays one when the sessions it may name only grow in number.   *)
LEMMA EventLasts ==
  ASSUME NEW e, IsEvent(e), Sids \subseteq Sids'
  PROVE  IsEvent(e)'
BY DEF IsEvent

(* A thread that forms an event, or sends it, keeps "pending" well-formed. *)
LEMMA EmitTyped ==
  ASSUME PendingTyped, NEW t \in Threads, NEW e, IsEvent(e)', Sids \subseteq Sids', Emit(t, e)
  PROVE  PendingTyped'
<1>1. \A u \in Threads : IsEvent(pending[u])'
  BY EventLasts DEF PendingTyped, Emit
<1>2. pending' \in [Threads -> {pending'[u] : u \in Threads}]
  BY DEF PendingTyped, Emit
<1> QED
  BY <1>1, <1>2 DEF PendingTyped

(* Threads that form nothing keep what they have.                          *)
LEMMA PendingKept ==
  ASSUME PendingTyped, Sids \subseteq Sids', UNCHANGED pending
  PROVE  PendingTyped'
BY EventLasts DEF PendingTyped

(* An operation that replaces one session by one that is well-formed and   *)
(* whose index fits its state keeps the invariants on sessions.            *)
LEMMA SessionUpdated ==
  ASSUME IInv, NEW s \in Sids, NEW x, IsSession(x), IndexFitsState(x),
         UNCHANGED quizzes, Update(s, x)
  PROVE  /\ SessionsTyped' /\ QuestionInRange' /\ Sids' = Sids
         /\ sessions'[s] = x
         /\ \A r \in Sids : r # s => sessions'[r] = sessions[r]
<1>1. IsSeq(sessions') /\ Sids' = Sids /\ sessions'[s] = x
      /\ \A r \in Sids : r # s => sessions'[r] = sessions[r]
  BY SeqExcept DEF IInv, TypeOK, SessionsTyped, Update, Sids
<1>2. \A r \in Sids : IsSession(sessions'[r])
  BY <1>1 DEF IInv, TypeOK, SessionsTyped
<1>3. SessionsTyped'
  BY <1>1, <1>2 DEF SessionsTyped, IsSession
<1>4. QuestionInRange'
  BY <1>1 DEF IInv, QuestionInRange, IndexFitsState, HasQuiz
<1> QED
  BY <1>1, <1>3, <1>4

(* What such an operation need not look at.                                *)
LEMMA RestKept ==
  ASSUME IInv, Sids' = Sids, UNCHANGED <<quizzes, now, view>>
  PROVE  /\ QuizzesTyped' /\ QuizzesValid' /\ now' \in Nat /\ ViewTyped'
         /\ UNCHANGED cleanup => CleanupTyped'
         /\ UNCHANGED ledger => (ledger \in [Sids -> SUBSET Entry])'
BY DEF IInv, TypeOK, QuizzesTyped, QuizzesValid, ViewTyped, CleanupTyped, IsView

-----------------------------------------------------------------------------
(* Every action keeps the inductive invariant.                             *)

(* CreateQuiz stores only what passes Validate, after all that is stored.  *)
LEMMA StoreQuizStep ==
  ASSUME IInv, NEW quiz \in QuizDrafts, StoreQuiz(quiz)
  PROVE  IInv'
<1>1. quizzes \in Seq(QuizType) /\ quiz \in QuizType
  BY QuizAssumption DEF IInv, TypeOK, QuizzesTyped
<1>2. quizzes' = Append(quizzes, quiz) /\ Validate(quiz)
  BY DEF StoreQuiz, CreateQuiz
<1>3. QuizzesTyped'
  BY <1>1, <1>2, AppendProperties DEF QuizzesTyped
<1>4. /\ DOMAIN quizzes' = DOMAIN quizzes \cup {Len(quizzes) + 1}
      /\ \A code \in DOMAIN quizzes : quizzes'[code] = quizzes[code]
      /\ quizzes'[Len(quizzes) + 1] = quiz
  BY <1>1, <1>2, SeqIsSeq, SeqAppend
<1>5. QuizzesValid'
  BY <1>2, <1>4 DEF IInv, QuizzesValid
<1>6. UNCHANGED <<sessions, now, pending, cleanup, ledger, view>>
  BY DEF StoreQuiz
<1>7. QuestionInRange'
  BY <1>4, <1>6 DEF IInv, QuestionInRange, IndexFitsState, HasQuiz, Sids
<1>8. TypeOK'
  <2>1. PendingTyped'
    BY <1>6, PendingKept DEF IInv, TypeOK, Sids
  <2>2. SessionsTyped'
    BY <1>6 DEF IInv, TypeOK, SessionsTyped, IsSession, Sids
  <2> QED
    BY <1>3, <1>6, <2>1, <2>2 DEF IInv, TypeOK, CleanupTyped, ViewTyped, IsView, Sids
<1> QED
  BY <1>5, <1>7, <1>8 DEF IInv

(* A new session, its event, its empty ledger and its view come together.  *)
LEMMA CreateSessionStep ==
  ASSUME IInv, NEW t \in Threads, NEW code \in DOMAIN quizzes, NEW host \in PlayerIds,
         NEW pin \in Pins, NEW delay \in Delays, CreateSession(t, code, host, pin, delay)
  PROVE  IInv'
<1> DEFINE new == NewSession(code, pin, host, delay)
           n   == Len(sessions)
<1>1. IsSeq(sessions) /\ n \in Nat /\ Sids = 1..n
  BY SeqDomain DEF IInv, TypeOK, SessionsTyped, Sids
<1>2. /\ sessions' = Append(sessions, new)
      /\ ledger' = Append(ledger, {}) /\ view' = Append(view, Unseen)
      /\ Emit(t, PlayerJoined(n + 1, host))
      /\ UNCHANGED <<quizzes, now, cleanup>>
  BY DEF CreateSession
<1>3. code \in Nat /\ IsSession(new)
  BY NewSessionType, LenProperties DEF IInv, TypeOK, QuizzesTyped
<1>4. /\ IsSeq(sessions') /\ Sids' = Sids \cup {n + 1} /\ sessions'[n + 1] = new
      /\ \A s \in Sids : sessions'[s] = sessions[s]
  <2> HIDE DEF new
  <2> QED BY <1>1, <1>2, SeqAppend DEF Sids
<1>5. \A s \in Sids' : IsSession(sessions'[s])
  <2> HIDE DEF new
  <2> QED BY <1>3, <1>4 DEF IInv, TypeOK, SessionsTyped
<1>6. SessionsTyped'
  BY <1>4, <1>5 DEF SessionsTyped, IsSession
<1>7. QuestionInRange'
  <2>1. IndexFitsState(new)'
    BY <1>2 DEF IndexFitsState, HasQuiz, NewSession
  <2> HIDE DEF new
  <2> QED BY <1>2, <1>4, <2>1 DEF IInv, QuestionInRange, IndexFitsState, HasQuiz
<1>8. PendingTyped'
  <2>1. PICK e : e = PlayerJoined(n + 1, host)
    OBVIOUS
  <2>2. IsEvent(e)'
    BY <1>4, <2>1 DEF IsEvent, PlayerJoined
  <2> QED
    BY <1>2, <1>4, <2>1, <2>2, EmitTyped DEF IInv, TypeOK
<1>9. (ledger \in [Sids -> SUBSET Entry])'
  <2>1. ledger \in [1..n -> SUBSET Entry]
    BY <1>1 DEF IInv, TypeOK
  <2>2. ledger \in Seq(SUBSET Entry)
    BY <1>1, <2>1, SeqDef
  <2>3. Len(ledger) = n
    BY <1>1, <2>1, <2>2, LenProperties
  <2>4. ledger' \in Seq(SUBSET Entry) /\ Len(ledger') = n + 1
    BY <1>2, <2>2, <2>3, AppendProperties
  <2> QED
    BY <1>1, <1>4, <2>4, LenProperties
<1>10. ViewTyped'
  <2>1. IsSeq(view) /\ DOMAIN view = 1..n
    BY <1>1 DEF IInv, TypeOK, ViewTyped
  <2>2. Len(view) = n
    BY <1>1, <2>1, SeqDomain
  <2>3. /\ IsSeq(view') /\ DOMAIN view' = Sids' /\ view'[n + 1] = Unseen
        /\ \A s \in Sids : view'[s] = view[s]
    BY <1>1, <1>2, <1>4, <2>1, <2>2, SeqAppend
  <2>4. IsView(Unseen)
    <3>1. IsMap(NoBoard, Int)
      BY DEF IsMap, NoBoard
    <3>2. IsSeq(<<>>)
      BY EmptyIsSeq
    <3> QED
      BY <3>1, <3>2 DEF IsView, Unseen
  <2>5. \A s \in Sids' : IsView(view'[s])
    BY <1>4, <2>3, <2>4 DEF IInv, TypeOK, ViewTyped
  <2> QED
    BY <2>3, <2>5 DEF ViewTyped, IsView
<1>11. CleanupTyped'
  BY <1>2, <1>4 DEF IInv, TypeOK, CleanupTyped
<1> QED
  BY <1>2, <1>6, <1>7, <1>8, <1>9, <1>10, <1>11
  DEF IInv, TypeOK, QuizzesTyped, QuizzesValid

(* A thread that replaces a session by a good one and forms a good event,  *)
(* the ledger as it was, keeps the invariant.                              *)
LEMMA OrdinaryStep ==
  ASSUME IInv, NEW t \in Threads, NEW s \in Sids, NEW x, NEW e,
         IsSession(x), IndexFitsState(x), IsEvent(e), Update(s, x), Emit(t, e),
         UNCHANGED <<quizzes, now, cleanup, ledger, view>>
  PROVE  IInv'
<1>1. SessionsTyped' /\ QuestionInRange' /\ Sids' = Sids
  BY SessionUpdated
<1>2. PendingTyped'
  BY <1>1, EventLasts, EmitTyped DEF IInv, TypeOK
<1>3. /\ QuizzesTyped' /\ QuizzesValid' /\ now' \in Nat /\ ViewTyped' /\ CleanupTyped'
      /\ (ledger \in [Sids -> SUBSET Entry])'
  BY <1>1, RestKept
<1> QED
  BY <1>1, <1>2, <1>3 DEF IInv, TypeOK

(* The same for an operation that forms no event.                          *)
LEMMA SilentStep ==
  ASSUME IInv, NEW s \in Sids, NEW x, IsSession(x), IndexFitsState(x), Update(s, x),
         UNCHANGED <<quizzes, now, pending, ledger, view>>, CleanupTyped'
  PROVE  IInv'
<1>1. SessionsTyped' /\ QuestionInRange' /\ Sids' = Sids
  BY SessionUpdated
<1>2. PendingTyped'
  BY <1>1, PendingKept DEF IInv, TypeOK
<1>3. /\ QuizzesTyped' /\ QuizzesValid' /\ now' \in Nat /\ ViewTyped'
      /\ (ledger \in [Sids -> SUBSET Entry])'
  BY <1>1, RestKept
<1> QED
  BY <1>1, <1>2, <1>3 DEF IInv, TypeOK

(* Changing the players leaves the index and the state as they fit.        *)
LEMMA FitsWhatever ==
  ASSUME NEW s, IndexFitsState(s), NEW x,
         x.quiz_code = s.quiz_code, x.state = s.state,
         x.current_question_index = s.current_question_index
  PROVE  IndexFitsState(x)
BY DEF IndexFitsState

(* JoinAsPlayer.                                                           *)
LEMMA JoinStep ==
  ASSUME IInv, NEW t \in Threads, NEW s \in Sids, NEW pin \in Pins, NEW id \in PlayerIds,
         JoinAsPlayer(t, s, pin, id)
  PROVE  IInv'
<1>1. IsSession(sessions[s]) /\ IndexFitsState(sessions[s])
  BY DEF IInv, TypeOK, SessionsTyped, QuestionInRange
<1>2. IsSession(AddPlayer(sessions[s], id)) /\ IndexFitsState(AddPlayer(sessions[s], id))
  BY <1>1, AddPlayerType DEF AddPlayer, IndexFitsState, IsSession
<1>3. IsEvent(PlayerJoined(s, id))
  BY DEF IsEvent, PlayerJoined
<1>4. /\ Update(s, AddPlayer(sessions[s], id)) /\ Emit(t, PlayerJoined(s, id))
      /\ UNCHANGED <<quizzes, now, cleanup, ledger, view>>
  BY DEF JoinAsPlayer
<1> QED
  BY <1>2, <1>3, <1>4, OrdinaryStep

(* LeaveSession.                                                           *)
LEMMA LeaveStep ==
  ASSUME IInv, NEW t \in Threads, NEW s \in Sids, NEW id \in PlayerIds, Leave(t, s, id)
  PROVE  IInv'
<1> DEFINE left == RemovePlayers(sessions[s], {id})
<1>1. IsSession(sessions[s]) /\ IndexFitsState(sessions[s])
  BY DEF IInv, TypeOK, SessionsTyped, QuestionInRange
<1>2. IsSession(left) /\ IndexFitsState(left)
  BY <1>1, RemovePlayersType DEF RemovePlayers, IndexFitsState, IsSession
<1>3. IsEvent(PlayerLeft(s, id))
  BY DEF IsEvent, PlayerLeft
<1>4. /\ Update(s, left) /\ Emit(t, PlayerLeft(s, id))
      /\ UNCHANGED <<quizzes, now, cleanup, ledger, view>>
  BY DEF Leave
<1> HIDE DEF left
<1> QED
  BY <1>2, <1>3, <1>4, OrdinaryStep

(* StartGame: the first question exists, and it ends at an instant.        *)
LEMMA StartGameStep ==
  ASSUME IInv, NEW t \in Threads, NEW s \in Sids, StartGame(t, s)
  PROVE  IInv'
<1> DEFINE started  == StartedGame(sessions[s])
           deadline == now + QuestionsOf(s)[started.current_question_index + 1].time_limit_ms
           x        == WithDeadline(started, deadline)
<1>1. IsSession(sessions[s]) /\ IndexFitsState(sessions[s])
  BY DEF IInv, TypeOK, SessionsTyped, QuestionInRange
<1>2. /\ IsSession(started)
      /\ started.current_question_index = 0 /\ started.state = "Running"
      /\ started.quiz_code = sessions[s].quiz_code
  BY <1>1, StartedGameType DEF StartedGame, IsSession
<1>3. 0 < Len(QuestionsOf(s)) /\ deadline \in Nat
  BY <1>1, <1>2, StoredQuestions DEF QuestionsOf, IndexFitsState, HasQuiz, IInv, TypeOK
<1>4. IsSession(x) /\ IndexFitsState(x)
  <2>1. IsSession(x)
    <3> HIDE DEF started, deadline
    <3> QED BY <1>2, <1>3, WithDeadlineType
  <2>2. /\ x.state = started.state /\ x.quiz_code = started.quiz_code
        /\ x.current_question_index = started.current_question_index
    <3> HIDE DEF started, deadline
    <3> QED BY <1>2 DEF WithDeadline, IsSession
  <2> HIDE DEF x, started
  <2> QED BY <1>1, <1>2, <1>3, <2>1, <2>2 DEF IndexFitsState, QuestionsOf
<1>5. IsEvent(QuestionStarted(s, started.current_question_index))
  <2> HIDE DEF started
  <2> QED BY <1>2 DEF IsEvent, QuestionStarted
<1>6. /\ Update(s, x) /\ Emit(t, QuestionStarted(s, started.current_question_index))
      /\ UNCHANGED <<quizzes, now, cleanup, ledger, view>>
  BY DEF StartGame
<1> HIDE DEF x, started
<1> QED
  BY <1>4, <1>5, <1>6, OrdinaryStep

(* NextQuestion: the last question is followed by the end, any other by a  *)
(* question that exists.                                                   *)
LEMMA NextQuestionStep ==
  ASSUME IInv, NEW t \in Threads, NEW s \in Sids, NextQuestion(t, s)
  PROVE  IInv'
<1> DEFINE total    == Len(QuestionsOf(s))
           next     == AdvanceToNextQuestion(sessions[s], total)
           index    == next.current_question_index
           deadline == now + QuestionsOf(s)[index + 1].time_limit_ms
           x        == WithDeadline(next, deadline)
<1>1. IsSession(sessions[s]) /\ IndexFitsState(sessions[s])
  BY DEF IInv, TypeOK, SessionsTyped, QuestionInRange
<1>2. total \in Nat /\ HasQuiz(sessions[s].quiz_code) /\ sessions[s].state = "Running"
      /\ sessions[s].current_question_index < total
  BY <1>1, StoredQuestions DEF QuestionsOf, IndexFitsState, HasQuiz, NextQuestion, CanAdvance
<1>3. /\ IsSession(next)
      /\ index = sessions[s].current_question_index + 1
      /\ next.quiz_code = sessions[s].quiz_code
      /\ next.state = IF index >= total THEN "Finished" ELSE "Running"
  <2>1. IsSession(next)
    <3> HIDE DEF total
    <3> QED BY <1>1, <1>2, AdvanceType
  <2> QED
    BY <1>1, <1>2, <2>1 DEF AdvanceToNextQuestion, IsSession
<1>4. index \in Nat /\ index <= total
  BY <1>1, <1>2, <1>3 DEF IsSession
<1>5. IndexFitsState(next)
  <2> HIDE DEF next
  <2> QED BY <1>2, <1>3, <1>4 DEF IndexFitsState, HasQuiz, QuestionsOf
<1>6. UNCHANGED <<quizzes, now, cleanup, ledger, view>>
  BY DEF NextQuestion
<1>7. CASE next.state = "Finished"
  <2>1. Update(s, next) /\ Emit(t, GameFinished(s, Board(next)))
    BY <1>7 DEF NextQuestion
  <2>2. IsEvent(GameFinished(s, Board(next)))
    <3> HIDE DEF next
    <3> QED BY <1>3, BoardType DEF IsEvent, GameFinished
  <2> HIDE DEF next
  <2> QED
    BY <1>3, <1>5, <1>6, <2>1, <2>2, OrdinaryStep
<1>8. CASE next.state # "Finished"
  <2>1. Update(s, x) /\ Emit(t, QuestionStarted(s, index))
    BY <1>8 DEF NextQuestion
  <2>2. deadline \in Nat
    <3>1. index + 1 \in 1..total
      BY <1>3, <1>4, <1>8
    <3> HIDE DEF index
    <3> QED BY <1>2, <3>1, StoredQuestions DEF QuestionsOf, HasQuiz, IInv, TypeOK
  <2>3. IsSession(x) /\ IndexFitsState(x)
    <3>1. IsSession(x)
      <4> HIDE DEF next, deadline
      <4> QED BY <1>3, <2>2, WithDeadlineType
    <3>2. /\ x.state = next.state /\ x.quiz_code = next.quiz_code
          /\ x.current_question_index = next.current_question_index
      <4> HIDE DEF next, deadline
      <4> QED BY <1>3 DEF WithDeadline, IsSession
    <3> HIDE DEF x, next
    <3> QED BY <1>5, <3>1, <3>2, FitsWhatever
  <2>4. IsEvent(QuestionStarted(s, index))
    <3> HIDE DEF index
    <3> QED BY <1>4 DEF IsEvent, QuestionStarted
  <2> HIDE DEF x, index
  <2> QED
    BY <1>6, <2>1, <2>3, <2>4, OrdinaryStep
<1> QED
  BY <1>7, <1>8

(* SubmitAnswer: the points are a number, and the entry they leave in the  *)
(* ledger names the player and the question.                               *)
LEMMA SubmitAnswerStep ==
  ASSUME IInv, NEW t \in Threads, NEW s \in Sids, NEW id \in PlayerIds,
         NEW answer \in Answers, SubmitAnswer(t, s, id, answer)
  PROVE  IInv'
<1> DEFINE points == CalculatePoints(CurrentQuestion(s), answer)
           x      == RecordAnswer(sessions[s], id, points)
           entry  == [player |-> id, question |-> sessions[s].current_question_index,
                      points |-> points]
<1>1. IsSession(sessions[s]) /\ IndexFitsState(sessions[s])
  BY DEF IInv, TypeOK, SessionsTyped, QuestionInRange
<1>2. /\ Update(s, x) /\ Emit(t, Leaderboard(s, Board(x)))
      /\ ledger' = [ledger EXCEPT ![s] = @ \cup {entry}]
      /\ UNCHANGED <<quizzes, now, cleanup, view>>
      /\ id \in DOMAIN sessions[s].players
      /\ sessions[s].current_question_index < Len(QuestionsOf(s))
      /\ HasQuiz(sessions[s].quiz_code)
  BY DEF SubmitAnswer, CanSubmitAnswer, HasPlayer
<1>3. points \in Int
  <2>1. sessions[s].current_question_index \in Nat
    BY <1>1 DEF IsSession
  <2>2. Len(QuestionsOf(s)) \in Nat
    BY <1>2, StoredQuestions DEF HasQuiz, QuestionsOf
  <2>3. sessions[s].current_question_index + 1 \in 1..Len(QuestionsOf(s))
    BY <1>2, <2>1, <2>2
  <2>4. CurrentQuestion(s) \in Question
    BY <1>2, <2>3, StoredQuestions DEF HasQuiz, QuestionsOf, CurrentQuestion
  <2>5. answer \in Answer
    BY ManagerAssumption
  <2> QED
    BY <2>4, <2>5, PointsType
<1>4. /\ IsSession(x) /\ x.state = sessions[s].state /\ x.quiz_code = sessions[s].quiz_code
      /\ x.current_question_index = sessions[s].current_question_index
  <2> HIDE DEF points
  <2>1. IsSession(x)
    BY <1>1, <1>2, <1>3, RecordAnswerType
  <2> QED
    BY <1>1, <2>1 DEF RecordAnswer, WithPlayer, IsSession
<1> HIDE DEF x
<1>5. IndexFitsState(x)
  BY <1>1, <1>4, FitsWhatever
<1>6. IsEvent(Leaderboard(s, Board(x)))
  BY <1>4, BoardType DEF IsEvent, Leaderboard
<1>7. SessionsTyped' /\ QuestionInRange' /\ Sids' = Sids
  BY <1>2, <1>4, <1>5, SessionUpdated
<1>8. PendingTyped'
  BY <1>2, <1>6, <1>7, EventLasts, EmitTyped DEF IInv, TypeOK
<1>9. entry \in Entry
  <2> HIDE DEF points
  <2> QED BY <1>1, <1>3 DEF Entry, IsSession
<1>10. (ledger \in [Sids -> SUBSET Entry])'
  <2> HIDE DEF entry
  <2> QED BY <1>2, <1>7, <1>9 DEF IInv, TypeOK
<1>11. QuizzesTyped' /\ QuizzesValid' /\ now' \in Nat /\ ViewTyped' /\ CleanupTyped'
  BY <1>2, <1>7, RestKept
<1> QED
  BY <1>7, <1>8, <1>10, <1>11 DEF IInv, TypeOK

(* Disconnect and Reconnect touch one player of one session.               *)
LEMMA PresenceStep ==
  ASSUME IInv, NEW s \in Sids, NEW id, Disconnect(s, id) \/ Reconnect(s, id)
  PROVE  IInv'
<1> DEFINE gone == DisconnectPlayer(sessions[s], id, now)
           back == ReconnectPlayer(sessions[s], id)
<1>1. IsSession(sessions[s]) /\ IndexFitsState(sessions[s]) /\ now \in Nat
      /\ id \in DOMAIN sessions[s].players
  BY DEF IInv, TypeOK, SessionsTyped, QuestionInRange, Disconnect, Reconnect, HasPlayer
<1>2. IsSession(gone) /\ IsSession(back)
  BY <1>1, DisconnectType, ReconnectType
<1>3. /\ gone.state = sessions[s].state /\ gone.quiz_code = sessions[s].quiz_code
      /\ gone.current_question_index = sessions[s].current_question_index
      /\ back.state = sessions[s].state /\ back.quiz_code = sessions[s].quiz_code
      /\ back.current_question_index = sessions[s].current_question_index
  BY <1>1 DEF DisconnectPlayer, ReconnectPlayer, WithPlayer, IsSession
<1>4. Update(s, gone) \/ Update(s, back)
  BY DEF Disconnect, Reconnect
<1>5. UNCHANGED <<quizzes, now, pending, cleanup, ledger, view>>
  BY DEF Disconnect, Reconnect
<1> HIDE DEF gone, back
<1>6. IndexFitsState(gone) /\ IndexFitsState(back)
  BY <1>1, <1>3, FitsWhatever
<1>7. CleanupTyped'
  BY <1>4, <1>5 DEF IInv, TypeOK, CleanupTyped, Update, Sids
<1> QED
  BY <1>2, <1>4, <1>5, <1>6, <1>7, SilentStep

(* What a client has seen stays well-formed with an event more.            *)
LEMMA SeenType ==
  ASSUME NEW v, IsView(v), NEW e, IsEvent(e), e # Quiet
  PROVE  IsView(Seen(v, e))
<1>1. CASE e.kind = "QuestionStarted"
  BY <1>1 DEF IsView, IsEvent, Seen
<1>2. CASE e.kind = "Leaderboard"
  BY <1>2 DEF IsView, IsEvent, Seen
<1>3. CASE e.kind = "GameFinished"
  <2> DEFINE finals == Append(v.finals, e.board)
  <2>1. IsMap(e.board, Int) /\ IsSeq(v.finals)
    BY <1>3 DEF IsView, IsEvent
  <2>2. IsSeq(finals) /\ \A i \in DOMAIN finals : IsMap(finals[i], Int)
    <3>1. /\ IsSeq(finals)
          /\ DOMAIN finals = DOMAIN v.finals \cup {Len(v.finals) + 1}
          /\ \A i \in DOMAIN v.finals : finals[i] = v.finals[i]
          /\ finals[Len(v.finals) + 1] = e.board
      BY <2>1, SeqAppend
    <3> HIDE DEF finals
    <3> QED BY <2>1, <3>1 DEF IsView
  <2>3. Seen(v, e) = [v EXCEPT !.board = e.board, !.finals = finals]
    BY <1>3 DEF Seen
  <2> DEFINE told == [question |-> v.question, board |-> e.board, finals |-> finals,
                     left |-> v.left]
  <2>4. Seen(v, e) = told
    <3> HIDE DEF finals
    <3> QED BY <2>3 DEF IsView
  <2>5. IsView(told)
    <3> HIDE DEF finals
    <3> QED BY <2>1, <2>2 DEF IsView
  <2> QED
    BY ONLY <2>4, <2>5
<1>4. CASE e.kind \in {"PlayerJoined", "PlayerLeft"}
  <2>1. e.player \in PlayerIds
    BY <1>4 DEF IsEvent
  <2>2. v.left \ {e.player} \in SUBSET PlayerIds /\ v.left \cup {e.player} \in SUBSET PlayerIds
    BY <2>1 DEF IsView
  <2>3. \/ Seen(v, e) = [v EXCEPT !.left = v.left \ {e.player}]
        \/ Seen(v, e) = [v EXCEPT !.left = v.left \cup {e.player}]
    BY <1>4 DEF Seen
  <2>4. PICK left \in SUBSET PlayerIds : Seen(v, e) = [v EXCEPT !.left = left]
    BY <2>2, <2>3
  <2> QED
    BY <2>4 DEF IsView
<1>5. e.kind \in {"QuestionStarted", "Leaderboard", "GameFinished", "PlayerJoined", "PlayerLeft"}
  BY DEF IsEvent, Quiet
<1> QED
  BY <1>1, <1>2, <1>3, <1>4, <1>5

(* An event changes what the clients of one session have been told.        *)
LEMMA TellTyped ==
  ASSUME ViewTyped, NEW e, IsEvent(e), e # Quiet, Tell(e), UNCHANGED sessions
  PROVE  ViewTyped'
<1> DEFINE s == e.session
           x == Seen(view[s], e)
<1>1. s \in Sids
  BY DEF IsEvent, Quiet
<1>2. IsSeq(view) /\ s \in DOMAIN view /\ IsView(view[s]) /\ DOMAIN view = Sids
  BY <1>1 DEF ViewTyped
<1>3. IsView(x)
  BY <1>2, SeenType
<1>4. view' = [view EXCEPT ![s] = x]
  BY DEF Tell
<1> HIDE DEF s, x
<1>5. /\ IsSeq(view') /\ DOMAIN view' = Sids /\ view'[s] = x
      /\ \A r \in Sids : r # s => view'[r] = view[r]
  BY <1>2, <1>4, SeqExcept
<1>6. \A r \in Sids : IsView(view'[r])
  BY <1>3, <1>5 DEF ViewTyped
<1> QED
  BY <1>5, <1>6 DEF ViewTyped, IsView, Sids

(* A broadcast is such an event, and leaves nothing pending.               *)
LEMMA BroadcastStep ==
  ASSUME IInv, NEW t \in Threads, Broadcast(t)
  PROVE  IInv'
<1> DEFINE e == pending[t]
<1>1. IsEvent(e) /\ e # Quiet
  BY DEF IInv, TypeOK, PendingTyped, Broadcast, Free
<1>2. Tell(e) /\ Emit(t, Quiet) /\ UNCHANGED <<quizzes, sessions, now, cleanup, ledger>>
  BY DEF Broadcast
<1>3. ViewTyped
  BY DEF IInv, TypeOK
<1>4. UNCHANGED sessions
  BY <1>2
<1> HIDE DEF e
<1>6. ViewTyped'
  BY <1>1, <1>2, <1>3, <1>4, TellTyped
<1>7. PendingTyped'
  <2>1. IsEvent(Quiet)
    BY DEF IsEvent, Quiet
  <2>2. Sids \subseteq Sids'
    BY <1>2 DEF Sids
  <2> QED
    BY <1>2, <2>1, <2>2, EventLasts, EmitTyped DEF IInv, TypeOK
<1>8. SessionsTyped' /\ CleanupTyped' /\ (ledger \in [Sids -> SUBSET Entry])'
  BY <1>2 DEF IInv, TypeOK, SessionsTyped, IsSession, CleanupTyped, Sids
<1>9. QuizzesTyped' /\ QuizzesValid' /\ QuestionInRange' /\ now' \in Nat
  BY <1>2 DEF IInv, TypeOK, QuizzesTyped, QuizzesValid, QuestionInRange, IndexFitsState,
              HasQuiz, Sids
<1> QED
  BY <1>6, <1>7, <1>8, <1>9 DEF IInv, TypeOK

(* The steps of a cleanup remove players and announce them.                *)
LEMMA CleanupKeeps ==
  ASSUME IInv, CleanupBegin \/ CleanupStep
  PROVE  IInv'
<1>0. CleanupTyped /\ ViewTyped /\ now \in Nat
  BY DEF IInv, TypeOK
<1>1. ASSUME UNCHANGED <<quizzes, sessions, now, pending, ledger>>, ViewTyped', CleanupTyped'
      PROVE  IInv'
  BY <1>1, PendingKept DEF IInv, TypeOK, SessionsTyped, IsSession, QuizzesTyped, QuizzesValid,
                           QuestionInRange, IndexFitsState, HasQuiz, Sids
<1>2. CASE CleanupBegin \/ CleanupList \/ CleanupEnd
  <2>1. UNCHANGED <<quizzes, sessions, now, pending, ledger, view>>
    BY <1>2 DEF CleanupBegin, CleanupList, CleanupEnd
  <2>2. CleanupTyped'
    <3>1. now' = now /\ Sids' = Sids
      BY <2>1 DEF Sids
    <3>2. CASE CleanupBegin
      <4>1. cleanup' = [stage |-> "dated", now |-> now, todo |-> {}, left |-> {}]
        BY <3>2 DEF CleanupBegin, NotCleaning
      <4> QED
        BY <1>0, <3>1, <4>1 DEF CleanupTyped
    <3>3. CASE CleanupList
      <4>1. PICK todo \in SUBSET Sids : todo = Sids
        OBVIOUS
      <4>2. cleanup' = [cleanup EXCEPT !.stage = "listed", !.todo = todo]
        BY <3>3, <4>1 DEF CleanupList
      <4> QED
        BY <1>0, <3>1, <4>2 DEF CleanupTyped
    <3>4. CASE CleanupEnd
      BY <1>0, <3>1, <3>4 DEF CleanupEnd, NotCleaning, CleanupTyped
    <3> QED
      BY <1>2, <3>2, <3>3, <3>4
  <2>3. ViewTyped'
    BY <1>0, <2>1 DEF ViewTyped, IsView, Sids
  <2> QED
    BY <1>1, <2>1, <2>2, <2>3
<1>3. ASSUME NEW s \in Sids, CleanupSession(s)
      PROVE  IInv'
  <2> DEFINE gone == LongGone(sessions[s], cleanup.now, ReconnectTimeout)
             x    == RemovePlayers(sessions[s], gone)
  <2>1. IsSession(sessions[s]) /\ IndexFitsState(sessions[s])
    BY DEF IInv, TypeOK, SessionsTyped, QuestionInRange
  <2>2. IsSession(x)
    <3> HIDE DEF gone
    <3> QED BY <2>1, RemovePlayersType
  <2>3. IndexFitsState(x)
    <3> HIDE DEF gone
    <3> QED BY <2>1, FitsWhatever DEF RemovePlayers, IsSession
  <2>4. gone \subseteq PlayerIds
    BY <2>1 DEF LongGone, IsSession, IsMap
  <2>5. Update(s, x) /\ UNCHANGED <<quizzes, now, pending, ledger, view>>
        /\ cleanup' = [cleanup EXCEPT !.todo = cleanup.todo \ {s}, !.left = {s} \X gone]
    BY <1>3 DEF CleanupSession
  <2>6. CleanupTyped'
    <3> HIDE DEF gone, x
    <3>1. Sids' = Sids
      BY <2>5 DEF Update, Sids
    <3>2. {s} \X gone \in SUBSET (Sids \X PlayerIds)
      BY <2>4
    <3>3. PICK left \in SUBSET (Sids \X PlayerIds) : left = {s} \X gone
      BY <3>2
    <3>4. cleanup' = [cleanup EXCEPT !.todo = cleanup.todo \ {s}, !.left = left]
      BY <2>5, <3>3
    <3> QED
      <4>1. PICK todo \in SUBSET Sids : todo = cleanup.todo \ {s}
        BY <1>0 DEF CleanupTyped
      <4>2. cleanup' = [cleanup EXCEPT !.todo = todo, !.left = left]
        BY <3>4, <4>1
      <4>3. now' = now
        BY <2>5
      <4> QED
        BY <1>0, <3>1, <4>2, <4>3 DEF CleanupTyped
  <2> HIDE DEF x
  <2> QED
    BY <2>2, <2>3, <2>5, <2>6, SilentStep
<1>4. ASSUME NEW s \in Sids, NEW id \in PlayerIds, CleanupAnnounce(s, id)
      PROVE  IInv'
  <2>1. PICK left : left = cleanup.left \ {<<s, id>>}
    OBVIOUS
  <2>2. /\ cleanup' = [cleanup EXCEPT !.left = left]
        /\ Tell(PlayerLeft(s, id)) /\ UNCHANGED <<quizzes, sessions, now, pending, ledger>>
    BY <1>4, <2>1 DEF CleanupAnnounce
  <2>3. left \in SUBSET (Sids \X PlayerIds)
    BY <1>0, <2>1 DEF CleanupTyped
  <2>4. CleanupTyped'
    BY <1>0, <2>2, <2>3 DEF CleanupTyped, Sids
  <2>5. PICK e : e = PlayerLeft(s, id)
    OBVIOUS
  <2>6. IsEvent(e) /\ e # Quiet
    BY <2>5 DEF IsEvent, PlayerLeft, Quiet
  <2>7. Tell(e) /\ UNCHANGED sessions
    BY <2>2, <2>5
  <2>8. ViewTyped'
    BY <1>0, <2>6, <2>7, TellTyped
  <2> QED
    BY <1>1, <2>2, <2>4, <2>8
<1> QED
  BY <1>2, <1>3, <1>4 DEF CleanupStep

(* The clock only moves forward, past what a cleanup has read.             *)
LEMMA TimeStep ==
  ASSUME IInv, NEW instants, TimePasses(instants)
  PROVE  IInv'
<1>1. UNCHANGED <<quizzes, sessions, pending, cleanup, ledger, view>> /\ now' = now + 1
  BY DEF TimePasses
<1>2. now' \in Nat /\ CleanupTyped'
  BY <1>1 DEF IInv, TypeOK, CleanupTyped, Sids
<1> QED
  BY <1>1, <1>2, PendingKept
  DEF IInv, TypeOK, SessionsTyped, IsSession, QuizzesTyped, QuizzesValid, QuestionInRange,
      IndexFitsState, HasQuiz, ViewTyped, IsView, Sids

-----------------------------------------------------------------------------
(* At the start there is nothing that could be wrong.                      *)
LEMMA InitIInv == ManagerInit => IInv
<1> SUFFICES ASSUME ManagerInit
             PROVE  IInv
  OBVIOUS
<1> USE DEF ManagerInit, RegistryInit
<1>1. quizzes \in Seq(QuizType) /\ DOMAIN quizzes = {}
  BY EmptySeq, EmptyIsSeq
<1>2. IsSeq(sessions) /\ Sids = {}
  BY EmptyIsSeq DEF Sids
<1>3. IsSeq(view) /\ DOMAIN view = {} /\ DOMAIN ledger = {}
  BY EmptyIsSeq
<1>4. PendingTyped
  BY DEF PendingTyped, IsEvent, Quiet
<1>5. CleanupTyped
  BY <1>2 DEF CleanupTyped, NotCleaning
<1>6. ledger \in [Sids -> SUBSET Entry]
  BY <1>2, <1>3
<1> QED
  BY <1>1, <1>2, <1>3, <1>4, <1>5, <1>6
  DEF IInv, TypeOK, QuizzesTyped, QuizzesValid, SessionsTyped, ViewTyped, QuestionInRange

(* No step of any thread breaks the invariant.                             *)
LEMMA NextIInv == IInv /\ [ManagerNext]_managerVars => IInv'
<1> SUFFICES ASSUME IInv, [ManagerNext]_managerVars
             PROVE  IInv'
  OBVIOUS
<1>1. ASSUME NEW quiz \in QuizDrafts, StoreQuiz(quiz) PROVE IInv'
  BY <1>1, StoreQuizStep
<1>2. ASSUME NEW t \in Threads, NEW code \in DOMAIN quizzes, NEW host \in PlayerIds,
             NEW pin \in Pins, NEW delay \in Delays, CreateSession(t, code, host, pin, delay)
      PROVE  IInv'
  BY <1>2, CreateSessionStep
<1>3. ASSUME NEW t \in Threads, NEW s \in Sids, NEW pin \in Pins, NEW id \in PlayerIds,
             JoinAsPlayer(t, s, pin, id)
      PROVE  IInv'
  BY <1>3, JoinStep
<1>4. ASSUME NEW t \in Threads, NEW s \in Sids, NEW id \in PlayerIds, Leave(t, s, id)
      PROVE  IInv'
  BY <1>4, LeaveStep
<1>5. ASSUME NEW t \in Threads, NEW s \in Sids, StartGame(t, s) PROVE IInv'
  BY <1>5, StartGameStep
<1>6. ASSUME NEW t \in Threads, NEW s \in Sids, NextQuestion(t, s) PROVE IInv'
  BY <1>6, NextQuestionStep
<1>7. ASSUME NEW t \in Threads, NEW s \in Sids, NEW id \in PlayerIds, NEW answer \in Answers,
             SubmitAnswer(t, s, id, answer)
      PROVE  IInv'
  BY <1>7, SubmitAnswerStep
<1>8. ASSUME NEW t \in Threads, Broadcast(t) PROVE IInv'
  BY <1>8, BroadcastStep
<1>9. ASSUME NEW s \in Sids, NEW id \in Droppers, Disconnect(s, id) \/ Reconnect(s, id)
      PROVE  IInv'
  BY <1>9, PresenceStep
<1>10. CASE CleanupBegin \/ CleanupStep
  BY <1>10, CleanupKeeps
<1>11. CASE TimePasses(SessionInstants)
  BY <1>11, TimeStep
<1>12. CASE UNCHANGED managerVars
  <2>1. UNCHANGED <<quizzes, sessions, now, pending, cleanup, ledger, view>>
    BY <1>12 DEF managerVars
  <2> QED
    BY <2>1, PendingKept
    DEF IInv, TypeOK, SessionsTyped, IsSession, QuizzesTyped, QuizzesValid, QuestionInRange,
        IndexFitsState, HasQuiz, ViewTyped, IsView, CleanupTyped, Sids
<1> QED
  BY <1>1, <1>2, <1>3, <1>4, <1>5, <1>6, <1>7, <1>8, <1>9, <1>10, <1>11, <1>12 DEF ManagerNext

(* The invariant holds in every state the manager reaches.                 *)
LEMMA AlwaysIInv == ManagerSpec => []IInv
BY InitIInv, NextIInv, PTL DEF ManagerSpec

(* Every variable keeps its type: in particular a deadline is always an    *)
(* instant, whatever the quizzes clients submitted.                        *)
THEOREM TypeCorrect == ManagerSpec => []TypeOK
<1>1. IInv => TypeOK
  BY DEF IInv
<1> QED
  BY <1>1, AlwaysIInv, PTL

(* The question index of a session is always good for its state, for any   *)
(* number of threads that race to advance it: questions.at() never throws. *)
THEOREM QuestionsExist == ManagerSpec => []QuestionInRange
<1>1. IInv => QuestionInRange
  BY DEF IInv
<1> QED
  BY <1>1, AlwaysIInv, PTL
=============================================================================
