----------------------------- MODULE DemoProofs -----------------------------
(***************************************************************************)
(* What Demo promises for any number of workers, games and players.        *)
(*                                                                         *)
(* The workers use SessionManager like any other caller: a behaviour of    *)
(* the demo is one of SessionManager, so whatever is proved of it holds    *)
(* here.  To see that, each command must be known to be one its handler    *)
(* can run, from the moment a client pushes it to the moment a worker has  *)
(* done with it: DInv follows it through the queue and the pool.           *)
(***************************************************************************)
EXTENDS Demo, SessionManagerSafety

-----------------------------------------------------------------------------
(* The inductive invariant.                                                *)

RealCommand ==
  [kind : {"create", "join", "start", "next"}, game : Games]
    \cup [kind : {"answer"}, game : Games, player : PlayerIds]

(* Commands on a session name a game whose promise was kept.               *)
Runnable == {cmd \in RealCommand : cmd.kind = "create" \/ promised[cmd.game] \in Sids}

WorkerStage ==
  {"loop", "pop", "popped", "run", "promise", "admit", "advance", "fetch", "arm", "ended"}

Work ==
  [stage : WorkerStage, cmd : Runnable \cup {Dummy}, session : {0} \cup Sids,
   number : {0} \cup DOMAIN DemoIds, deadline : Nat]

(* A worker has a command wherever it runs one, and the dummy only once    *)
(* the queue was stopped.                                                  *)
WorksWell(w, stopped) ==
  /\ w.stage \in {"run", "promise", "admit", "advance", "fetch", "arm"} => w.cmd # Dummy
  /\ w.stage \in {"admit", "advance", "fetch", "arm"} => w.cmd.kind # "create"
  /\ w.stage = "promise" => w.session # 0
  /\ w.stage = "admit" => w.number # 0
  /\ w.stage = "popped" /\ w.cmd = Dummy => stopped
  /\ w.stage = "ended" => stopped

ClientStage == {"create", "wait", "join", "look", "answer", "done"}

ClientState ==
  [stage : ClientStage, seated : SUBSET PlayerIds, left : SUBSET (PlayerIds \cup Nat), questions : Nat]

(* A client knows its session from the moment it has the future's value.   *)
PlaysWell(g) ==
  /\ client[g].stage \in {"join", "look", "answer", "done"} => promised[g] \in Sids
  /\ client[g].stage = "answer" => client[g].left \subseteq PlayerIds /\ client[g].questions # 0

QueueInv ==
  /\ queue \in Seq(Runnable) /\ stop \in BOOLEAN /\ asleep \subseteq Threads
  /\ stop => asleep = {}
  /\ ~stop /\ queue # <<>> => \E t \in Threads : t \notin asleep

PoolInv ==
  /\ worker \in [Threads -> Work]
  /\ \A t \in Threads : WorksWell(worker[t], stop)

ClientInv ==
  /\ client \in [Games -> ClientState]
  /\ \A g \in Games : PlaysWell(g)

RunInv ==
  /\ promised \in [Games -> {0} \cup Sids]
  /\ next_demo_player_id \in 0..Len(DemoIds)
  /\ timer \in [stage : {"loop", "sleep", "tick", "ended"}, at : 0..now]
  /\ main = "setup" => Len(quizzes) \in 0..2

DInv == QueueInv /\ PoolInv /\ ClientInv /\ RunInv

-----------------------------------------------------------------------------
(* What the invariant says of the properties.                              *)

(* The types, and the targets of the commands.                             *)
LEMMA DInvTypes == IInv /\ DInv => DemoTypeOK
<1> SUFFICES ASSUME IInv, DInv
             PROVE  DemoTypeOK
  OBVIOUS
<1>1. ASSUME NEW t \in Threads
      PROVE  /\ worker[t].stage \in WorkerStage /\ worker[t].session \in {0} \cup Sids
             /\ worker[t].stage = "admit" => worker[t].number \in DOMAIN DemoIds
             /\ worker[t].stage \in {"run", "admit", "advance", "fetch", "arm"}
                  => worker[t].cmd.kind = "create" \/ Target(t) \in Sids
  <2>1. worker[t] \in Work /\ WorksWell(worker[t], stop)
    BY DEF DInv, PoolInv
  <2> QED BY <2>1 DEF Work, WorksWell, Runnable, Target
<1>2. ASSUME NEW g \in Games PROVE client[g].questions \in Nat /\ client[g].seated \subseteq PlayerIds
  <2>1. client[g] \in ClientState
    BY DEF DInv, ClientInv
  <2> QED BY <2>1 DEF ClientState
<1>3. timer.at \in 0..now
  BY DEF DInv, RunInv
<1> QED
  BY <1>1, <1>2, <1>3 DEF DemoTypeOK, DInv, QueueInv, RunInv, WorkerStage

(* Somebody is awake to take what waits.                                   *)
LEMMA DInvAwake == DInv => NoLostWakeup
<1> SUFFICES ASSUME DInv
             PROVE  NoLostWakeup
  OBVIOUS
<1>1. CASE stop
  BY <1>1 DEF DInv, QueueInv, NoLostWakeup
<1>2. CASE ~stop
  BY <1>2 DEF DInv, QueueInv, PoolInv, WorksWell, NoLostWakeup
<1> QED
  BY <1>1, <1>2

(* No worker runs the dummy.                                               *)
LEMMA DInvDummy == DInv => DummyNeverRuns
BY DEF DInv, PoolInv, WorksWell, DummyNeverRuns

-----------------------------------------------------------------------------
(* Every step of the demo is a step of SessionManager, or changes none of  *)
(* its variables.                                                          *)

(* A command that is run, and the session it is about.                     *)
LEMMA CommandFacts ==
  ASSUME DInv, NEW t \in Threads,
         worker[t].stage \in {"run", "promise", "admit", "advance", "fetch", "arm"}
  PROVE  /\ worker[t].cmd \in Runnable /\ worker[t].cmd.game \in Games
         /\ worker[t].cmd.kind # "create" => Target(t) \in Sids
         /\ worker[t].cmd.kind = "answer" => worker[t].cmd.player \in PlayerIds
<1>1. worker[t] \in Work /\ WorksWell(worker[t], stop)
  BY DEF DInv, PoolInv
<1>2. worker[t].cmd \in Runnable
  BY <1>1 DEF Work, WorksWell
<1>3. worker[t].cmd.game \in Games
      /\ (worker[t].cmd.kind = "answer" => worker[t].cmd.player \in PlayerIds)
  BY <1>2 DEF Runnable, RealCommand
<1> QED
  BY <1>2, <1>3 DEF Runnable, Target

(* A step of the demo is a call of the manager that any caller may make,   *)
(* or none of the manager's business.                                      *)
LEMMA CallsManager ==
  ASSUME IInv, DInv, [DemoNext]_demoVars
  PROVE  [ManagerNext]_managerVars
<1>1. ASSUME NEW t \in Threads, RunCreateSession(t) PROVE ManagerNext
  <2> DEFINE g == worker[t].cmd.game
  <2>1. g \in Games
    BY <1>1, CommandFacts DEF RunCreateSession, Runs, At
  <2>2. HostOf[g] \in PlayerIds /\ 0 \in Delays
    BY <2>1, DemoAssumption
  <2>3. PICK pin \in Pins : CreateSession(t, (g % 3) + 1, HostOf[g], pin, 0)
    BY <1>1 DEF RunCreateSession
  <2>4. (g % 3) + 1 \in DOMAIN quizzes
    BY <2>3 DEF CreateSession, HasQuiz
  <2> HIDE DEF g
  <2> QED BY <2>2, <2>3, <2>4 DEF ManagerNext
<1>2. ASSUME NEW t \in Threads, RunJoinPlayer(t) PROVE [ManagerNext]_managerVars
  <2> DEFINE s == Target(t)
             id == DemoIds[worker[t].number]
  <2>1. s \in Sids
    <3>1. worker[t].stage = "admit" /\ WorksWell(worker[t], stop)
      BY <1>2 DEF RunJoinPlayer, At, DInv, PoolInv
    <3>2. worker[t].cmd.kind # "create"
      BY <3>1 DEF WorksWell
    <3> QED BY <3>1, <3>2, CommandFacts
  <2>2. id \in PlayerIds
    <3>1. worker[t].stage = "admit"
      BY <1>2 DEF RunJoinPlayer, At
    <3>2. worker[t].number \in DOMAIN DemoIds
      BY <3>1 DEF DInv, PoolInv, Work, WorksWell
    <3> QED BY <3>2, DemoAssumption, ElementOfSeq
  <2>3. sessions[s].pin \in Pins
    BY <2>1 DEF IInv, TypeOK, SessionsTyped, IsSession
  <2>4. JoinAsPlayer(t, s, sessions[s].pin, id) \/ UNCHANGED managerVars
    BY <1>2 DEF RunJoinPlayer
  <2> DEFINE pin == sessions[s].pin
  <2>5. pin \in Pins /\ (JoinAsPlayer(t, s, pin, id) \/ UNCHANGED managerVars)
    BY <2>3, <2>4
  <2> HIDE DEF s, id, pin
  <2> QED BY <2>1, <2>2, <2>5 DEF ManagerNext
<1>3. ASSUME NEW t \in Threads, RunStartGame(t) PROVE ManagerNext
  <2> DEFINE s == Target(t)
  <2>1. s \in Sids /\ StartGame(t, s)
    BY <1>3, CommandFacts DEF RunStartGame, Runs, At
  <2> HIDE DEF s
  <2> QED BY <2>1 DEF ManagerNext
<1>4. ASSUME NEW t \in Threads, RunSubmitAnswer(t) PROVE [ManagerNext]_managerVars
  <2> DEFINE s == Target(t)
             id == worker[t].cmd.player
  <2>1. s \in Sids /\ id \in PlayerIds
    BY <1>4, CommandFacts DEF RunSubmitAnswer, Runs, At
  <2>2. (\E answer \in Answers : SubmitAnswer(t, s, id, answer)) \/ UNCHANGED managerVars
    BY <1>4 DEF RunSubmitAnswer
  <2> HIDE DEF s, id
  <2> QED BY <2>1, <2>2 DEF ManagerNext
<1>5. ASSUME NEW t \in Threads, AdvanceGame(t) PROVE [ManagerNext]_managerVars
  <2> DEFINE s == Target(t)
  <2>1. worker[t].stage = "advance"
    BY <1>5 DEF AdvanceGame, At
  <2>2. worker[t].cmd.kind # "create"
    BY <2>1 DEF DInv, PoolInv, WorksWell
  <2>3. s \in Sids
    BY <2>1, <2>2, CommandFacts
  <2>4. NextQuestion(t, s) \/ UNCHANGED managerVars
    BY <1>5 DEF AdvanceGame
  <2> HIDE DEF s
  <2> QED BY <2>3, <2>4 DEF ManagerNext
<1>6. ASSUME NEW t \in Threads, SendEvent(t) PROVE ManagerNext
  BY <1>6 DEF SendEvent, ManagerNext
<1>7. ASSUME CreateQuizzes PROVE ManagerNext
  <2>1. Len(quizzes) + 1 \in 1..3
    <3>1. main = "setup"
      BY <1>7, Zenon DEF CreateQuizzes
    <3>2. Len(quizzes) \in 0..2
      BY <3>1 DEF DInv, RunInv
    <3>3. \A n \in 0..2 : n + 1 \in 1..3
      OBVIOUS
    <3> QED BY <3>2, <3>3, Zenon
  <2>2. DemoQuizzes[Len(quizzes) + 1] \in QuizDrafts
    BY <2>1, DemoAssumption
  <2>3. StoreQuiz(DemoQuizzes[Len(quizzes) + 1])
    BY <1>7 DEF CreateQuizzes
  <2> QED BY <2>2, <2>3 DEF ManagerNext
<1>8. ASSUME ClockRuns PROVE ManagerNext
  BY <1>8 DEF ClockRuns, ManagerNext
<1>9. ASSUME NEW t \in Threads,
             TestStop(t) \/ PopCommand(t) \/ TestStopAgain(t) \/ KeepPromise(t)
               \/ TakePlayerNumber(t)
               \/ RunNextQuestion(t) \/ FetchDeadline(t) \/ ArmTimer(t)
      PROVE  UNCHANGED managerVars
  BY <1>9 DEF TestStop, PopCommand, TestStopAgain, KeepPromise, TakePlayerNumber,
              RunNextQuestion, FetchDeadline, ArmTimer
<1>10. ASSUME NEW g \in Games, ClientStep(g) PROVE UNCHANGED managerVars
  BY <1>10 DEF ClientStep, PushCreate, GetSession, PushJoin, PushStart, LookAtSession, PushAnswer,
               PushNext, Pushes, Looks
<1>11. ASSUME TimerStep \/ StopQueue \/ JoinWorkers \/ JoinTimer \/ UNCHANGED demoVars
       PROVE  UNCHANGED managerVars
  BY <1>11 DEF TimerStep, Ticking, StopQueue, JoinWorkers, JoinTimer, demoVars
<1>12. ASSUME NEW t \in Threads, WorkerStep(t) PROVE ManagerNext \/ UNCHANGED managerVars
  BY <1>1, <1>2, <1>3, <1>4, <1>5, <1>6, <1>9, <1>12 DEF WorkerStep, RunCommand
<1>13. ASSUME RunStep PROVE ManagerNext \/ UNCHANGED managerVars
  BY <1>7, <1>11, <1>13 DEF RunStep
<1> QED
  BY <1>8, <1>10, <1>11, <1>12, <1>13 DEF DemoNext

-----------------------------------------------------------------------------
(* Every step keeps the invariant.                                         *)

(* No step loses a session, turns the clock back, or forgets a quiz.       *)
LEMMA ManagerGrows ==
  ASSUME IInv, DInv, [DemoNext]_demoVars
  PROVE  Sids \subseteq Sids' /\ IInv' /\ now <= now'
<1>1. [ManagerNext]_managerVars
  BY CallsManager
<1>2. Sids \subseteq Sids'
  BY <1>1, StepMovesOn
<1>3. IInv'
  BY <1>1, NextIInv
<1>4. now' = now \/ now' = now + 1
  <2>1. ASSUME NEW quiz, StoreQuiz(quiz) PROVE now' = now
    BY <2>1 DEF StoreQuiz
  <2>2. ASSUME NEW t, NEW code, NEW host, NEW pin, NEW delay, CreateSession(t, code, host, pin, delay)
        PROVE  now' = now
    BY <2>2 DEF CreateSession
  <2>3. ASSUME NEW t, NEW s, NEW pin, NEW id, JoinAsPlayer(t, s, pin, id) PROVE now' = now
    BY <2>3 DEF JoinAsPlayer
  <2>4. ASSUME NEW t, NEW s, NEW id, NEW answer,
               \/ Leave(t, s, id) \/ StartGame(t, s) \/ NextQuestion(t, s)
               \/ SubmitAnswer(t, s, id, answer)
        PROVE  now' = now
    BY <2>4 DEF Leave, StartGame, NextQuestion, SubmitAnswer
  <2>5. ASSUME NEW s, NEW id, Disconnect(s, id) \/ Reconnect(s, id) PROVE now' = now
    BY <2>5 DEF Disconnect, Reconnect
  <2>6. ASSUME \/ \E t \in Threads : Broadcast(t)
               \/ CleanupBegin \/ CleanupStep \/ UNCHANGED managerVars
        PROVE  now' = now
    BY <2>6 DEF Broadcast, CleanupBegin, CleanupStep, CleanupList, CleanupSession, CleanupAnnounce,
                CleanupEnd, managerVars
  <2>7. ASSUME TimePasses(SessionInstants) PROVE now' = now + 1
    BY <2>7 DEF TimePasses
  <2> QED
    BY <1>1, <2>1, <2>2, <2>3, <2>4, <2>5, <2>6, <2>7, Zenon DEF ManagerNext
<1>5. now \in Nat
  BY DEF IInv, TypeOK
<1> QED
  BY <1>2, <1>3, <1>4, <1>5

(* A command stays runnable while promises are only kept.                  *)
LEMMA StaysRunnable ==
  ASSUME Sids \subseteq Sids', \A g \in Games : promised[g] \in Sids => promised'[g] \in Sids'
  PROVE  Runnable \subseteq Runnable' /\ Work \subseteq Work'
<1>1. Runnable \subseteq Runnable'
  BY DEF Runnable, RealCommand
<1>2. Work \subseteq Work'
  BY <1>1 DEF Work
<1> QED
  BY <1>1, <1>2

(* What nobody touched is still as it should be.                           *)
LEMMA QueueKept ==
  ASSUME QueueInv, UNCHANGED queueVars, Runnable \subseteq Runnable'
  PROVE  QueueInv'
<1>1. queue \in Seq(Runnable')
  BY SeqMonotonic DEF QueueInv
<1> QED
  BY <1>1 DEF QueueInv, queueVars

(* No worker has moved.                                                    *)
LEMMA PoolKept ==
  ASSUME PoolInv, UNCHANGED worker, Work \subseteq Work', stop => stop'
  PROVE  PoolInv'
<1>1. worker' \in [Threads -> Work']
  BY DEF PoolInv
<1>2. \A t \in Threads : WorksWell(worker'[t], stop')
  BY DEF PoolInv, WorksWell
<1> QED
  BY <1>1, <1>2 DEF PoolInv

(* One worker has moved to where it may be.                                *)
LEMMA WorkerMoves ==
  ASSUME PoolInv, NEW t \in Threads, NEW w, Becomes(t, w), Work \subseteq Work', UNCHANGED stop,
         w \in Work', WorksWell(w, stop)
  PROVE  PoolInv'
<1>1. worker'[t] = w /\ \A u \in Threads : u # t => worker'[u] = worker[u]
  BY DEF PoolInv, Becomes
<1>2. worker' \in [Threads -> Work']
  BY DEF PoolInv, Becomes
<1>3. \A u \in Threads : WorksWell(worker'[u], stop')
  BY <1>1 DEF PoolInv
<1> QED
  BY <1>2, <1>3 DEF PoolInv

(* No client has moved.                                                    *)
LEMMA ClientKept ==
  ASSUME ClientInv, UNCHANGED client,
         \A g \in Games : promised[g] \in Sids => promised'[g] \in Sids'
  PROVE  ClientInv'
BY DEF ClientInv, PlaysWell

(* Run, the timer thread and the promises are as they were.                *)
LEMMA RunKept ==
  ASSUME RunInv, UNCHANGED <<promised, next_demo_player_id, timer, main>>, Sids \subseteq Sids',
         now <= now', now \in Nat, now' \in Nat, main = "setup" => UNCHANGED quizzes
  PROVE  RunInv'
<1>1. timer.at \in 0..now'
  BY DEF RunInv
<1>2. timer' \in [stage : {"loop", "sleep", "tick", "ended"}, at : 0..now']
  BY <1>1 DEF RunInv
<1>3. promised' \in [Games -> {0} \cup Sids']
  BY DEF RunInv
<1>4. next_demo_player_id' \in 0..Len(DemoIds) /\ (main' = "setup" => Len(quizzes') \in 0..2)
  BY DEF RunInv
<1> QED
  BY <1>2, <1>3, <1>4 DEF RunInv
-----------------------------------------------------------------------------
(* The workers.                                                            *)

(* What a step of any kind leaves as it should be.                         *)
Grows == Sids \subseteq Sids' /\ now <= now' /\ now \in Nat /\ now' \in Nat

(* A worker moves on and nothing but its own place changes.                *)
LEMMA OneWorker ==
  ASSUME DInv, Grows, NEW t \in Threads, NEW w, Becomes(t, w), UNCHANGED <<queueVars, poolVars>>,
         main # "setup", w \in Work', WorksWell(w, stop)
  PROVE  DInv'
<1>1. Runnable \subseteq Runnable' /\ Work \subseteq Work'
  BY StaysRunnable DEF Grows, poolVars
<1>2. QueueInv /\ UNCHANGED queueVars
  BY DEF DInv
<1>3. QueueInv'
  BY <1>1, <1>2, QueueKept
<1>4. PoolInv /\ UNCHANGED stop
  BY DEF DInv, queueVars
<1>5. PoolInv'
  BY <1>1, <1>4, WorkerMoves
<1>6. ClientInv /\ UNCHANGED <<client, promised>> /\ Sids \subseteq Sids'
  BY DEF DInv, poolVars, Grows
<1>7. ClientInv'
  BY <1>6, ClientKept
<1>8. RunInv'
  BY RunKept DEF DInv, poolVars, Grows
<1> QED
  BY <1>3, <1>5, <1>7, <1>8 DEF DInv

(* A worker turns to its next stage with the command it has.               *)
LEMMA NextStage ==
  ASSUME DInv, Grows, NEW t \in Threads, NEW stage \in WorkerStage, Goes(t, stage),
         UNCHANGED <<queueVars, poolVars>>, main # "setup", stage \notin {"promise", "popped", "admit"},
         stage \in {"run", "admit", "advance", "fetch", "arm"} => worker[t].cmd # Dummy,
         stage \in {"admit", "advance", "fetch", "arm"} => worker[t].cmd.kind # "create",
         stage = "ended" => stop
  PROVE  DInv'
<1>1. worker[t] \in Work /\ Work \subseteq Work'
  BY StaysRunnable DEF DInv, PoolInv, Grows, poolVars
<1>2. PICK w : w = [worker[t] EXCEPT !.stage = stage]
  OBVIOUS
<1>3. w \in Work /\ w.stage = stage /\ w.cmd = worker[t].cmd
  BY <1>1, <1>2 DEF Work
<1>4. WorksWell(w, stop)
  BY <1>3 DEF WorksWell
<1>5. Becomes(t, w) /\ w \in Work'
  BY <1>1, <1>2, <1>3 DEF Goes
<1> QED
  BY <1>4, <1>5, OneWorker

(* A step in which the demo's own threads stand still.                     *)
LEMMA OthersKeep ==
  ASSUME DInv, Grows, UNCHANGED <<queueVars, worker, poolVars>>,
         main = "setup" => UNCHANGED quizzes
  PROVE  DInv'
<1>1. Runnable \subseteq Runnable' /\ Work \subseteq Work'
  BY StaysRunnable DEF Grows, poolVars
<1>2. QueueInv'
  BY <1>1, QueueKept DEF DInv
<1>3. PoolInv'
  BY <1>1, PoolKept DEF DInv, queueVars
<1>4. ClientInv'
  BY ClientKept DEF DInv, poolVars, Grows
<1>5. RunInv'
  BY RunKept DEF DInv, poolVars, Grows
<1> QED
  BY <1>2, <1>3, <1>4, <1>5 DEF DInv

(* A worker that is done with its command.                                 *)
LEMMA BackToLoop ==
  ASSUME DInv, Grows, NEW t \in Threads, Becomes(t, Looping), UNCHANGED <<queueVars, poolVars>>,
         main # "setup"
  PROVE  DInv'
<1>1. PICK w : w = Looping
  OBVIOUS
<1>2. w \in Work' /\ WorksWell(w, stop)
  BY <1>1 DEF Work, Looping, WorkerStage, WorksWell
<1> QED
  BY <1>1, <1>2, OneWorker
(* Every step of a worker.                                                 *)
LEMMA WorkerKeeps ==
  ASSUME IInv, IInv', DInv, Grows, NEW t \in Threads, WorkerStep(t)
  PROVE  DInv'
<1>1. worker[t] \in Work /\ WorksWell(worker[t], stop)
  BY DEF DInv, PoolInv
<1>2. CASE TestStop(t)
  <2> DEFINE stage == IF stop THEN "ended" ELSE "pop"
  <2>1. stage \in WorkerStage \ {"promise", "popped", "run", "admit", "advance", "fetch", "arm"}
        /\ (stage = "ended" => stop)
    BY DEF WorkerStage
  <2>2. Goes(t, stage) /\ UNCHANGED <<queueVars, poolVars>> /\ main # "setup"
    BY <1>2 DEF TestStop, At
  <2> HIDE DEF stage
  <2> QED BY <2>1, <2>2, NextStage
<1>3. CASE TestStopAgain(t)
  <2>1. UNCHANGED <<queueVars, poolVars>> /\ main # "setup" /\ worker[t].stage = "popped"
    BY <1>3 DEF TestStopAgain, At
  <2>2. CASE stop
    <3>1. Goes(t, "ended")
      BY <1>3, <2>2 DEF TestStopAgain
    <3> QED BY <2>1, <2>2, <3>1, NextStage DEF WorkerStage
  <2>3. CASE ~stop
    <3>1. Goes(t, "run") /\ worker[t].cmd # Dummy
      BY <1>1, <1>3, <2>1, <2>3 DEF TestStopAgain, WorksWell
    <3> QED BY <2>1, <3>1, NextStage DEF WorkerStage
  <2> QED BY <2>2, <2>3
<1>4. CASE RunCreateSession(t)
  <2>1. PICK w : w = [worker[t] EXCEPT !.stage = "promise", !.session = Len(sessions) + 1]
    OBVIOUS
  <2>2. /\ Becomes(t, w) /\ UNCHANGED <<queueVars, poolVars>> /\ main # "setup"
        /\ worker[t].stage = "run" /\ \E x : sessions' = Append(sessions, x)
    BY <1>4, <2>1 DEF RunCreateSession, Runs, At, CreateSession
  <2>3. Len(sessions) \in Nat /\ Len(sessions) + 1 \in Sids'
    BY <2>2, SeqAppend, SeqDomain DEF IInv, TypeOK, SessionsTyped, Sids
  <2>4. Work \subseteq Work' /\ worker[t].cmd # Dummy
    BY <1>1, <2>2, StaysRunnable DEF Grows, poolVars, WorksWell
  <2>5. w \in Work'
    BY <1>1, <2>1, <2>3, <2>4 DEF Work, WorkerStage
  <2>6. WorksWell(w, stop)
    <3>1. w.stage = "promise" /\ w.cmd = worker[t].cmd /\ w.session # 0
      BY <1>1, <2>1, <2>3 DEF Work
    <3> QED BY <2>4, <3>1 DEF WorksWell
  <2> QED BY <2>2, <2>5, <2>6, OneWorker
<1>5. CASE RunStartGame(t)
  <2>1. /\ Goes(t, "fetch") /\ UNCHANGED <<queueVars, poolVars>> /\ main # "setup"
        /\ worker[t].stage = "run" /\ worker[t].cmd.kind = "start"
    BY <1>5 DEF RunStartGame, Runs, At
  <2> QED BY <1>1, <2>1, NextStage DEF WorksWell, WorkerStage
<1>6. CASE RunNextQuestion(t)
  <2>1. /\ Goes(t, "advance") /\ UNCHANGED <<queueVars, poolVars>> /\ main # "setup"
        /\ worker[t].stage = "run" /\ worker[t].cmd.kind = "next"
    BY <1>6 DEF RunNextQuestion, Runs, At
  <2> QED BY <1>1, <2>1, NextStage DEF WorksWell, WorkerStage
<1>7. CASE AdvanceGame(t)
  <2>1. /\ Goes(t, "fetch") /\ UNCHANGED <<queueVars, poolVars>> /\ main # "setup"
        /\ worker[t].stage = "advance"
    BY <1>7 DEF AdvanceGame, At
  <2> QED BY <1>1, <2>1, NextStage DEF WorksWell, WorkerStage
<1>8. CASE RunJoinPlayer(t) \/ RunSubmitAnswer(t) \/ ArmTimer(t)
  <2>1. Becomes(t, Looping) /\ UNCHANGED <<queueVars, poolVars>> /\ main # "setup"
    BY <1>8 DEF RunJoinPlayer, RunSubmitAnswer, ArmTimer, Runs, At
  <2> QED BY <2>1, BackToLoop
<1>9. CASE FetchDeadline(t)
  <2>1. UNCHANGED <<queueVars, poolVars>> /\ main # "setup" /\ worker[t].stage = "fetch"
    BY <1>9 DEF FetchDeadline, At
  <2>2. CASE sessions[Target(t)].has_question_deadline
    <3>1. PICK w : w = [worker[t] EXCEPT !.stage = "arm",
                          !.deadline = sessions[Target(t)].question_deadline]
      OBVIOUS
    <3>2. Becomes(t, w)
      BY <1>9, <2>2, <3>1 DEF FetchDeadline
    <3>3. worker[t].cmd # Dummy /\ worker[t].cmd.kind # "create"
      BY <1>1, <2>1 DEF WorksWell
    <3>4. Target(t) \in Sids
      BY <2>1, <3>3, CommandFacts
    <3>5. sessions[Target(t)].question_deadline \in Nat
      BY <3>4 DEF IInv, TypeOK, SessionsTyped, IsSession
    <3>6. w \in Work /\ w.stage = "arm" /\ w.cmd = worker[t].cmd
      BY <1>1, <3>1, <3>5 DEF Work, WorkerStage
    <3>7. w \in Work'
      BY <2>1, <3>6, StaysRunnable DEF Grows, poolVars
    <3>8. WorksWell(w, stop)
      BY <3>3, <3>6 DEF WorksWell
    <3> QED BY <2>1, <3>2, <3>7, <3>8, OneWorker
  <2>3. CASE ~sessions[Target(t)].has_question_deadline
    <3>1. Becomes(t, Looping)
      BY <1>9, <2>3 DEF FetchDeadline
    <3> QED BY <2>1, <3>1, BackToLoop
  <2> QED BY <2>2, <2>3
<1>10. CASE TakePlayerNumber(t)
  <2>4. PICK w : w = [worker[t] EXCEPT !.stage = "admit", !.number = next_demo_player_id + 1]
    OBVIOUS
  <2>1. /\ Becomes(t, w) /\ UNCHANGED <<queueVars, client, promised, timer, main>>
        /\ main # "setup" /\ next_demo_player_id < Len(DemoIds)
        /\ next_demo_player_id' = next_demo_player_id + 1
        /\ worker[t].stage = "run" /\ worker[t].cmd.kind = "join"
    BY <1>10, <2>4 DEF TakePlayerNumber, Runs, At
  <2>2. Runnable \subseteq Runnable' /\ Work \subseteq Work'
    BY <2>1, StaysRunnable DEF Grows
  <2>3. QueueInv'
    BY <2>1, <2>2, QueueKept DEF DInv
  <2>5. w \in Work' /\ WorksWell(w, stop)
    <3>1. next_demo_player_id + 1 \in DOMAIN DemoIds /\ next_demo_player_id + 1 # 0
      <4>1. Len(DemoIds) \in Nat /\ DOMAIN DemoIds = 1..Len(DemoIds)
        BY DemoAssumption, LenProperties
      <4> QED BY <2>1, <4>1 DEF DInv, RunInv
    <3>2. w \in Work
      BY <1>1, <2>4, <3>1 DEF Work, WorkerStage
    <3>3. w.stage = "admit" /\ w.cmd = worker[t].cmd /\ w.number # 0
      BY <1>1, <2>4, <3>1 DEF Work
    <3>4. worker[t].cmd # Dummy
      BY <1>1, <2>1 DEF WorksWell
    <3>5. WorksWell(w, stop)
      BY <2>1, <3>3, <3>4 DEF WorksWell
    <3> QED BY <2>2, <3>2, <3>5
  <2>6. PoolInv'
    <3>1. PoolInv /\ UNCHANGED stop
      BY <2>1 DEF DInv, queueVars
    <3> QED BY <2>1, <2>2, <2>5, <3>1, WorkerMoves
  <2>7. ClientInv'
    BY <2>1, ClientKept DEF DInv, Grows
  <2>8. RunInv'
    <3>1. next_demo_player_id' \in 0..Len(DemoIds)
      <4>1. Len(DemoIds) \in Nat
        BY DemoAssumption, LenProperties
      <4> QED BY <2>1, <4>1 DEF DInv, RunInv
    <3>2. timer' \in [stage : {"loop", "sleep", "tick", "ended"}, at : 0..now']
      <4>1. timer \in [stage : {"loop", "sleep", "tick", "ended"}, at : 0..now]
        BY DEF DInv, RunInv
      <4>2. 0..now \subseteq 0..now'
        BY DEF Grows
      <4> QED BY <2>1, <4>1, <4>2
    <3>3. promised' \in [Games -> {0} \cup Sids']
      BY <2>1 DEF DInv, RunInv, Grows
    <3> QED BY <2>1, <3>1, <3>2, <3>3 DEF RunInv
  <2> QED BY <2>3, <2>6, <2>7, <2>8 DEF DInv
<1>11. CASE KeepPromise(t)
  <2> DEFINE g == worker[t].cmd.game
  <2>1. /\ promised' = [promised EXCEPT ![g] = worker[t].session] /\ Becomes(t, Looping)
        /\ UNCHANGED <<queueVars, client, next_demo_player_id, timer, main>>
        /\ main # "setup" /\ worker[t].stage = "promise"
    BY <1>11 DEF KeepPromise, At
  <2>2. g \in Games /\ worker[t].session \in Sids
    <3>1. worker[t].session \in {0} \cup Sids /\ worker[t].session # 0
      BY <1>1, <2>1 DEF Work, WorksWell
    <3> QED BY <2>1, <3>1, CommandFacts
  <2>3. promised \in [Games -> {0} \cup Sids]
    BY DEF DInv, RunInv
  <2>4. promised' \in [Games -> {0} \cup Sids']
    BY <2>1, <2>2, <2>3 DEF Grows
  <2>5. \A h \in Games : promised[h] \in Sids => promised'[h] \in Sids'
    BY <2>1, <2>2, <2>3 DEF Grows
  <2>6. Runnable \subseteq Runnable' /\ Work \subseteq Work'
    BY <2>5, StaysRunnable DEF Grows
  <2>7. QueueInv'
    BY <2>1, <2>6, QueueKept DEF DInv
  <2>8. PICK w : w = Looping
    OBVIOUS
  <2>9. w \in Work' /\ WorksWell(w, stop)
    BY <2>8 DEF Work, Looping, WorkerStage, WorksWell
  <2>10. PoolInv'
    BY <2>1, <2>6, <2>8, <2>9, WorkerMoves DEF DInv, queueVars
  <2>11. ClientInv'
    BY <2>1, <2>5, ClientKept DEF DInv
  <2>12. timer' \in [stage : {"loop", "sleep", "tick", "ended"}, at : 0..now']
    <3>1. timer \in [stage : {"loop", "sleep", "tick", "ended"}, at : 0..now]
      BY DEF DInv, RunInv
    <3>2. 0..now \subseteq 0..now'
      BY DEF Grows
    <3> QED BY <2>1, <3>1, <3>2
  <2>13. RunInv'
    BY <2>1, <2>4, <2>12 DEF DInv, RunInv
  <2> QED BY <2>7, <2>10, <2>11, <2>13 DEF DInv
<1>12. CASE PopCommand(t)
  <2>1. /\ UNCHANGED <<managerVars, poolVars>> /\ main # "setup" /\ worker[t].stage = "pop"
        /\ t \notin asleep
    BY <1>12 DEF PopCommand, At
  <2>2. Runnable' = Runnable /\ Work' = Work /\ Sids' = Sids
    BY <2>1 DEF Runnable, Work, Sids, managerVars, poolVars
  <2>3. ClientInv' /\ RunInv'
    <3>1. ClientInv'
      BY <2>1, <2>2, ClientKept DEF DInv, poolVars
    <3>2. RunInv'
      BY <2>1, <2>2, RunKept DEF DInv, poolVars, Grows
    <3> QED BY <3>1, <3>2
  <2>4. CASE Queue!Pop /\ Becomes(t, [worker[t] EXCEPT !.stage = "popped", !.cmd = Head(queue)])
    <3>1. queue \in Seq(Runnable) /\ queue # <<>>
      BY <2>4 DEF DInv, QueueInv, Queue!Pop
    <3>2. Head(queue) \in Runnable /\ Tail(queue) \in Seq(Runnable)
      BY <3>1, HeadTailProperties
    <3>3. QueueInv'
      BY <2>1, <2>2, <2>4, <3>2 DEF Queue!Pop, DInv, QueueInv
    <3>4. PICK w : w = [worker[t] EXCEPT !.stage = "popped", !.cmd = Head(queue)]
      OBVIOUS
    <3>5. w \in Work' /\ w.stage = "popped" /\ w.cmd = Head(queue)
      BY <1>1, <2>2, <3>2, <3>4 DEF Work, WorkerStage
    <3>6. Head(queue) # Dummy
      BY <3>2 DEF Runnable, RealCommand, Dummy
    <3>7. WorksWell(w, stop)
      BY <3>5, <3>6 DEF WorksWell
    <3>8. PoolInv'
      BY <2>2, <2>4, <3>4, <3>5, <3>7, WorkerMoves DEF DInv, Queue!Pop
    <3> QED BY <2>3, <3>3, <3>8 DEF DInv
  <2>5. CASE Queue!PopDummy /\ Goes(t, "popped")
    <3>1. UNCHANGED queueVars /\ stop
      BY <2>5 DEF Queue!PopDummy, queueVars
    <3>2. PICK w : w = [worker[t] EXCEPT !.stage = "popped"]
      OBVIOUS
    <3>3. w \in Work /\ w.stage = "popped"
      BY <1>1, <3>2 DEF Work, WorkerStage
    <3>4. WorksWell(w, stop)
      BY <3>1, <3>3 DEF WorksWell
    <3>5. Becomes(t, w)
      BY <2>5, <3>2 DEF Goes
    <3> QED BY <2>1, <2>2, <3>1, <3>3, <3>4, <3>5, OneWorker
  <2>6. CASE Queue!PopWaits(t) /\ UNCHANGED worker
    <3>1. QueueInv'
      BY <2>2, <2>6 DEF Queue!PopWaits, DInv, QueueInv
    <3>2. PoolInv'
      BY <2>2, <2>6, PoolKept DEF DInv, Queue!PopWaits
    <3> QED BY <2>3, <3>1, <3>2 DEF DInv
  <2> QED BY <1>12, <2>4, <2>5, <2>6 DEF PopCommand
<1>13. CASE SendEvent(t)
  <2>1. UNCHANGED <<quizzes, queueVars, worker, poolVars>>
    BY <1>13 DEF SendEvent, Broadcast
  <2> QED BY <2>1, OthersKeep
<1> QED
  BY <1>2, <1>3, <1>4, <1>5, <1>6, <1>7, <1>8, <1>9, <1>10, <1>11, <1>12, <1>13
  DEF WorkerStep, RunCommand
-----------------------------------------------------------------------------
(* The clients.                                                            *)

(* A client moves on; the queue is dealt with apart.                       *)
LEMMA OneClient ==
  ASSUME DInv, Grows, NEW g \in Games, NEW c \in ClientState, ClientGoes(g, c), QueueInv',
         UNCHANGED <<quizzes, stop, worker, promised, next_demo_player_id, timer, main>>,
         c.stage \in {"join", "look", "answer", "done"} => promised[g] \in Sids,
         c.stage = "answer" => c.left \subseteq PlayerIds /\ c.questions # 0
  PROVE  DInv'
<1>1. Work \subseteq Work'
  BY StaysRunnable DEF Grows
<1>2. PoolInv'
  BY <1>1, PoolKept DEF DInv
<1>3. client'[g] = c /\ client' \in [Games -> ClientState]
      /\ \A h \in Games : h # g => client'[h] = client[h]
  BY DEF DInv, ClientInv, ClientGoes
<1>4. ASSUME NEW h \in Games PROVE PlaysWell(h)'
  <2>1. CASE h = g
    BY <1>3, <2>1 DEF PlaysWell, Grows
  <2>2. CASE h # g
    BY <1>3, <2>2 DEF DInv, ClientInv, PlaysWell, Grows
  <2> QED BY <2>1, <2>2
<1>5. ClientInv'
  BY <1>3, <1>4 DEF ClientInv
<1>6. RunInv'
  BY RunKept DEF DInv, Grows
<1> QED
  BY <1>2, <1>5, <1>6 DEF DInv

(* A push leaves a runnable command, and wakes one of those who sleep.     *)
LEMMA PushKeeps ==
  ASSUME QueueInv, NEW cmd \in Runnable, Pushes(cmd)
  PROVE  QueueInv' /\ UNCHANGED <<quizzes, sessions, now, stop, worker, promised,
                                  next_demo_player_id, timer, main>>
<1>1. /\ queue' = Append(queue, cmd) /\ UNCHANGED stop /\ Queue!NotifyOne
      /\ UNCHANGED <<managerVars, worker, promised, next_demo_player_id, timer, main>>
  BY DEF Pushes, Queue!Push
<1>2. queue' \in Seq(Runnable) /\ Runnable' = Runnable
  <2>1. queue' \in Seq(Runnable)
    BY <1>1, AppendProperties DEF QueueInv
  <2> QED BY <1>1, <2>1 DEF Runnable, Sids, managerVars
<1>3. asleep' \subseteq asleep /\ asleep' \subseteq Threads
  BY <1>1 DEF Queue!NotifyOne, QueueInv
<1>4. \E t \in Threads : t \notin asleep'
  <2>1. CASE asleep = {}
    BY <1>3, <2>1, DemoAssumption
  <2>2. CASE asleep # {}
    <3>1. PICK t \in asleep : asleep' = asleep \ {t}
      BY <1>1, <2>2 DEF Queue!NotifyOne
    <3> QED BY <3>1 DEF QueueInv
  <2> QED BY <2>1, <2>2
<1> QED
  BY <1>1, <1>2, <1>3, <1>4 DEF QueueInv, managerVars

(* Every step of a client.                                                 *)
LEMMA ClientKeeps ==
  ASSUME IInv, DInv, Grows, NEW g \in Games, ClientStep(g)
  PROVE  DInv'
<1>1. client[g] \in ClientState /\ PlaysWell(g) /\ promised[g] \in {0} \cup Sids
  BY DEF DInv, ClientInv, RunInv
<1>2. ASSUME NEW kind \in {"create", "join", "start", "next"}, kind = "create" \/ promised[g] \in Sids
      PROVE  Command(kind, g) \in Runnable
  BY <1>2 DEF Command, Runnable, RealCommand
<1>3. ASSUME Looks PROVE QueueInv' /\ UNCHANGED <<quizzes, stop, worker, promised,
                                               next_demo_player_id, timer, main>>
  <2>1. UNCHANGED <<quizzes, queueVars, stop, worker, promised, next_demo_player_id, timer, main>>
    BY <1>3 DEF Looks, managerVars, queueVars
  <2>2. Runnable \subseteq Runnable'
    BY <2>1, StaysRunnable DEF Grows
  <2>3. QueueInv'
    BY <2>1, <2>2, QueueKept DEF DInv
  <2> QED BY <2>1, <2>3
<1>4. CASE PushCreate(g)
  <2>1. PICK c : c = [client[g] EXCEPT !.stage = "wait"]
    OBVIOUS
  <2>2. c \in ClientState /\ c.stage = "wait"
    BY <1>1, <2>1 DEF ClientState, ClientStage
  <2>3. Command("create", g) \in Runnable
    BY <1>2
  <2>4. ClientGoes(g, c) /\ Pushes(Command("create", g))
    BY <1>4, <2>1 DEF PushCreate
  <2>5. QueueInv' /\ UNCHANGED <<quizzes, stop, worker, promised, next_demo_player_id, timer, main>>
    BY <2>3, <2>4, PushKeeps DEF DInv
  <2> QED BY <2>2, <2>4, <2>5, OneClient
<1>5. CASE GetSession(g)
  <2>1. PICK c : c = [client[g] EXCEPT !.stage = "join", !.left = 1..Names]
    OBVIOUS
  <2>2. c \in ClientState /\ c.stage = "join"
    <3>1. 1..Names \subseteq Nat
      BY DemoAssumption
    <3>2. 1..Names \in SUBSET (PlayerIds \cup Nat)
      BY <3>1
    <3> QED BY <1>1, <2>1, <3>2 DEF ClientState, ClientStage
  <2>3. promised[g] \in Sids /\ ClientGoes(g, c) /\ Looks
    BY <1>1, <1>5, <2>1 DEF GetSession
  <2> QED BY <1>3, <2>2, <2>3, OneClient
<1>6. CASE PushJoin(g)
  <2>1. PICK left : left = client[g].left \ {Finite!Max(client[g].left)}
    OBVIOUS
  <2>2. PICK c : c = [client[g] EXCEPT !.left = left]
    OBVIOUS
  <2>3. promised[g] \in Sids /\ client[g].stage = "join"
    BY <1>1, <1>6 DEF PushJoin, ClientAt, PlaysWell
  <2>4. c \in ClientState /\ c.stage = "join"
    BY <1>1, <2>1, <2>2, <2>3 DEF ClientState
  <2>5. Command("join", g) \in Runnable
    BY <1>2, <2>3
  <2>6. ClientGoes(g, c) /\ Pushes(Command("join", g))
    BY <1>6, <2>1, <2>2 DEF PushJoin
  <2>7. QueueInv' /\ UNCHANGED <<quizzes, stop, worker, promised, next_demo_player_id, timer, main>>
    BY <2>5, <2>6, PushKeeps DEF DInv
  <2> QED BY <2>3, <2>4, <2>6, <2>7, OneClient
<1>7. CASE PushStart(g)
  <2>1. PICK c : c = [client[g] EXCEPT !.stage = "look"]
    OBVIOUS
  <2>2. promised[g] \in Sids
    BY <1>1, <1>7 DEF PushStart, ClientAt, PlaysWell
  <2>3. c \in ClientState /\ c.stage = "look"
    BY <1>1, <2>1 DEF ClientState, ClientStage
  <2>4. Command("start", g) \in Runnable
    BY <1>2, <2>2
  <2>5. ClientGoes(g, c) /\ Pushes(Command("start", g))
    BY <1>7, <2>1 DEF PushStart
  <2>6. QueueInv' /\ UNCHANGED <<quizzes, stop, worker, promised, next_demo_player_id, timer, main>>
    BY <2>4, <2>5, PushKeeps DEF DInv
  <2> QED BY <2>2, <2>3, <2>5, <2>6, OneClient
<1>8. CASE LookAtSession(g)
  <2>1. PICK seated : seated = DOMAIN sessions[promised[g]].players \ {HostOf[g]}
    OBVIOUS
  <2>2. PICK questions : questions = Len(QuestionsOf(promised[g]))
    OBVIOUS
  <2>3. PICK c : c = [stage |-> "answer", seated |-> seated, left |-> seated, questions |-> questions]
    OBVIOUS
  <2>4. promised[g] \in Sids /\ Looks /\ ClientGoes(g, c)
    BY <1>1, <1>8, <2>1, <2>2, <2>3 DEF LookAtSession, ClientAt, PlaysWell
  <2>5. seated \subseteq PlayerIds
    BY <2>1, <2>4 DEF IInv, TypeOK, SessionsTyped, IsSession, IsMap
  <2>6. questions \in Nat \ {0}
    <3>1. sessions[promised[g]].quiz_code \in DOMAIN quizzes
      BY <2>4 DEF IInv, QuestionInRange, IndexFitsState, HasQuiz
    <3> QED BY <2>2, <3>1, StoredQuestions DEF QuestionsOf
  <2>7. /\ c \in ClientState /\ c.stage = "answer" /\ c.left \subseteq PlayerIds
        /\ c.questions # 0
    BY <2>3, <2>5, <2>6 DEF ClientState, ClientStage
  <2> QED BY <1>3, <2>4, <2>7, OneClient
<1>9. CASE PushAnswer(g)
  <2>1. PICK id \in client[g].left :
          /\ Pushes(AnswerOf(g, id))
          /\ ClientGoes(g, [client[g] EXCEPT !.left = client[g].left \ {id}])
    BY <1>9 DEF PushAnswer
  <2>2. PICK c : c = [client[g] EXCEPT !.left = client[g].left \ {id}]
    OBVIOUS
  <2>3. /\ promised[g] \in Sids /\ client[g].stage = "answer" /\ client[g].left \subseteq PlayerIds
        /\ client[g].questions # 0
    BY <1>1, <1>9 DEF PushAnswer, ClientAt, PlaysWell
  <2>4. /\ c \in ClientState /\ c.stage = "answer" /\ c.left \subseteq PlayerIds
        /\ c.questions # 0
    BY <1>1, <2>2, <2>3 DEF ClientState
  <2>5. AnswerOf(g, id) \in Runnable
    BY <2>3 DEF AnswerOf, Runnable, RealCommand
  <2>6. ClientGoes(g, c) /\ Pushes(AnswerOf(g, id))
    BY <2>1, <2>2
  <2>7. QueueInv' /\ UNCHANGED <<quizzes, stop, worker, promised, next_demo_player_id, timer, main>>
    BY <2>5, <2>6, PushKeeps DEF DInv
  <2> QED BY <2>3, <2>4, <2>6, <2>7, OneClient
<1>10. CASE PushNext(g)
  <2>1. PICK questions : questions = client[g].questions - 1
    OBVIOUS
  <2>2. PICK stage : stage = IF questions = 0 THEN "done" ELSE "answer"
    OBVIOUS
  <2>3. PICK c : c = [client[g] EXCEPT !.questions = questions, !.left = client[g].seated,
                                       !.stage = stage]
    OBVIOUS
  <2>4. /\ promised[g] \in Sids /\ client[g].questions # 0
    BY <1>1, <1>10 DEF PushNext, ClientAt, PlaysWell
  <2>5. questions \in Nat /\ client[g].seated \subseteq PlayerIds
    BY <1>1, <2>1, <2>4 DEF ClientState
  <2>6. /\ c \in ClientState /\ c.stage = stage /\ c.left = client[g].seated
        /\ c.questions = questions
    BY <1>1, <2>2, <2>3, <2>5 DEF ClientState, ClientStage
  <2>7. Command("next", g) \in Runnable
    BY <1>2, <2>4
  <2>8. ClientGoes(g, c) /\ Pushes(Command("next", g))
    BY <1>10, <2>1, <2>2, <2>3 DEF PushNext
  <2>9. QueueInv' /\ UNCHANGED <<quizzes, stop, worker, promised, next_demo_player_id, timer, main>>
    BY <2>7, <2>8, PushKeeps DEF DInv
  <2>10. c.stage = "answer" => c.left \subseteq PlayerIds /\ c.questions # 0
    BY <2>2, <2>5, <2>6
  <2> QED BY <2>4, <2>6, <2>8, <2>9, <2>10, OneClient
<1> QED
  BY <1>4, <1>5, <1>6, <1>7, <1>8, <1>9, <1>10 DEF ClientStep

-----------------------------------------------------------------------------
(* The timer thread, Run and the clock.                                    *)
LEMMA TimerKeeps ==
  ASSUME DInv, Grows, TimerStep
  PROVE  DInv'
<1>1. /\ UNCHANGED <<quizzes, sessions, now, queueVars, worker, client, promised,
                     next_demo_player_id, main>>
      /\ timer' \in [stage : {"loop", "sleep", "tick", "ended"}, at : 0..now]
  BY DEF TimerStep, Ticking, managerVars, Grows
<1>2. Runnable \subseteq Runnable' /\ Work \subseteq Work'
  BY <1>1, StaysRunnable DEF Grows
<1>3. QueueInv'
  BY <1>1, <1>2, QueueKept DEF DInv
<1>4. PoolInv'
  BY <1>1, <1>2, PoolKept DEF DInv, queueVars
<1>5. ClientInv'
  BY <1>1, ClientKept DEF DInv, Grows
<1>6. RunInv'
  BY <1>1 DEF DInv, RunInv, Sids
<1> QED
  BY <1>3, <1>4, <1>5, <1>6 DEF DInv

(* Every step of Run.                                                      *)
LEMMA RunKeeps ==
  ASSUME IInv, DInv, Grows, RunStep
  PROVE  DInv'
<1>1. UNCHANGED <<sessions, now, worker, client, promised, next_demo_player_id, timer>>
  BY DEF RunStep, CreateQuizzes, StopQueue, JoinWorkers, JoinTimer, threadVars, StoreQuiz, managerVars
<1>2. stop => stop'
  BY DEF RunStep, CreateQuizzes, StopQueue, JoinWorkers, JoinTimer, queueVars, Queue!Stop
<1>3. Runnable \subseteq Runnable' /\ Work \subseteq Work'
  BY <1>1, StaysRunnable DEF Grows
<1>4. PoolInv' /\ ClientInv'
  BY <1>1, <1>2, <1>3, PoolKept, ClientKept DEF DInv, Grows
<1>5. QueueInv'
  <2>1. CASE StopQueue
    <3>1. queue \in Seq(Runnable')
      BY <1>3, SeqMonotonic DEF DInv, QueueInv
    <3>2. stop' = TRUE /\ asleep' = {} /\ UNCHANGED queue
      BY <2>1 DEF StopQueue, Queue!Stop
    <3> QED BY <3>1, <3>2 DEF QueueInv
  <2>2. CASE CreateQuizzes \/ JoinWorkers \/ JoinTimer
    <3>1. UNCHANGED queueVars
      BY <2>2 DEF CreateQuizzes, JoinWorkers, JoinTimer
    <3> QED BY <1>3, <3>1, QueueKept DEF DInv
  <2> QED BY <2>1, <2>2 DEF RunStep
<1>6. main' = "setup" => Len(quizzes') \in 0..2
  <2>1. CASE CreateQuizzes
    <3>1. quizzes' = Append(quizzes, DemoQuizzes[Len(quizzes) + 1]) /\ main = "setup"
          /\ (main' = "setup" => Len(quizzes) + 1 # 3)
      BY <2>1 DEF CreateQuizzes, StoreQuiz, CreateQuiz
    <3>2. IsSeq(quizzes)
      BY SeqIsSeq DEF IInv, TypeOK, QuizzesTyped
    <3>3. Len(quizzes') = Len(quizzes) + 1
      BY <3>1, <3>2, AppendProperties DEF IInv, TypeOK, QuizzesTyped, IsSeq
    <3>4. Len(quizzes) \in 0..2
      BY <3>1 DEF DInv, RunInv
    <3>5. \A n \in 0..2 : n + 1 # 3 => n + 1 \in 0..2
      OBVIOUS
    <3> QED BY <3>1, <3>3, <3>4, <3>5, Zenon
  <2>2. CASE StopQueue \/ JoinWorkers \/ JoinTimer
    BY <2>2 DEF StopQueue, JoinWorkers, JoinTimer
  <2> QED BY <2>1, <2>2 DEF RunStep
<1>7. RunInv'
  BY <1>1, <1>6 DEF DInv, RunInv, Grows, Sids
<1> QED
  BY <1>4, <1>5, <1>7 DEF DInv

-----------------------------------------------------------------------------
(* The invariant holds, and what follows.                                  *)

(* It holds before the program runs.                                       *)
LEMMA InitDInv == DemoInit => IInv /\ DInv
<1> SUFFICES ASSUME DemoInit
             PROVE  IInv /\ DInv
  OBVIOUS
<1>1. IInv
  BY InitIInv DEF DemoInit
<1>2. quizzes = <<>> /\ Sids = {} /\ now = 0
  BY EmptyIsSeq DEF DemoInit, ManagerInit, RegistryInit, Sids
<1>3. QueueInv
  BY EmptySeq DEF DemoInit, Queue!QueueInit, QueueInv
<1>4. PoolInv
  BY DEF DemoInit, PoolInv, Looping, Work, WorkerStage, WorksWell
<1>5. ClientInv
  BY DEF DemoInit, ClientInv, ClientState, ClientStage, PlaysWell
<1>6. RunInv
  <2>1. 0 \in 0..Len(DemoIds)
    BY DemoAssumption, LenProperties
  <2>2. Len(quizzes) \in 0..2
    BY <1>2, EmptySeq
  <2> QED BY <1>2, <2>1, <2>2 DEF DemoInit, RunInv
<1> QED
  BY <1>1, <1>3, <1>4, <1>5, <1>6 DEF DInv

(* Every step keeps it, with what the manager needs.                       *)
LEMMA NextDInv == IInv /\ DInv /\ [DemoNext]_demoVars => IInv' /\ DInv'
<1> SUFFICES ASSUME IInv, DInv, [DemoNext]_demoVars
             PROVE  IInv' /\ DInv'
  OBVIOUS
<1>1. IInv' /\ Grows
  BY ManagerGrows DEF Grows, IInv, TypeOK
<1>2. CASE ClockRuns
  <2>1. UNCHANGED <<quizzes, queueVars, worker, poolVars>>
    BY <1>2 DEF ClockRuns, TimePasses, threadVars, poolVars
  <2> QED BY <1>1, <2>1, OthersKeep
<1>3. CASE UNCHANGED demoVars
  <2>1. UNCHANGED <<quizzes, queueVars, worker, poolVars>>
    BY <1>3 DEF demoVars, managerVars, queueVars, poolVars
  <2> QED BY <1>1, <2>1, OthersKeep
<1> QED
  BY <1>1, <1>2, <1>3, WorkerKeeps, ClientKeeps, TimerKeeps, RunKeeps DEF DemoNext

(* So it always holds.                                                     *)
LEMMA AlwaysDInv == DemoSpec => [](IInv /\ DInv)
BY InitDInv, NextDInv, PTL DEF DemoSpec

(* The variables of the demo keep their types, and a command that RunWorker *)
(* runs has a session behind it, in whatever order commands are popped.     *)
THEOREM DemoTypeCorrect == DemoSpec => []DemoTypeOK
BY AlwaysDInv, DInvTypes, PTL

(* However pushes, pops and Stop interleave, with any number of workers:   *)
(* what waits in the queue has somebody awake to take it.                  *)
THEOREM WakeUpsArrive == DemoSpec => []NoLostWakeup
BY AlwaysDInv, DInvAwake, PTL

(* The dummy command is never run: a stopped queue stays stopped.          *)
THEOREM DummiesAreDropped == DemoSpec => []DummyNeverRuns
BY AlwaysDInv, DInvDummy, PTL

(* The demo only uses SessionManager the way any caller may, so whatever   *)
(* is a theorem of SessionManager is one of the demo.                      *)
THEOREM UsesManager == DemoSpec => ManagerSpec
<1>1. DemoInit => ManagerInit
  BY DEF DemoInit
<1>2. IInv /\ DInv /\ [DemoNext]_demoVars => [ManagerNext]_managerVars
  BY CallsManager
<1> QED
  BY <1>1, <1>2, AlwaysDInv, PTL DEF DemoSpec, ManagerSpec

(* questions.at() never throws in the demo either.                         *)
THEOREM DemoQuestionsExist == DemoSpec => []QuestionInRange
BY UsesManager, QuestionsExist, PTL

(* Commands run late or in another order still earn what they earn: the    *)
(* scores of the demo's games are the sums of the answers accepted.        *)
THEOREM DemoScoresAddUp == DemoSpec => []ScoreIsSumOfAnswers
BY UsesManager, ScoresAddUp, PTL
=============================================================================
