-------------------------------- MODULE Demo --------------------------------
(***************************************************************************)
(* server/demo/main.cpp: the second program built on the services.  Client *)
(* threads push the commands of their games into one queue, a pool of      *)
(* workers pops and runs them, a timer thread ticks, and Run starts and    *)
(* stops them all.  The workers are the threads of SessionManager; between *)
(* two of its calls each may be overtaken by the others.                   *)
(*                                                                         *)
(* The sleeps order nothing: the scheduler may stretch or shrink any gap.  *)
(***************************************************************************)
EXTENDS SessionManager

CONSTANTS
  Games,            \* the games played at once, 0..2 in the code
  DemoQuizzes,      \* the three quizzes of CreateQuizzes
  HostOf,           \* per game, the id of its host
  Names,            \* the number of players a client has join
  DemoIds,          \* "PD0", "PD1", ...: the ids workers give to players
  UpdateInterval    \* KTimerUpdateIntervalMs

ASSUME DemoAssumption ==
  /\ Threads # {} /\ 0 \in Delays
  /\ Games \subseteq Nat /\ HostOf \in [Games -> PlayerIds]
  /\ DemoQuizzes \in [1..3 -> QuizDrafts]
  /\ Names \in Nat /\ UpdateInterval \in Nat
  /\ DemoIds \in Seq(PlayerIds)

VARIABLES
  deadlines, last_updates, auto_advance_deadlines,  \* SessionTimerService
  queue, stop, asleep,                              \* CommandQueue
  worker,                \* per worker, where it is and the command it has
  client,                \* per game, where its client is
  promised,              \* per game, the session the promise was kept with
  next_demo_player_id,   \* next_demo_player_id_
  timer,                 \* the timer thread and the clock reading it holds
  main                   \* where Run is

Timer == INSTANCE SessionTimerService WITH TimedSessions <- 1..MaxSessions, TicksPerMs <- 1
Queue == INSTANCE CommandQueue
Finite == INSTANCE FiniteSetsExt

timerVars == <<deadlines, last_updates, auto_advance_deadlines>>
queueVars == <<queue, stop, asleep>>
demoVars == <<managerVars, timerVars, queueVars, worker, client, promised,
              next_demo_player_id, timer, main>>

(* Only an answer names a player.                                          *)
Command(kind, g) == [kind |-> kind, game |-> g]
AnswerOf(g, id) == [kind |-> "answer", game |-> g, player |-> id]
Dummy == [kind |-> "dummy"]

(* "number" is the one JoinPlayer builds its player's id from.             *)
Looping == [stage |-> "loop", cmd |-> Dummy, session |-> 0, number |-> 0, deadline |-> 0]

DemoInit ==
  /\ ManagerInit /\ Timer!TimerInit /\ Queue!QueueInit
  /\ worker = [t \in Threads |-> Looping]
  /\ client = [g \in Games |-> [stage |-> "create", seated |-> {}, left |-> {}, questions |-> 0]]
  /\ promised = [g \in Games |-> 0]
  /\ next_demo_player_id = 0
  /\ timer = [stage |-> "loop", at |-> 0]
  /\ main = "setup"

-----------------------------------------------------------------------------
(* RunWorker                                                               *)

poolVars == <<client, promised, next_demo_player_id, timer, main>>

At(t, stage) ==
  main # "setup" /\ worker[t].stage = stage /\ Free(t)

Becomes(t, w) == worker' = [worker EXCEPT ![t] = w]

Goes(t, stage) == Becomes(t, [worker[t] EXCEPT !.stage = stage])

TestStop(t) ==
  /\ At(t, "loop")
  /\ Goes(t, IF stop THEN "ended" ELSE "pop")
  /\ UNCHANGED <<managerVars, timerVars, queueVars, poolVars>>

PopCommand(t) ==
  /\ At(t, "pop") /\ t \notin asleep
  /\ \/ Queue!Pop /\ Becomes(t, [worker[t] EXCEPT !.stage = "popped", !.cmd = Head(queue)])
     \/ Queue!PopDummy /\ Goes(t, "popped")
     \/ Queue!PopWaits(t) /\ UNCHANGED worker
  /\ UNCHANGED <<managerVars, timerVars, poolVars>>

(* Mutant: the command is run without another look at the flag.          *)
RunAnyway(t) ==
  /\ At(t, "popped")
  /\ Goes(t, "run")
  /\ UNCHANGED <<managerVars, timerVars, queueVars, poolVars>>

(* A stopped queue ends the worker, whatever command it has popped.        *)
TestStopAgain(t) ==
  /\ At(t, "popped")
  /\ Goes(t, IF stop THEN "ended" ELSE "run")
  /\ UNCHANGED <<managerVars, timerVars, queueVars, poolVars>>

Runs(t, kind) == At(t, "run") /\ worker[t].cmd.kind = kind

Target(t) == promised[worker[t].cmd.game]

RunCreateSession(t) ==
  LET g == worker[t].cmd.game
  IN  /\ Runs(t, "create")
      /\ \E pin \in Pins : CreateSession(t, (g % 3) + 1, HostOf[g], pin, 0)
      /\ Becomes(t, [worker[t] EXCEPT !.stage = "promise", !.session = Len(sessions) + 1])
      /\ UNCHANGED <<timerVars, queueVars, poolVars>>

(* Mutant: the promise is kept with the id the next session will get.    *)
KeepPromiseLate(t) ==
  /\ At(t, "promise")
  /\ promised' = [promised EXCEPT ![worker[t].cmd.game] = Len(sessions) + 1]
  /\ Becomes(t, Looping)
  /\ UNCHANGED <<managerVars, timerVars, queueVars, client, next_demo_player_id, timer, main>>

KeepPromise(t) ==
  /\ At(t, "promise")
  /\ promised' = [promised EXCEPT ![worker[t].cmd.game] = worker[t].session]
  /\ Becomes(t, Looping)
  /\ UNCHANGED <<managerVars, timerVars, queueVars, client, next_demo_player_id, timer, main>>

(* Bound: there are ids for all who join.                                  *)
TakePlayerNumber(t) ==
  /\ Runs(t, "join")
  /\ next_demo_player_id < Len(DemoIds)
  /\ next_demo_player_id' = next_demo_player_id + 1
  /\ Becomes(t, [worker[t] EXCEPT !.stage = "admit", !.number = next_demo_player_id + 1])
  /\ UNCHANGED <<managerVars, timerVars, queueVars, client, promised, timer, main>>

RunJoinPlayer(t) ==
  LET s == Target(t) id == DemoIds[worker[t].number]
  IN  /\ At(t, "admit")
      /\ \/ JoinAsPlayer(t, s, sessions[s].pin, id)
         \/ ~(CanJoin(sessions[s]) /\ CanAddPlayer(sessions[s], id)) /\ UNCHANGED managerVars
      /\ Becomes(t, Looping)
      /\ UNCHANGED <<timerVars, queueVars, poolVars>>

(* The only one of its game: nothing can have closed the lobby before.     *)
RunStartGame(t) ==
  /\ Runs(t, "start")
  /\ StartGame(t, Target(t))
  /\ Goes(t, "fetch")
  /\ UNCHANGED <<timerVars, queueVars, poolVars>>

RunSubmitAnswer(t) ==
  LET id == worker[t].cmd.player
  IN  /\ Runs(t, "answer")
      /\ \/ \E answer \in Answers : SubmitAnswer(t, Target(t), id, answer)
         \/ ~CanSubmitAnswer(sessions[Target(t)], id) /\ UNCHANGED managerVars
      /\ Becomes(t, Looping)
      /\ UNCHANGED <<timerVars, queueVars, poolVars>>

RunNextQuestion(t) ==
  /\ Runs(t, "next")
  /\ Timer!ClearDeadline(Target(t))
  /\ Goes(t, "advance")
  /\ UNCHANGED <<managerVars, queueVars, poolVars>>

(* Refused or not, the deadline the session holds is then armed.           *)
AdvanceGame(t) ==
  /\ At(t, "advance")
  /\ \/ NextQuestion(t, Target(t))
     \/ ~CanAdvance(sessions[Target(t)]) /\ UNCHANGED managerVars
  /\ Goes(t, "fetch")
  /\ UNCHANGED <<timerVars, queueVars, poolVars>>

FetchDeadline(t) ==
  LET session == sessions[Target(t)]
  IN  /\ At(t, "fetch")
      /\ Becomes(t, IF session.has_question_deadline
                    THEN [worker[t] EXCEPT !.stage = "arm", !.deadline = session.question_deadline]
                    ELSE Looping)
      /\ UNCHANGED <<managerVars, timerVars, queueVars, poolVars>>

ArmTimer(t) ==
  /\ At(t, "arm")
  /\ Timer!SetDeadline(Target(t), worker[t].deadline)
  /\ Becomes(t, Looping)
  /\ UNCHANGED <<managerVars, queueVars, poolVars>>

SendEvent(t) ==
  Broadcast(t) /\ UNCHANGED <<timerVars, queueVars, worker, poolVars>>

RunCommand(t) ==
  \/ RunCreateSession(t) \/ KeepPromise(t)
  \/ TakePlayerNumber(t) \/ RunJoinPlayer(t)
  \/ RunStartGame(t) \/ RunSubmitAnswer(t)
  \/ RunNextQuestion(t) \/ AdvanceGame(t)
  \/ FetchDeadline(t) \/ ArmTimer(t)

WorkerStep(t) ==
  TestStop(t) \/ PopCommand(t) \/ TestStopAgain(t) \/ RunCommand(t) \/ SendEvent(t)

-----------------------------------------------------------------------------
(* SimulateClient                                                          *)

ClientAt(g, stage) == main = "play" /\ client[g].stage = stage

ClientGoes(g, c) == client' = [client EXCEPT ![g] = c]

Pushes(cmd) ==
  /\ Queue!Push(cmd)
  /\ UNCHANGED <<managerVars, timerVars, worker, promised, next_demo_player_id, timer, main>>

Looks == UNCHANGED <<managerVars, timerVars, queueVars, worker, promised,
                     next_demo_player_id, timer, main>>

PushCreate(g) ==
  /\ ClientAt(g, "create")
  /\ Pushes(Command("create", g))
  /\ ClientGoes(g, [client[g] EXCEPT !.stage = "wait"])

(* session_future.get(); "left" counts the names off.                      *)
GetSession(g) ==
  /\ ClientAt(g, "wait") /\ promised[g] # 0
  /\ ClientGoes(g, [client[g] EXCEPT !.stage = "join", !.left = 1..Names])
  /\ Looks

PushJoin(g) ==
  /\ ClientAt(g, "join") /\ client[g].left # {}
  /\ Pushes(Command("join", g))
  /\ ClientGoes(g, [client[g] EXCEPT !.left = @ \ {Finite!Max(@)}])

PushStart(g) ==
  /\ ClientAt(g, "join") /\ client[g].left = {}
  /\ Pushes(Command("start", g))
  /\ ClientGoes(g, [client[g] EXCEPT !.stage = "look"])

(* Mutant: those who were asked to join are taken for players.             *)
LookAtNames(g) ==
  LET seated == {DemoIds[i] : i \in 1..Names}
  IN  /\ ClientAt(g, "look")
      /\ ClientGoes(g, [stage |-> "answer", seated |-> seated, left |-> seated,
                        questions |-> Len(QuestionsOf(promised[g]))])
      /\ Looks

(* The players who are in the session by now are those who will answer.    *)
LookAtSession(g) ==
  LET seated == DOMAIN sessions[promised[g]].players \ {HostOf[g]}
  IN  /\ ClientAt(g, "look")
      /\ ClientGoes(g, [stage |-> "answer", seated |-> seated, left |-> seated,
                        questions |-> Len(QuestionsOf(promised[g]))])
      /\ Looks

PushAnswer(g) ==
  /\ ClientAt(g, "answer")
  /\ \E id \in client[g].left :
       /\ Pushes(AnswerOf(g, id))
       /\ ClientGoes(g, [client[g] EXCEPT !.left = @ \ {id}])

(* The client is done after the last question; it waits for no command.    *)
PushNext(g) ==
  LET questions == client[g].questions - 1
  IN  /\ ClientAt(g, "answer") /\ client[g].left = {}
      /\ Pushes(Command("next", g))
      /\ ClientGoes(g, [client[g] EXCEPT
                          !.questions = questions, !.left = client[g].seated,
                          !.stage = IF questions = 0 THEN "done" ELSE "answer"])

ClientStep(g) ==
  \/ PushCreate(g) \/ GetSession(g) \/ PushJoin(g) \/ PushStart(g)
  \/ LookAtSession(g) \/ PushAnswer(g) \/ PushNext(g)

-----------------------------------------------------------------------------
(* RunTimerThread: every turn looks at stop_flag_, sleeps and ticks; the   *)
(* events go to a log.                                                     *)
Ticking(stage, at) ==
  /\ timer' = [stage |-> stage, at |-> at]
  /\ UNCHANGED <<managerVars, queueVars, worker, client, promised, next_demo_player_id, main>>

TimerStep ==
  /\ main # "setup"
  /\ \/ /\ timer.stage = "loop"
        /\ Ticking(IF main = "joined" THEN "ended" ELSE "sleep", 0)
        /\ UNCHANGED timerVars
     \/ timer.stage = "sleep" /\ Ticking("tick", now) /\ UNCHANGED timerVars
     \/ timer.stage = "tick" /\ Timer!Tick(timer.at) /\ Ticking("loop", 0)

-----------------------------------------------------------------------------
(* Run                                                                     *)

threadVars == <<timerVars, worker, client, promised, next_demo_player_id, timer>>

CreateQuizzes ==
  /\ main = "setup"
  /\ StoreQuiz(DemoQuizzes[Len(quizzes) + 1])
  /\ main' = IF Len(quizzes) + 1 = 3 THEN "play" ELSE "setup"
  /\ UNCHANGED <<threadVars, queueVars>>

(* The clients are joined, and the queue stopped.                          *)
StopQueue ==
  /\ main = "play" /\ \A g \in Games : client[g].stage = "done"
  /\ Queue!Stop
  /\ main' = "stopped"
  /\ UNCHANGED <<managerVars, threadVars>>

(* The workers are joined, and stop_flag_ is set.                          *)
JoinWorkers ==
  /\ main = "stopped" /\ \A t \in Threads : worker[t].stage = "ended"
  /\ main' = "joined"
  /\ UNCHANGED <<managerVars, threadVars, queueVars>>

JoinTimer ==
  /\ main = "joined" /\ timer.stage = "ended"
  /\ main' = "ended"
  /\ UNCHANGED <<managerVars, threadVars, queueVars>>

RunStep == CreateQuizzes \/ StopQueue \/ JoinWorkers \/ JoinTimer

ClockRuns ==
  /\ TimePasses(SessionInstants)
  /\ UNCHANGED <<threadVars, queueVars, main>>

DemoNext ==
  \/ \E t \in Threads : WorkerStep(t)
  \/ \E g \in Games : ClientStep(g)
  \/ TimerStep
  \/ RunStep
  \/ ClockRuns

DemoSpec == DemoInit /\ [][DemoNext]_demoVars

(* Every thread gets to run; none is ever woken but by a notification.     *)
DemoFairSpec ==
  /\ DemoSpec
  /\ \A t \in Threads : WF_demoVars(WorkerStep(t))
  /\ \A g \in Games : WF_demoVars(ClientStep(g))
  /\ WF_demoVars(TimerStep)
  /\ WF_demoVars(RunStep)
  /\ WF_demoVars(ClockRuns)

-----------------------------------------------------------------------------
(* Properties                                                              *)

(* The variables this module adds hold what the code's types allow, and a  *)
(* command's session is one the promise was kept with.                     *)
DemoTypeOK ==
  /\ \A t \in Threads :
       /\ worker[t].stage \in {"loop", "pop", "popped", "run", "promise", "admit",
                              "advance", "fetch", "arm", "ended"}
       /\ worker[t].session \in {0} \cup Sids
       /\ worker[t].stage = "admit" => worker[t].number \in DOMAIN DemoIds
       /\ worker[t].stage \in {"run", "admit", "advance", "fetch", "arm"}
            => worker[t].cmd.kind = "create" \/ Target(t) \in Sids
  /\ \A g \in Games : client[g].questions \in Nat /\ client[g].seated \subseteq PlayerIds
  /\ promised \in [Games -> {0} \cup Sids]
  /\ next_demo_player_id \in 0..Len(DemoIds)
  /\ asleep \subseteq Threads
  /\ timer.at \in 0..now

(* No wake-up is lost: as long as a command waits, or the queue has been   *)
(* stopped, not every worker that is left sleeps at the condition variable.*)
NoLostWakeup ==
  queue # <<>> \/ stop =>
    \/ \E t \in Threads \ asleep : worker[t].stage # "ended"
    \/ stop /\ asleep = {}

(* The dummy that Pop hands out when the queue is stopped is never run:    *)
(* IsStopped, asked again under another lock, has not changed its mind.    *)
DummyNeverRuns == \A t \in Threads : worker[t].cmd = Dummy => worker[t].stage # "run"

(* An answer in the queue or in a worker's hands is one of somebody who is *)
(* in the session, however late the joins are run: a client lets those     *)
(* answer whom it saw there, and a join refused, because the start was run *)
(* before it, is no player's.                                              *)
AnswersAreOfPlayers ==
  \A cmd \in {queue[i] : i \in DOMAIN queue} \cup {worker[t].cmd : t \in Threads} :
    cmd.kind = "answer" => cmd.player \in DOMAIN sessions[promised[cmd.game]].players \ {HostOf[cmd.game]}

(* The demo comes to its end: no client waits for ever for its session, no *)
(* worker sleeps through Stop, and all threads can be joined.              *)
DemoEnds == <>(main = "ended")
=============================================================================
