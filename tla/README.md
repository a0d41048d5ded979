# Quizlyx in TLA+

A formal model of the Quizlyx server (`src/server`): a quiz game played over
WebSockets, in which a host creates a quiz and a session, participants join by
PIN, the host (or a timer) moves from question to question and everybody sees
the standings. The modules below are translated from the C++ sources; TLC
checks them on small instances, and TLAPS proves every safety property they
check but one (section 4), and both refinements, for every value of the
constants.

    tlc -config MCSessionManager_game.cfg MCSessionManager   # a run
    tlapm SessionManagerSafety.tla                           # the proofs

## 1. The system

| Component | State | Operations | Source |
|---|---|---|---|
| Quiz domain | none (pure) | `Validate` of a question and of a quiz | `domain/quiz.cpp` |
| Quiz registry and storage | map code → quiz, code counter, a mutex | `Create`, `Get` | `services/quiz_registry.cpp`, `in_memory_quiz_storage.cpp` |
| Scoring | none (pure) | `CalculatePoints` | `services/scoring.cpp` |
| Session domain | the `Session` and its `Player`s | join, start, answer, advance, remove, disconnect, reconnect | `domain/session.cpp` |
| Session manager | map id → entry, each with a mutex; a global mutex over the map; counters; random PINs | the session operations, `CleanupDisconnectedPlayers` | `services/session_manager.cpp` |
| Session timer service | `deadlines_`, `last_updates_`, `auto_advance_deadlines_`, one mutex | `SetDeadline`, `SetAutoAdvanceDeadline`, `ClearDeadline`, `Tick` | `services/session_timer_service.cpp` |
| Command handler, game controller | none | forward commands; tie `StartGame` and `NextQuestion` to the timers | `app/command_handler.cpp`, `network/game_controller.cpp` |
| Tick handler, thread pool | a steady timer that re-arms itself every 200 ms | broadcast what `Tick` found, set and execute automatic advances, clean up | `main.cpp` |
| Connections | per connection: session id, player id, write queue, `writing_` | dispatch of client commands, `Send`, `OnWrite`, `OnDisconnect` | `network/ws_connection.cpp` |
| Connection registry | map session, player → weak pointer to a connection; one mutex | `Register`, `Unregister`, `GetSessionConnections` | `network/ws_connection_manager.cpp` |
| Broadcast sink | none | send an event to every connection of a session | `network/ws_broadcast_sink.cpp` |
| JSON protocol | none | (de)serialization | `network/json_protocol.cpp` |
| WebSocket server | acceptor | accept loop | `network/ws_server.cpp` |
| Demo | command queue with a condition variable, promises, a stop flag | `Push`, `Pop`, `Stop`; four workers, three clients, a timer thread | `demo/main.cpp` |
| Client | none | a placeholder window | `client/main.cpp` |

How they interact. An `io_context` is run by as many threads as the machine
has cores. A client's message is dispatched on its connection's strand and
calls the game controller directly; so commands of different clients run at
the same time, and the tick handler runs beside them on whichever thread picks
it up, never twice at once because it re-arms itself at its end. The session
manager looks an entry up under the global mutex and works on it under the
entry's own mutex, *forms* the event to be sent under that mutex and
*broadcasts* it after the unlock. The controller holds no lock over its
sequences: `NextQuestion` is clear the timers, advance the game, copy the
session, arm its deadline. `Tick` reads the clock before it takes its mutex.
A broadcast copies the connections registered for the session and posts the
message to the strand of each, where it joins that connection's write queue. A
connection that fails to read or write gives up its identity, unregisters it
and tells the manager. The demo is a second program over the same services:
clients push commands into one queue, and workers pop and run them.

What is hard, and what has to be right:

- **Races on a session** (submit, advance, leave, clean up, on many threads).
  An answer counts once; the score is the sum of what was earned; the question
  index never leaves the quiz; the state only moves forward; the final
  standings stay true.
- **Events formed under a lock and sent after it.** The order in which clients
  receive events is not the order of the changes.
- **The gap between timers and games.** A running game must never be left
  without whatever will move it on, although clear, advance, copy and arm are
  four steps, and a timeout that `Tick` has taken may be handled after the host
  has advanced the question.
- **Time.** Truncation to milliseconds, a clock read before a lock, deadlines
  from old copies, the integer division of the speed bonus.
- **Presence.** The cleanup uses a clock and a list of sessions read before it
  takes any session's lock; whoever reconnects in time must survive it, and
  whoever does not must go in the end.
- **Connections that overlap.** The end of an old connection races with the
  return of its player on a new one; unregistering and disconnecting are two
  steps; a connection may change its identity, leave in the name of another, or
  be read from after it can no longer be written to.
- **Writing.** Sends, completions and failures come in any order, and only one
  write may be under way on a stream.
- **The demo's threads.** Sleeping workers, a stop that hands out dummies, a
  client that waits for a promise; and commands run in another order than they
  were pushed in.

`PROJECT.json` lists each hazard at its source line with the properties that
would catch it going wrong.

## 2. The modules

```
Quiz ── QuizRegistry ─┐                      ┌─ GameServer ──── MCGameServer
Session ──────────────┼── SessionManager ────┼─ Connections ─── MCConnections
Scoring ──────────────┘                      ├─ Demo ────────── MCDemo
   │                                         └─ SessionManagerGame ── MCSessionManager
   └─ ScoringCases ── MCScoring

SessionTimerService:  in TickLoop, GameServer, Demo
ConnectionManager:    in Connections, Delivery
CommandQueue:         in Demo
QuizGame:             abstract; implemented by SessionManager (SessionManagerGame)
Multicast:            abstract; implemented by Delivery ── MCDelivery

Proofs:  SessionManagerProofs ─┬─ SessionManagerSafety ── DemoProofs
                               ├─ GameServerProofs
                               └─ ConnectionsProofs
         TickLoopProofs, DeliveryProofs, ScoringProofs
```

**Quiz, QuizRegistry.** A question is its answer type, the number of its
options, its correct indices and its time limit; texts are "empty or not". The
storage is the sequence of the quizzes in the order of their codes (a code is
"Q" and a counter, and nothing is erased).

**Scoring.** `CalculatePoints` with its integer division, in 64 bits, and the
cast of the bonus to `int` (`Narrow`): an `int` holds `-IntLimit` to
`IntLimit - 1`. Sorting both index vectors and comparing them is "every index
occurs equally often in both". `ScoringCases` enumerates questions and answers
as initial states.

**Session.** The record `Session` of `session.hpp` without the fields nothing
reads again (id, names, roles, host id). A C++ function that returns `bool` and
mutates its session is a predicate (`CanJoin`, `CanAdvance`, ...) and an
operator that gives the session afterwards (`AddPlayer`,
`AdvanceToNextQuestion`, ...). Players are a function from ids: `AddPlayer`
refuses an id already there.

**SessionManager.** One action per operation.

| Variable | In the code |
|---|---|
| `quizzes` | `InMemoryQuizStorage::quizzes_` |
| `sessions` | `sessions_`, as the sequence of sessions in order of their ids |
| `now` | the steady clock |
| `pending[t]` | the event thread `t` has formed and not yet broadcast |
| `cleanup` | the locals of a running `CleanupDisconnectedPlayers` |
| `ledger` | history: the accepted answers with their points |
| `view` | history: the last question, last board and final boards sent, and who was last announced as gone |

A critical section is one step. No entry is ever erased from `sessions_`, so
the lookup and the work on the entry may be one step too. The broadcast is a
step of its own. The cleanup is a step to read the clock, one to copy
the list, one per session, one per `PlayerLeft`. A refused call changes nothing and is no step.

**QuizGame, SessionManagerGame.** `QuizGame` is the game without threads,
clocks and events: people enter a lobby, answer each question at most once,
only answers change the standings, nothing does after the end.
`SessionManagerGame` maps every session to a game of it (state to phase,
leaderboard to standings, the flags to the set of those who answered) and
states that every step of the manager is a move of the game or none.

**SessionTimerService, TickLoop.** The timer's operations as actions over its
three maps, with instants finer than milliseconds (`TicksPerMs`) because
`Tick` compares remaining time cut to whole milliseconds for questions, and
exact instants for automatic advances. `TickLoop` lets workers set and clear
at any moment while a thread ticks, the clock reading a step of its own.

**GameServer.** SessionManager and the timer service composed by the
controller and the tick handler. `call[t]` is the program counter and the
locals of `GameController::StartGame` and `NextQuestion` on thread `t`;
`ticker` those of the tick handler; `timeouts` counts the `QuestionTimeout`
events sent. Every call of another service is a step: `ClearTimers`,
`AdvanceGame`, `SendEvent`, `FetchDeadline` (the copy `GetSessionById`
returns), `ArmTimer`; and of the tick handler `TickReadsDelay` (the copy, and the
clock) and `TickSetsAutoAdvance`. The events of one `Tick` are broadcast in any order
within a kind, as an `unordered_map` gives them, question deadlines before
automatic advances, as the vector has them. Here a clock tick is a
millisecond: `TicksPerMs <- 1`.

**ConnectionManager, Connections.** The registry as three operators over the
map, and the connections over `SessionManager`. A thread of the manager is
here the strand of a connection: the handlers of one connection never overlap,
those of two may.

| Variable | In the code |
|---|---|
| `accepting` | an `async_accept` is under way; an error ends the loop |
| `socket[c]` | *new*, *open*, *mute* (a write has failed, the read loop goes on), *closed* (a read has failed) |
| `identity[c]` | `session_id_` and `player_id_` |
| `handler[c]` | what the running handler has still to do: register, forget, or tell the manager |
| `connections` | `WsConnectionManager::connections_` |
| `next_player_id` | `GameController::next_player_id_` |
| `abandoned`, `contested` | history: identities given up by taking another or by leaving as another, until they are taken again; identities a connection joined, returned or left as while another had them |

Each service a handler calls is a step: `JoinCommand` (the manager),
`SendEvent`, `TakeIdentity` (`Register`); `LeaveCommand`, `SendEvent`,
`DropIdentity` (`Unregister`, and the connection's own ids cleared);
`OnDisconnect` is the identity moved out and unregistered, then `TellManager`. In
between every other connection and the cleanup may act. Nothing a message says is
checked, so a connection may leave or return as anybody, start any session, and a
host may choose the empty id (`Nameless`), whose end `OnDisconnect` does not
report. The players the code loses track of in these ways are named by
`Untracked`; what becomes of them is told among the deviations below.

**Delivery, Multicast.** The write side. `task[t]` is what a sender (a strand
or the tick handler) has still to post and to do, `posted[c]` what a strand has
to take, `write_queue`, `writing` and `in_flight` (calls of `async_write`
unanswered) the writer's state. `PostTo` posts to one connection at a time, so
two broadcasts interleave; `TakePosted` is the handler `Send` posts,
`WriteDone` and `WriteFails` are `OnWrite`. A sender that has served the last
connection is idle, or goes on to what its handler does next (`Served`).
`room` is how much of the bound on messages no handler has claimed: one begins
only while there is room for all it will form.

`Multicast` is the abstract specification. It has `members` who enter and exit;
a sender's `Broadcast` goes to exactly those who are members at that moment, its
`Reply` to itself alone, each message once; and between each sender and each
receiver is a FIFO channel, with no order between senders. The members are the
connections registered, and a message of `Delivery` is abstractly sent when the
registry is copied and delivered when its write is done. So a connection passed
over while posting, posted to twice, or reached although it was not registered,
would each be a step `Multicast` does not have.

**CommandQueue, Demo.** The queue with its condition variable (`asleep` is who
waits at it), and the program around it: `worker` the program counter and
command of a worker, `client` that of `SimulateClient`, `promised` the kept
promises, `timer` the timer thread, `main` where `Run` is. To join is two steps,
the number taken from the counter and the call of the manager. The worker's calls
of the services are steps as in `GameServer`. Sleeps are left out: a scheduler
may stretch or shrink any gap, and the models allow every order.

Operators whose comment starts with "Mutant" are mistakes somebody could make
in the operator below them. They are never used by the specifications; each
property has one that breaks it, which shows that the property says something.

## 3. What is checked

| Run | Question it answers |
|---|---|
| `manager_game` | Two threads run every game operation on a session of two questions. No interleaving breaks a type, leads the index out of the quiz, credits a player twice for a question, loses points, falsifies a final board, or takes the game back; every step is a move of `QuizGame` (`ImplementsGame`). |
| `manager_presence` | Connections break and return in two sessions while the cleanup passes. It removes nobody too early (`CleanupSparesTheRecent`); who stays away is removed, and the removal broadcast (`GoneAreRemoved`). |
| `timer` | No deadline is lost or acted on a millisecond or more too early, an automatic advance never early, `last_updates_` does not leak, every deadline set is acted on or withdrawn. |
| `server_safety` | Two workers and the ticker race starts, advances, timeouts and automatic advances on two questions: a running game is never left without what moves it on, a lobby is never touched by timers, and no armed deadline, however stale, is further ahead than the limit of a question the session has come to (`ArmedWithinLimits`). |
| `server_whole` | Every operation of the server, under fairness: with automatic advance a started game ends without the host; every question is announced as timed out, or passed; and the timers of a finished game fall silent for good, although the last `NextQuestion` arms one again (`TimersEndWithGame`). |
| `connections` | Two hosts, one of them without a name, and one who joins, on two connections that break in every way and send any command in any order, in anybody's name. A player counts as connected only while some connection speaks for it (`NoGhosts`); the registry never names a connection that has ended or speaks for another (`RegistryIsCurrent`); a player whose connections did not overlap, and as whom no other connection left, is registered and connected (`SoleConnectionReachable`). The first two except the players the code loses track of (`Untracked`). |
| `delivery` | Two connections and the tick handler post events and replies while streams fail. One `async_write` at a time and never none while something waits on an open stream (`OneWriteAtATime`); every event is sent to exactly the connections registered when it is broadcast, every reply to its own connection, each once, and nothing is lost or reordered between a sender and a receiver (`ImplementsMulticast`); everything sent is written unless the stream fails (`SentIsWritten`). |
| `demo` | Two workers run a game of two questions. No wake-up is lost, the dummy command is never run, answers are given only for players who are in the session however late the joins are run (`AnswersAreOfPlayers`), and the program ends (`DemoEnds`). |
| `scoring` | The points of every answer to every valid question of up to two options: right exactly for a permutation of the right options, more for faster answers, between 100 and 200 from the start of the question on; times before it are among the inputs, down to where the bonus no longer fits an `int`. |

Runs that find what the documents say violated by what the code does:

| Run | Documented | What happens |
|---|---|---|
| `manager_question` | participants see the question in step (`about.md:40`) | `StartGame` broadcasts its `QuestionStarted` after the unlock, and later than the `NextQuestion` that followed; clients stay on the first question |
| `server_cut_short` | the server is the source of truth of time (`about.md:23`) | a timeout `Tick` took before the host advanced is handled after it: the automatic advance is set for the next question and ends it before its deadline |
| `connections_back` | a player that has reconnected is connected (`network_integration_test.cpp:378`); disconnections are handled correctly (`about.md:62`) | `OnDisconnect` of the old connection does not ask whether a newer one speaks for the player: when the server notices the loss after the player is back, it unregisters and disconnects the player, who stays so on an open connection |

Deviations that no run states, seen while modelling:

- `GeneratePin` compares a PIN with no other session's, although a session is to
  have a unique one (`about.md:19`).
- A finished session keeps `has_question_deadline`: the `NextQuestion` that ends
  the game arms the last deadline again and a `QuestionTimeout` follows
  `GameFinished` (`business_logic.md:39` has `ClearDeadline` at the end).
- The `AutoAdvance` event carries, and broadcasts, a second `QuestionTimeout`
  (`about.md:27`).
- Two overlapping `NextQuestion` calls, each arming the deadline it copied, may
  leave the older one armed (`about.md:24`).
- Leaderboards of two answers may overtake one another like `QuestionStarted`, and
  a late one `GameFinished`.
- A join of the demo that a worker runs after the start is refused, and nobody
  told: the game goes on without that player.
- `Tick` reports a timeout up to a millisecond early (`TimeoutWithinMillisecond`
  is the bound that does hold).
- A negative `time_ms` reported by a client earns more than the maximal bonus,
  so `PointsInRange` speaks of times from 0 on. With a limit up to 100 ms one
  negative enough does not fit the `int` it is cast to (`scoring.cpp:35`), and
  the earlier answer may earn less, or a right one lose points:
  `FasterEarnsMore` and `CorrectIffPermutation` speak of points that fit
  (`PointsFit`). `time_limit_ms` and `time_ms` are cut to 32 bits when parsed.
- A question that names a right option twice passes `Validate` and then demands
  that option twice.
- A connection that joins, creates or reconnects a second time never disconnects
  its first player (`ws_connection.cpp:98`). `leave` removes whichever player its
  message names and then clears the connection's own ids (`:113-121`): its own
  player is not disconnected either. And `create_session` takes an empty
  `host_id`, which `OnDisconnect` takes for none (`:168`). In all three cases the
  player stays connected, and registered unless somebody unregisters it, when
  every connection has ended, and no cleanup removes it, although disconnections
  of participants and hosts are to be handled correctly (`about.md:62`).
  `NoGhosts` and `RegistryIsCurrent` except these players (`Untracked`), and only
  these.
- A broadcast is not atomic (`about.md:52`): it posts to one connection after the
  other, so two clients may be sent the events of two threads in different
  orders. `Multicast` promises no more than that each sender's come in order.
- An accept that fails ends the accept loop for good.
- `main` declares the `io_context` first, so it is destroyed last: connections
  its pending handlers hold are destroyed after the registry and the controller
  their destructors call. The integration test destroys it first for that very
  reason (`network_integration_test.cpp:146`).
- The demo reports its games complete before it stops the queue, which drops
  whatever is still in it, the last `NextQuestion` of a game among them.

### Bounds, and why they are enough

- **One session** where the property is about one (sessions share no state but
  the cleanup's list and the timer's maps, whose entries are independent);
  two in `manager_presence` and `timer`.
- **Two or three threads.** Every race found is between two calls;
  `server_safety` has two workers besides the ticker, so two commands can
  overlap each other and a tick.
- **Two questions**: a question followed by another, and a question followed by
  the end. Limits of 1 and 2 ms suffice for a deadline before, at and after
  another one. `server_safety` has them in either order: only a short question
  after a long one shows a stale deadline later than any of its own.
- **Two players** in `manager_game`: the host and one who joins, two to race on
  the scores, and `MaxPlayersPerSession = 2`, so that the session is full.
- **The clock** moves only while some instant the code compares it with is
  ahead; beyond the last one no comparison changes. `MaxTime` bounds the
  instants a disconnection is due, not the clock.
- **Two connections** in the runs on connections and in `delivery`: an old and a
  new one of the same player, or one each of two; three or more bring no pair that
  two do not. A named host, one without a name and one who joins, so all kinds of
  identity meet on one connection. `ReconnectTimeout = 0`: a player may be
  due as soon as it is away, the hardest case for whoever returns. The cleanup
  begins only when somebody is away (`SomebodyAway`), and an accept fails only
  while a client is still to come. Of the game's commands only those that change
  what connections read are there (`StartGame` closes the lobby).
- **`MaxMessages = 4`** messages formed in `delivery`: two handlers with event
  and reply each, so that events of two threads, replies and failures
  interleave on two queues.
- **`IntLimit`**: 256 in `scoring`, so that a time of -9 ms already overflows the
  bonus; 1024 elsewhere, where no points come near it. The theorems hold for any.
  The sums of points are taken as not overflowing (a guard of `SubmitAnswer`):
  what a signed overflow gives is undefined.
- **Two workers, one game** in `demo`: two suffice to run any two commands in
  the wrong order or to both sleep. Game 0 is the longest. Only a right answer
  is given; the scores' arithmetic is the business of `manager_game`.
- Answers elsewhere: a right and a wrong one, at once and past the limit.
- Symmetry is used for the threads in `manager_game` and `connections`, runs
  without liveness properties. A VIEW leaves out history that no action and no
  property of the run reads: in `manager_game` what clients saw but for the final
  boards (`GameView`), in `connections` all of it (`LinkView`).

### Fairness, and why the code justifies it

A thread that has formed an event goes on to broadcast it, and a controller
call once begun runs to its end (`WF` on `Broadcast`, `CallStep`): nothing in
between blocks for ever, the mutexes are held for finite sections. The tick
handler re-arms itself at the end of every run and every run ends with the
cleanup (`WF` on `TickerStep`, `CleanupBegin`, `CleanupStep`, `ReadClock`,
`TickUnderLock`). The steady clock does not stop (`WF` on `TimePasses`,
`ClockRuns`, `ClockTicks`). Nothing is assumed of clients: the host may never
act, a player may never answer or return.

`Connections` is checked for safety alone and assumes no fairness. In `Delivery` handlers run to their ends,
strands take what is posted, and a write is answered, with success or an error,
because the stream's timeouts see to it. In `Demo` every thread gets to run
(`WF` on each thread's step); no spurious wake-up of the condition variable is
needed or modelled.

Deadlock is checked in every run but those on connections, on delivery and
`demo` (`CHECK_DEADLOCK FALSE`): all connections may be closed
for good, the bound on messages may be reached, and the demo does stop; that it
stops only at its end is `DemoEnds`.

## 4. What is proved

Every safety invariant but `AnswersAreOfPlayers`, every action property and both
refinements that a passing run checks are theorems, for every number of threads, players,
sessions, quizzes, connections, messages and games, and any quizzes and answers
clients submit. The assumptions are those stated with the constants:
`QuizAssumption`, `SessionAssumption` and `ManagerAssumption` for the manager,
and `LoopAssumption`, `TimerAssumption`, `ServerAssumption`,
`ConnectionAssumption`, `DeliveryAssumption`, `DemoAssumption` and
`CasesAssumption` for the modules that declare them. Nearly all of it is types.
What is more: a session has room for at least one player, the ticker is one of
`GameServer`'s threads and none of `Delivery`'s connections, and the demo has a
worker (it starts four; with none, nobody would ever take what waits) and
creates its sessions with a delay of 0, which must be one of the `Delays`.

| Theorem | Module | Statement |
|---|---|---|
| `TypeCorrect` | `SessionManagerProofs` | `ManagerSpec => []TypeOK` |
| `QuestionsExist` | `SessionManagerProofs` | `ManagerSpec => []QuestionInRange` |
| `AnswersCountOnce` | `SessionManagerSafety` | `ManagerSpec => []OneAnswerPerQuestion` |
| `ScoresAddUp` | `SessionManagerSafety` | `ManagerSpec => []ScoreIsSumOfAnswers` |
| `OneTrueFinal` | `SessionManagerSafety` | `ManagerSpec => []FinalStandings` |
| `NoWayBack` | `SessionManagerSafety` | `ManagerSpec => GameOnlyMovesForward` |
| `RecentAreSpared` | `SessionManagerSafety` | `ManagerSpec => CleanupSparesTheRecent` |
| `PlaysTheGame` | `SessionManagerSafety` | `ManagerSpec => ImplementsGame` (`QuizGame`) |
| `LoopTypeCorrect` | `TickLoopProofs` | `LoopSpec => []LoopTypeOK` |
| `UpdatesDoNotLeak` | `TickLoopProofs` | `LoopSpec => []UpdatesOnlyWhileArmed` |
| `NoEarlyTimeout` | `TickLoopProofs` | `LoopSpec => TimeoutWithinMillisecond` |
| `NoEarlyAdvance` | `TickLoopProofs` | `LoopSpec => AdvanceNeverEarly` |
| `ServerTypeCorrect` | `GameServerProofs` | `ServerSpec => []ServerTypeOK` |
| `TimersAreNotLost` | `GameServerProofs` | `ServerSpec => []TimerNotLost` |
| `LobbiesStayQuiet` | `GameServerProofs` | `ServerSpec => []LobbyIsQuiet` |
| `WaitsAreLimited` | `GameServerProofs` | `ServerSpec => []ArmedWithinLimits` |
| `ServerQuestionsExist` | `GameServerProofs` | `ServerSpec => []QuestionInRange` |
| `ConnectionTypeCorrect` | `ConnectionsProofs` | `ConnectionSpec => []ConnectionTypeOK` |
| `GhostsAreAbandoned` | `ConnectionsProofs` | `ConnectionSpec => []NoGhosts` |
| `RegistryTellsTheTruth` | `ConnectionsProofs` | `ConnectionSpec => []RegistryIsCurrent` |
| `UndisputedAreReachable` | `ConnectionsProofs` | `ConnectionSpec => []SoleConnectionReachable` |
| `DeliveryTypeCorrect` | `DeliveryProofs` | `DeliverySpec => []DeliveryTypeOK` |
| `WritesOneByOne` | `DeliveryProofs` | `DeliverySpec => []OneWriteAtATime` |
| `DeliversAsMulticast` | `DeliveryProofs` | `DeliverySpec => ImplementsMulticast` (`Multicast`) |
| `DemoTypeCorrect` | `DemoProofs` | `DemoSpec => []DemoTypeOK` |
| `WakeUpsArrive` | `DemoProofs` | `DemoSpec => []NoLostWakeup` |
| `DummiesAreDropped` | `DemoProofs` | `DemoSpec => []DummyNeverRuns` |
| `UsesManager` | `DemoProofs` | `DemoSpec => ManagerSpec` |
| `DemoQuestionsExist` | `DemoProofs` | `DemoSpec => []QuestionInRange` |
| `DemoScoresAddUp` | `DemoProofs` | `DemoSpec => []ScoreIsSumOfAnswers` |
| `RightIsPermutation` | `ScoringProofs` | `CasesSpec => []CorrectIffPermutation` |
| `FasterNeverEarnsLess` | `ScoringProofs` | `CasesSpec => []FasterEarnsMore` |
| `PointsStayInRange` | `ScoringProofs` | `CasesSpec => []PointsInRange` |

### The session manager

*The inductive invariant* `IInv` is `TypeOK`, `QuizzesValid` and
`QuestionInRange` together. `TypeOK` alone is not inductive: `StartGame` and
`NextQuestion` compute a deadline from the time limit of a question, which is
an instant only if the question exists (`QuestionInRange`: the index fits the
state) and its limit is positive (`QuizzesValid`: `Validate` was passed when
the quiz was stored). `QuestionInRange` in turn needs that a stored quiz has a
question. The proof has one lemma per operation of `session.cpp` (it keeps a
session well-formed) and one per action. Everything below rests on it.

*One answer per question* needs `AnswersAccounted`: an accepted answer belongs
to a game that has started and to a question up to the current one, and whoever
answered the current question carries the flag while the game runs. It is what
makes clearing the flags in `AdvanceToNextQuestion` safe: the index moves on in
the same step. `StepKinds` reduces every step to one of four kinds (a session
moves on, one appears, an answer is accepted, nothing happens to sessions), on
which that invariant, `NoWayBack` and the sums are proved.

*The scores* (`SInv`) add up because the step that credits an answer also enters
it in the ledger, and players only join a lobby, where no answer has been
accepted yet, so that nobody comes back to answers of an earlier stay. The sum
over a set is a fold of the community modules, a recursive function: that it
exists, that its value on a set does not depend on the set it was defined over,
and that it grows by a new element's points are lemmas (`SumExists`, `SumAgrees`,
`TotalFacts`) by induction on the cardinality. The library's induction theorems
take an operator as a parameter and cannot be used here; `NaturalInduction` is
induction over a set of naturals instead, from the fact that they are
well-founded. `From` of `Delivery`, another recursive function, is treated alike.

*The final standings* (`FInv`): at most one final event of a session is formed,
pending on one thread or sent; it exists only when the state is *Finished*, and
its board agrees with the scores of those still in the session, because none
changes any more.

*The refinement* (`GInv`): a lobby has nobody marked as having answered, and the
stored quizzes are among those clients submit, so the number of questions is one
`QuizGame` knows. Each operation is one move, everything else a stutter.

*The cleanup* rests on `cleanup.now <= now`, a conjunct of `TypeOK`: a clock
reading carried across steps is never ahead.

### The timers

`TickLoop` needs no more than its two invariants together (`LoopInv`); the type
invariant includes that the reading a `Tick` works with is not from the future.

*The server* (`ServerInv`) adds to `IInv` an account of who holds the next move
of a running game (`Moving`). It asks more than `TimerNotLost`: a timeout in the
tick handler's hands counts only while something is to come of it, and where no
automatic advance is to come, the announcement must be of the question the game
is at. Every step passes that account on: whoever clears the timers is itself a
call under way, `AdvanceGame` is followed by the fetch and the arming of a
deadline that is there (`Deadlined`), and a refused advance finds a session that
does not run. `QuietLobby` adds to `LobbyIsQuiet` that no call is on its way to
arm a lobby's timer.

### The connections and the delivery

`CInv` ties a handler in progress to identities, registry and presence. Whoever
is online, not abandoned and not nameless has a connection that is read from and
holds the identity, or is about to register it, or to report its end (`Spoken`).
An identity nobody disputes is held by one connection (`Sole`), online until that
leaves or breaks and registered as soon as it is taken (`Attached`). What a
connection leaves as need not be its own, but what is its own and not left is
abandoned in the same step. Each step is one of six kinds
(`Begins`, `Takes`, `Leaves`, `Drops`, `Breaks`, `Tells`) or leaves all this
alone, and each kind keeps each part.

In `Delivery` the inductive invariant (`DInv`) bounds what a sender may still
form by the room it has claimed (`SendersKeepBounds`), and ties a writer's calls
in flight to `writing` and its queue (`WritersInStep`). For the refinement, what
is under way from a sender to a connection is what the queue holds, what is
posted and what the task still has to send, in that order (`Underway`); each
step moves a message along or takes the head off.

### The demo and the scores

`DInv` of `DemoProofs` follows each command from the client that pushes it
through the queue into the worker: a command that is run names a game whose
promise was kept, so a step of the demo is a step of the manager
(`UsesManager`), and what is proved of the manager holds in the demo. It
also has the awake worker of `NoLostWakeup`, and that `stop` stays set once a
dummy was handed out.

That two vectors in which every value occurs equally often are permutations of
one another is `EquallyOftenIsPermuted`: the places of each value are paired
off, the pairings together are one to one, and a one-to-one function from a
finite set to itself is onto.

### What the proofs changed

- An earlier property, that a stale deadline is never later than the limit of
  the *current* question allows, was true only because the instance had its
  limits in ascending order; after a long question a short one is given more
  time. `ArmedWithinLimits` is what does hold, and the safety run has the limits
  in both orders.
- Two guards of a `CASE` in `TickBroadcasts` could hold at once; now they
  exclude one another like the branches of `main.cpp:89-97`.
- `contested` counts identities a connection joins or leaves as, not only those it
  returns as: the invariant needs to know of every identity that two connections
  have held, or one of them has given away for the other.
- The points of an answer given long before the question started do not fit an
  `int`: `FasterEarnsMore` and `CorrectIffPermutation` cannot be proved without
  `PointsFit`.

### Only model-checked

Every liveness property (`GoneAreRemoved`, `EveryTimerEnds`,
`AutoAdvanceFinishes`, `EveryQuestionExpires`, `TimersEndWithGame`,
`SentIsWritten`, `DemoEnds`): fairness and ENABLED are outside the prover's
reach. And `AnswersAreOfPlayers` of the demo, for which `DInv` would have to
follow every answer from the client that looked at the session; the instance has
one game, in which the two joins that matter, before and after the start, both
occur. The three runs that end in a violation have nothing to prove.

## 5. What is not modelled, and why

- **JSON protocol**: what a message is parsed to is the models' input, with what
  the parser lets through unchecked (late answers, unknown ids). Texts are not
  looked at. **WebSocket server**: opening and closing the acceptor is I/O; its
  accept loop is in `Connections`.
- **Shutdown** by signal and the lifetime of objects: `ioc.stop()` drops whatever
  is queued; the models end there. The start of the thread pool.
- Timers beside connections: `GameServer` has the timers and no connections,
  `Connections` the connections and no timers. They meet in the session only,
  which both compose with `SessionManager`.
- **Session storage port**: an interface nothing implements.
- **Client**: a window without logic.
- Texts, names, roles, formatting of events, and the order of a leaderboard
  (scores and ids determine it).

## 6. Plan

Every component with logic is modelled, and every safety property but
`AnswersAreOfPlayers` and both refinements are proved. What is left, beside the
proof of that one:

1. What is proved of the manager's answers, scores and final standings, under the
   controller, the tick handler and the connections too. `GameServer` and
   `Connections` are not behaviours of `ManagerSpec` to the letter, because two
   of its bounds are narrower: its clock stops at the sessions' own instants,
   while theirs runs on for the timers', and only `Droppers` disconnect. The
   lemmas of `SessionManagerSafety` have to be stated for any instants and any
   player first, as those of `SessionManagerProofs` are.
2. The timer's own properties under `GameServer`: that `last_updates_` does not
   leak there either.
3. The step lemmas of the liveness arguments (what every step decreases), as far
   as they are state properties.

To model, if the code grows there: destruction order at shutdown, and the
parser's conversions once they check what they read.
