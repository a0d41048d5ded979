----------------------------- MODULE GameServer -----------------------------
(***************************************************************************)
(* The server at work: server/network/game_controller.cpp ties the         *)
(* SessionManager to the SessionTimerService, worker threads run the       *)
(* commands of the clients, and the tick handler of server/main.cpp runs   *)
(* on one thread at a time.                                                *)
(*                                                                         *)
(* The controller takes no lock of its own: every call it makes is a step  *)
(* of its own, and "call" holds what a thread has read and not yet used.   *)
(***************************************************************************)
EXTENDS SessionManager

CONSTANTS
  Ticker,          \* the thread that runs the tick handler
  UpdateInterval   \* TimerIntervalMs of main.cpp

ASSUME ServerAssumption == Ticker \in Threads /\ UpdateInterval \in Nat

VARIABLES
  deadlines, last_updates, auto_advance_deadlines,  \* SessionTimerService
  call,      \* per thread, the StartGame or NextQuestion of the controller it is in
  ticker,    \* the tick handler: its stage, clock reading, and events left
  timeouts   \* history: QuestionTimeouts sent, counted per session and question

Timer == INSTANCE SessionTimerService
           WITH TimedSessions <- 1..MaxSessions, TicksPerMs <- 1

timerVars == <<deadlines, last_updates, auto_advance_deadlines>>
serverVars == <<managerVars, timerVars, call, ticker, timeouts>>

Workers == Threads \ {Ticker}

Idle == [stage |-> "idle", session |-> 0, deadline |-> 0]
At(stage, s, deadline) == [stage |-> stage, session |-> s, deadline |-> deadline]

Resting == [stage |-> "rest", at |-> 0, events |-> {}, session |-> 0]

ServerInit ==
  /\ ManagerInit
  /\ Timer!TimerInit
  /\ call = [t \in Threads |-> Idle]
  /\ ticker = Resting
  /\ timeouts = Timer!Nothing

Goes(t, c) == call' = [call EXCEPT ![t] = c]

(* The thread has sent what it had to send and is in no controller call.   *)
Available(t) == call[t] = Idle /\ Free(t)

-----------------------------------------------------------------------------
(* GameController                                                          *)

(* The commands it passes on to the SessionManager and nothing else.       *)
PlainCommand(t) ==
  /\ t \in Workers /\ Available(t)
  /\ \/ \E code \in DOMAIN quizzes, host \in PlayerIds, pin \in Pins, delay \in Delays :
          CreateSession(t, code, host, pin, delay)
     \/ \E s \in Sids, id \in PlayerIds :
          \/ \E pin \in Pins : JoinAsPlayer(t, s, pin, id)
          \/ Leave(t, s, id)
          \/ \E answer \in Answers : SubmitAnswer(t, s, id, answer)
  /\ UNCHANGED <<timerVars, call, ticker, timeouts>>

(* StartGame: the manager's, which broadcasts; then the deadline is read   *)
(* back and armed, as after NextQuestion.                                  *)
ControllerStart(t, s) ==
  /\ t \in Workers /\ Available(t)
  /\ StartGame(t, s)
  /\ Goes(t, At("fetch", s, 0))
  /\ UNCHANGED <<timerVars, ticker, timeouts>>

(* NextQuestion, first step: the timers of the session are dropped.        *)
ClearTimers(t, s) ==
  /\ Available(t)
  /\ Timer!ClearDeadline(s)
  /\ Goes(t, At("advance", s, 0))
  /\ UNCHANGED <<managerVars, timeouts>>

ControllerNext(t, s) == t \in Workers /\ ClearTimers(t, s) /\ UNCHANGED ticker

(* Mutant: the deadline is fetched and armed after a refusal as well.    *)
AdvanceRefusedArms(t) ==
  LET s == call[t].session
  IN  /\ call[t].stage = "advance"
      /\ \/ NextQuestion(t, s)
         \/ ~CanAdvance(sessions[s]) /\ UNCHANGED managerVars
      /\ Goes(t, At("fetch", s, 0))
      /\ UNCHANGED <<timerVars, ticker, timeouts>>

(* Second step: the manager advances the game, or refuses.                 *)
AdvanceGame(t) ==
  LET s == call[t].session
  IN  /\ call[t].stage = "advance"
      /\ \/ /\ NextQuestion(t, s)
            /\ Goes(t, At("fetch", s, 0))
         \/ /\ ~CanAdvance(sessions[s])
            /\ Goes(t, Idle)
            /\ UNCHANGED managerVars
      /\ UNCHANGED <<timerVars, ticker, timeouts>>

(* Mutant: a deadline already past is not armed.                         *)
FetchFutureOnly(t) ==
  LET s == call[t].session
  IN  /\ call[t].stage = "fetch" /\ Free(t)
      /\ Goes(t, IF sessions[s].question_deadline > now
                 THEN At("arm", s, sessions[s].question_deadline) ELSE Idle)
      /\ UNCHANGED <<managerVars, timerVars, ticker, timeouts>>

(* GetSessionById returns a copy: the deadline may be old when it is used. *)
FetchDeadline(t) ==
  LET s == call[t].session
  IN  /\ call[t].stage = "fetch" /\ Free(t)
      /\ Goes(t, IF sessions[s].has_question_deadline
                 THEN At("arm", s, sessions[s].question_deadline) ELSE Idle)
      /\ UNCHANGED <<managerVars, timerVars, ticker, timeouts>>

ArmTimer(t) ==
  /\ call[t].stage = "arm"
  /\ Timer!SetDeadline(call[t].session, call[t].deadline)
  /\ Goes(t, Idle)
  /\ UNCHANGED <<managerVars, ticker, timeouts>>

SendEvent(t) ==
  Broadcast(t) /\ UNCHANGED <<timerVars, call, ticker, timeouts>>

CallStep(t) == AdvanceGame(t) \/ FetchDeadline(t) \/ ArmTimer(t) \/ SendEvent(t)

-----------------------------------------------------------------------------
(* The tick handler                                                        *)

TickerAt(stage) == ticker.stage = stage /\ Available(Ticker)

TickReadsClock ==
  /\ TickerAt("rest")
  /\ ticker' = [ticker EXCEPT !.stage = "clock", !.at = now]
  /\ UNCHANGED <<managerVars, timerVars, call, timeouts>>

TickUnderLock ==
  /\ TickerAt("clock")
  /\ Timer!Tick(ticker.at)
  /\ ticker' = [ticker EXCEPT !.stage = "events", !.at = 0,
                              !.events = Timer!TickEvents(ticker.at)]
  /\ UNCHANGED <<managerVars, call, timeouts>>

(* The event next in the vector is broadcast; then main.cpp goes by its    *)
(* type: "auto" for an expired question, "next" for an automatic advance.  *)
TickBroadcasts(e) ==
  LET key == <<e.session, sessions[e.session].current_question_index>>
      sent == IF key \in DOMAIN timeouts THEN timeouts[key] ELSE 0
  IN  /\ TickerAt("events")
      /\ e \in ticker.events
      /\ e.type = "AutoAdvance" =>
           \A f \in ticker.events : f.type = "AutoAdvance"
      /\ timeouts' = IF e.event = "QuestionTimeout"
                     THEN Timer!Put(timeouts, key, sent + 1) ELSE timeouts
      /\ ticker' = [ticker EXCEPT
                      !.events = @ \ {e},
                      !.session = IF e.event = "QuestionTimeout" THEN e.session ELSE 0,
                      !.stage = CASE e.type = "AutoAdvance" -> "next"
                                  [] e.type = "QuestionDeadline"
                                       /\ e.event = "QuestionTimeout" -> "auto"
                                  [] OTHER -> "events"]
      /\ UNCHANGED <<managerVars, timerVars, call>>

ToSet(deadline) == [ticker EXCEPT !.stage = "set", !.at = deadline]

Handled == [ticker EXCEPT !.stage = "events", !.at = 0, !.session = 0]

Delay == sessions[ticker.session].auto_advance_delay_ms

(* Mutant: a delay that is off is set as well.                           *)
TickTakesAnyDelay ==
  /\ TickerAt("auto")
  /\ ticker' = ToSet(now + Delay)
  /\ UNCHANGED <<managerVars, timerVars, call, timeouts>>

(* Mutant: the shortest delay counts as off.                             *)
TickSkipsShortDelay ==
  /\ TickerAt("auto")
  /\ ticker' = IF Delay > 1 THEN ToSet(now + Delay) ELSE Handled
  /\ UNCHANGED <<managerVars, timerVars, call, timeouts>>

(* A copy of the session is taken for its delay, which never changes, and  *)
(* the clock is read; then the deadline is set, under the timers' lock.    *)
TickReadsDelay ==
  /\ TickerAt("auto")
  /\ ticker' = IF Delay > 0 THEN ToSet(now + Delay) ELSE Handled
  /\ UNCHANGED <<managerVars, timerVars, call, timeouts>>

TickSetsAutoAdvance ==
  /\ TickerAt("set")
  /\ Timer!SetAutoAdvanceDeadline(ticker.session, ticker.at)
  /\ ticker' = Handled
  /\ UNCHANGED <<managerVars, call, timeouts>>

(* game_controller.NextQuestion, the remaining steps by CallStep(Ticker).  *)
TickAdvances ==
  /\ TickerAt("next")
  /\ ClearTimers(Ticker, ticker.session)
  /\ ticker' = [ticker EXCEPT !.stage = "events", !.session = 0]

(* After the last event every tick cleans up and re-arms itself.           *)
TickCleansUp ==
  \/ /\ TickerAt("events") /\ ticker.events = {}
     /\ CleanupBegin
     /\ ticker' = [ticker EXCEPT !.stage = "cleanup"]
     /\ UNCHANGED <<timerVars, call, timeouts>>
  \/ /\ TickerAt("cleanup")
     /\ CleanupStep
     /\ ticker' = IF cleanup'.stage = "off" THEN Resting ELSE ticker
     /\ UNCHANGED <<timerVars, call, timeouts>>

TickerStep ==
  \/ TickReadsClock
  \/ TickUnderLock
  \/ \E e \in ticker.events : TickBroadcasts(e)
  \/ TickReadsDelay
  \/ TickSetsAutoAdvance
  \/ TickAdvances
  \/ TickCleansUp

-----------------------------------------------------------------------------
(* Handlers that touch the manager in one step and send nothing.           *)
SilentCommand ==
  /\ \/ \E quiz \in QuizDrafts : StoreQuiz(quiz)
     \/ \E s \in Sids, id \in Droppers : Disconnect(s, id) \/ Reconnect(s, id)
  /\ UNCHANGED <<timerVars, call, ticker, timeouts>>

Values(f) == {f[k] : k \in DOMAIN f}

ClockRuns ==
  /\ TimePasses(SessionInstants \cup Values(deadlines) \cup Values(auto_advance_deadlines))
  /\ UNCHANGED <<timerVars, call, ticker, timeouts>>

ServerNext ==
  \/ \E t \in Threads :
       \/ PlainCommand(t)
       \/ \E s \in Sids : ControllerStart(t, s) \/ ControllerNext(t, s)
       \/ CallStep(t)
  \/ TickerStep
  \/ SilentCommand
  \/ ClockRuns

ServerSpec == ServerInit /\ [][ServerNext]_serverVars

(* A call begun runs to its end, the tick handler always re-arms itself,   *)
(* the clock runs; clients owe nothing.                                    *)
ServerFairSpec ==
  /\ ServerSpec
  /\ \A t \in Threads : WF_serverVars(CallStep(t))
  /\ WF_serverVars(TickerStep)
  /\ WF_serverVars(ClockRuns)

-----------------------------------------------------------------------------
(* Properties                                                              *)

InstantMap(f) == DOMAIN f \subseteq Sids /\ \A s \in DOMAIN f : f[s] \in Nat

(* The variables this module adds hold what the code's types allow.        *)
ServerTypeOK ==
  /\ InstantMap(deadlines) /\ InstantMap(last_updates) /\ InstantMap(auto_advance_deadlines)
  /\ call \in [Threads -> [stage : {"idle", "advance", "fetch", "arm"},
                           session : 0..Len(sessions), deadline : Nat]]
  /\ ticker.stage \in {"rest", "clock", "events", "auto", "set", "next", "cleanup"}
  /\ ticker.at \in Nat
  /\ ticker.session \in 0..Len(sessions)
  /\ \A e \in ticker.events : e.session \in Sids
  /\ \A k \in DOMAIN timeouts : k[1] \in Sids /\ timeouts[k] \in Nat \ {0}

Running(s) == sessions[s].state = "Running"

(* A thread is on its way to arm the timer of s.                           *)
BeingArmed(s) == \E t \in Threads : call[t] # Idle /\ call[t].session = s

(* The tick handler holds a timeout of s it has not finished with.         *)
InTickersHands(s) ==
  \/ ticker.stage \in {"auto", "set", "next"} /\ ticker.session = s
  \/ \E e \in ticker.events : e.session = s /\ e.event = "QuestionTimeout"

(* A running game is never left without what will move it on: however      *)
(* commands and ticks race between ClearDeadline and SetDeadline, either   *)
(* the timer is armed, or somebody is about to arm it, or the timeout is   *)
(* being handled, or the automatic advance is set; a session without one   *)
(* (delay 0) was told of the timeout of the question it is at.             *)
TimerNotLost ==
  \A s \in Sids : Running(s) =>
    \/ s \in DOMAIN deadlines
    \/ BeingArmed(s)
    \/ InTickersHands(s)
    \/ /\ sessions[s].auto_advance_delay_ms > 0
       /\ s \in DOMAIN auto_advance_deadlines
    \/ /\ sessions[s].auto_advance_delay_ms <= 0
       /\ <<s, sessions[s].current_question_index>> \in DOMAIN timeouts

(* No timer runs, and no timeout is sent, for a game not started yet; a    *)
(* stale NextQuestion that reached the lobby leaves nothing behind.        *)
LobbyIsQuiet ==
  \A s \in Sids : sessions[s].state = "Lobby" =>
    /\ s \notin DOMAIN deadlines \cup DOMAIN auto_advance_deadlines
    /\ ~InTickersHands(s)
    /\ \A k \in DOMAIN timeouts : k[1] # s

(* An instant within the time limit of a question the session has come to, *)
(* were that question put now.                                             *)
WithinLimits(s, deadline) ==
  \E i \in DOMAIN QuestionsOf(s) :
    /\ i <= sessions[s].current_question_index + 1
    /\ deadline <= now + QuestionsOf(s)[i].time_limit_ms

(* The deadline a controller arms is a copy that a later advance may have  *)
(* outdated, and it replaces the one in force.  Stale or not, nobody waits *)
(* longer for a timeout than the longest question put so far allows.       *)
ArmedWithinLimits ==
  \A s \in Sids :
    /\ s \in DOMAIN deadlines => WithinLimits(s, deadlines[s])
    /\ \A t \in Threads : call[t].stage = "arm" /\ call[t].session = s =>
         WithinLimits(s, call[t].deadline)

(* With automatic advance a game that has started is played to its end,    *)
(* whether or not the host ever acts and whatever the races between host   *)
(* and ticker.                                                             *)
Game(s) == s \in Sids /\ Running(s)

AutoAdvanceFinishes ==
  \A s \in 1..MaxSessions :
    Game(s) /\ sessions[s].auto_advance_delay_ms > 0
      ~> s \in Sids /\ sessions[s].state = "Finished"

(* Every question that is not advanced past is announced as timed out.     *)
AtQuestion(s, i) == Game(s) /\ sessions[s].current_question_index = i

QuestionIndices == UNION {0..(Len(quiz.questions) - 1) : quiz \in QuizDrafts}

EveryQuestionExpires ==
  \A s \in 1..MaxSessions, i \in QuestionIndices :
    AtQuestion(s, i) ~> (~AtQuestion(s, i) \/ <<s, i>> \in DOMAIN timeouts)

(* Once a game is over its timers fall silent for good.  The NextQuestion  *)
(* that ends a game arms the old deadline once more, and that one timeout  *)
(* may set an automatic advance; but a refused NextQuestion arms nothing,  *)
(* so the two cannot keep each other alive.                                *)
TimersEndWithGame ==
  \A s \in 1..MaxSessions :
    <>[](s \in Sids /\ sessions[s].state = "Finished" =>
           s \notin DOMAIN deadlines \cup DOMAIN auto_advance_deadlines)

-----------------------------------------------------------------------------
(* What the documents say and the code does not do (see the findings).     *)

(* docs/about.md:11 and 23: a question has its time to answer, and the     *)
(* server's deadline decides.  The ticker does not move on from a question *)
(* whose deadline has not passed.                                          *)
TickerWaitsForDeadline ==
  [][\A s \in Sids :
       /\ call[Ticker].stage = "advance" /\ call'[Ticker].stage = "fetch"
       /\ call[Ticker].session = s
       => sessions[s].question_deadline <= now]_serverVars
=============================================================================
