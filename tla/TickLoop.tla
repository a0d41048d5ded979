------------------------------ MODULE TickLoop ------------------------------
(***************************************************************************)
(* SessionTimerService on its own: worker threads set and clear deadlines  *)
(* at any moment while one thread ticks (server/main.cpp, schedule_tick).  *)
(***************************************************************************)
EXTENDS SessionTimerService

CONSTANT MaxTime   \* bound: the latest deadline set, in clock ticks

ASSUME LoopAssumption == MaxTime \in Nat

VARIABLES
  now,   \* the steady clock, in clock ticks
  tick   \* the Tick in progress: has it read the clock, and what it read

loopVars == <<deadlines, last_updates, auto_advance_deadlines, now, tick>>

Resting == [running |-> FALSE, at |-> 0]

LoopInit == TimerInit /\ now = 0 /\ tick = Resting

Workers ==
  /\ \E s \in TimedSessions :
       \/ \E d \in 1..MaxTime : SetDeadline(s, d) \/ SetAutoAdvanceDeadline(s, d)
       \/ ClearDeadline(s)
  /\ UNCHANGED <<now, tick>>

(* const auto now = time_provider_.Now(), before the lock.                 *)
ReadClock ==
  /\ ~tick.running
  /\ tick' = [running |-> TRUE, at |-> now]
  /\ UNCHANGED <<timerVars, now>>

TickUnderLock ==
  /\ tick.running
  /\ Tick(tick.at)
  /\ tick' = Resting
  /\ UNCHANGED now

ClockTicks ==
  /\ now < MaxTime
  /\ now' = now + 1
  /\ UNCHANGED <<timerVars, tick>>

LoopNext == Workers \/ ReadClock \/ TickUnderLock \/ ClockTicks

(* Workers owe nothing; the tick handler re-arms itself, the clock runs.   *)
LoopSpec ==
  /\ LoopInit
  /\ [][LoopNext]_loopVars
  /\ WF_loopVars(ReadClock) /\ WF_loopVars(TickUnderLock) /\ WF_loopVars(ClockTicks)

-----------------------------------------------------------------------------
IsInstantMap(f) ==
  DOMAIN f \subseteq TimedSessions /\ \A s \in DOMAIN f : f[s] \in 0..MaxTime

(* The three maps hold instants of known sessions; no update was sent, and *)
(* no Tick read the clock, in the future.                                  *)
LoopTypeOK ==
  /\ IsInstantMap(deadlines)
  /\ IsInstantMap(last_updates)
  /\ \A s \in DOMAIN last_updates : last_updates[s] <= now
  /\ IsInstantMap(auto_advance_deadlines)
  /\ now \in 0..MaxTime
  /\ tick \in [running : BOOLEAN, at : 0..now]

(* last_updates_ does not leak: it only remembers sessions whose question  *)
(* timer is running, whichever of timeout, clearing and re-arming comes    *)
(* first.                                                                  *)
UpdatesOnlyWhileArmed == DOMAIN last_updates \subseteq DOMAIN deadlines

(* A session leaves the deadlines by a Tick only when its time is up to    *)
(* the millisecond, although Tick read the clock before the lock and       *)
(* workers may have re-armed the session since.                            *)
TimedOutBy(step) == IF step THEN DOMAIN deadlines \ DOMAIN deadlines' ELSE {}

TimeoutWithinMillisecond ==
  [][\A s \in TimedOutBy(tick.running /\ ~tick'.running) :
       deadlines[s] - now < TicksPerMs]_loopVars

(* The same for the automatic advance, which is compared exactly.          *)
AdvanceNeverEarly ==
  [][\A s \in DOMAIN auto_advance_deadlines \ DOMAIN auto_advance_deadlines' :
       tick.running /\ ~tick'.running => auto_advance_deadlines[s] <= now]_loopVars

(* A deadline set is acted on or withdrawn: no Tick loses one.             *)
EveryTimerEnds ==
  \A s \in TimedSessions :
    /\ s \in DOMAIN deadlines ~> s \notin DOMAIN deadlines
    /\ s \in DOMAIN auto_advance_deadlines ~> s \notin DOMAIN auto_advance_deadlines
=============================================================================
