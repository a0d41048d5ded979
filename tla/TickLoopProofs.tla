--------------------------- MODULE TickLoopProofs ---------------------------
(***************************************************************************)
(* What SessionTimerService promises for any sessions, any resolution of   *)
(* the clock and any update interval, whatever the workers do between the  *)
(* clock reading of a Tick and its lock.                                   *)
(***************************************************************************)
EXTENDS TickLoop, TLAPS

-----------------------------------------------------------------------------
(* The operations on the maps, and the arithmetic of the millisecond.      *)

(* A map of instants stays one when an instant is put into it.             *)
LEMMA PutInstant ==
  ASSUME NEW map, IsInstantMap(map), NEW s \in TimedSessions, NEW d \in 0..MaxTime
  PROVE  IsInstantMap(Put(map, s, d))
BY DEF Put, IsInstantMap

(* A map of instants stays one when keys are erased from it.               *)
LEMMA EraseInstants ==
  ASSUME NEW map, IsInstantMap(map), NEW keys
  PROVE  IsInstantMap(Erase(map, keys))
BY DEF Erase, IsInstantMap

(* A quotient that is not positive leaves less than the divisor.           *)
LEMMA LessThanDivisor ==
  ASSUME NEW d \in Nat, NEW t \in Nat \ {0}, d \div t <= 0
  PROVE  d < t
<1>1. /\ d \div t \in Int /\ d % t \in 0..(t - 1)
      /\ d = t * (d \div t) + (d % t)
  OBVIOUS
<1>2. d \div t >= 0
  BY Z3
<1> QED
  BY <1>1, <1>2

(* The truncation to whole milliseconds: a time that is not positive in    *)
(* milliseconds is shorter than a millisecond.                             *)
LEMMA NotAMillisecond ==
  ASSUME NEW ticks \in Int, InMs(ticks) <= 0
  PROVE  ticks < TicksPerMs
<1>1. CASE ticks >= 0
  BY <1>1, LessThanDivisor, TimerAssumption DEF InMs
<1>2. CASE ticks < 0
  BY <1>2, TimerAssumption
<1> QED
  BY <1>1, <1>2

-----------------------------------------------------------------------------
(* The inductive invariant.                                                *)

LoopInv == LoopTypeOK /\ UpdatesOnlyWhileArmed

(* A Tick takes the sessions due out of the deadlines and remembers of     *)
(* them, and of no other session, that they were told nothing.             *)
LEMMA TickFacts ==
  ASSUME NEW at, Tick(at)
  PROVE  /\ DOMAIN deadlines' = DOMAIN deadlines \ Expired(at)
         /\ \A s \in DOMAIN deadlines' : deadlines'[s] = deadlines[s]
         /\ DOMAIN auto_advance_deadlines' = DOMAIN auto_advance_deadlines \ AutoDue(at)
         /\ \A s \in DOMAIN auto_advance_deadlines' :
              auto_advance_deadlines'[s] = auto_advance_deadlines[s]
         /\ DOMAIN last_updates' = (DOMAIN last_updates \cup UpdateDue(at)) \ Expired(at)
         /\ \A s \in DOMAIN last_updates' :
              last_updates'[s] = IF s \in UpdateDue(at) THEN at ELSE last_updates[s]
         /\ UpdateDue(at) \subseteq DOMAIN deadlines
<1>1. /\ deadlines' = Erase(deadlines, Expired(at))
      /\ auto_advance_deadlines' = Erase(auto_advance_deadlines, AutoDue(at))
      /\ last_updates' =
           [s \in (DOMAIN last_updates \cup UpdateDue(at)) \ Expired(at) |->
              IF s \in UpdateDue(at) THEN at ELSE last_updates[s]]
  BY DEF Tick
<1>2. UpdateDue(at) \subseteq DOMAIN deadlines
  BY DEF UpdateDue
<1>3. /\ DOMAIN deadlines' = DOMAIN deadlines \ Expired(at)
      /\ \A s \in DOMAIN deadlines' : deadlines'[s] = deadlines[s]
  BY <1>1 DEF Erase
<1>4. /\ DOMAIN auto_advance_deadlines' = DOMAIN auto_advance_deadlines \ AutoDue(at)
      /\ \A s \in DOMAIN auto_advance_deadlines' :
           auto_advance_deadlines'[s] = auto_advance_deadlines[s]
  BY <1>1 DEF Erase
<1> QED
  BY <1>1, <1>2, <1>3, <1>4

(* The invariant holds before anything is set.                             *)
LEMMA LoopInitInv == LoopInit => LoopInv
BY LoopAssumption
DEF LoopInit, TimerInit, Nothing, Resting, LoopInv, LoopTypeOK, IsInstantMap, UpdatesOnlyWhileArmed

(* Every step keeps it: what the workers clear they clear in all three     *)
(* maps, and what a Tick erases it erases in the deadlines and the updates.*)
LEMMA LoopNextInv == LoopInv /\ [LoopNext]_loopVars => LoopInv'
<1> SUFFICES ASSUME LoopInv, [LoopNext]_loopVars
             PROVE  LoopInv'
  OBVIOUS
<1> USE LoopAssumption DEF LoopInv, LoopTypeOK, UpdatesOnlyWhileArmed
<1>1. ASSUME NEW s \in TimedSessions, NEW d \in 1..MaxTime, SetDeadline(s, d),
             UNCHANGED <<now, tick>>
      PROVE  LoopInv'
  <2>1. IsInstantMap(deadlines')
    BY <1>1, PutInstant DEF SetDeadline
  <2>2. DOMAIN deadlines' = DOMAIN deadlines \cup {s}
    BY <1>1 DEF SetDeadline, Put
  <2> QED
    BY <1>1, <2>1, <2>2 DEF SetDeadline, IsInstantMap
<1>2. ASSUME NEW s \in TimedSessions, NEW d \in 1..MaxTime, SetAutoAdvanceDeadline(s, d),
             UNCHANGED <<now, tick>>
      PROVE  LoopInv'
  <2>1. IsInstantMap(auto_advance_deadlines')
    BY <1>2, PutInstant DEF SetAutoAdvanceDeadline
  <2> QED
    BY <1>2, <2>1 DEF SetAutoAdvanceDeadline, IsInstantMap
<1>3. ASSUME NEW s \in TimedSessions, ClearDeadline(s), UNCHANGED <<now, tick>>
      PROVE  LoopInv'
  <2>1. /\ IsInstantMap(deadlines') /\ IsInstantMap(last_updates')
        /\ IsInstantMap(auto_advance_deadlines')
    BY <1>3, EraseInstants DEF ClearDeadline
  <2>2. /\ DOMAIN deadlines' = DOMAIN deadlines \ {s}
        /\ DOMAIN last_updates' = DOMAIN last_updates \ {s}
        /\ \A k \in DOMAIN last_updates' : last_updates'[k] = last_updates[k]
    BY <1>3 DEF ClearDeadline, Erase
  <2> QED
    BY <1>3, <2>1, <2>2
<1>4. CASE ReadClock
  BY <1>4 DEF ReadClock, timerVars, IsInstantMap
<1>5. CASE TickUnderLock
  <2>1. tick.at \in 0..now /\ now' = now /\ tick' = Resting
    BY <1>5 DEF TickUnderLock
  <2>2. Tick(tick.at)
    BY <1>5 DEF TickUnderLock
  <2>3. IsInstantMap(deadlines') /\ IsInstantMap(auto_advance_deadlines')
    BY <2>2, EraseInstants DEF Tick
  <2>4. IsInstantMap(last_updates') /\ \A s \in DOMAIN last_updates' : last_updates'[s] <= now
    <3> DEFINE due == UpdateDue(tick.at)
    <3>1. /\ DOMAIN last_updates' \subseteq DOMAIN last_updates \cup due
          /\ \A s \in DOMAIN last_updates' :
               last_updates'[s] = IF s \in due THEN tick.at ELSE last_updates[s]
          /\ due \subseteq DOMAIN deadlines
      BY <2>2, TickFacts
    <3> HIDE DEF due
    <3> QED
      BY <2>1, <3>1 DEF IsInstantMap
  <2>5. DOMAIN last_updates' \subseteq DOMAIN deadlines'
    BY <2>2, TickFacts
  <2> QED
    BY <2>1, <2>3, <2>4, <2>5 DEF Resting
<1>6. CASE ClockTicks
  BY <1>6 DEF ClockTicks, timerVars, IsInstantMap
<1>7. CASE UNCHANGED loopVars
  BY <1>7 DEF loopVars, IsInstantMap
<1> QED
  BY <1>1, <1>2, <1>3, <1>4, <1>5, <1>6, <1>7 DEF LoopNext, Workers

(* The invariant holds in every state of the loop.                         *)
LEMMA AlwaysLoopInv == LoopSpec => []LoopInv
BY LoopInitInv, LoopNextInv, PTL DEF LoopSpec

-----------------------------------------------------------------------------
(* The deadlines, the last updates and the automatic advances are maps of  *)
(* instants; no Tick works with a reading from the future.                 *)
THEOREM LoopTypeCorrect == LoopSpec => []LoopTypeOK
<1>1. LoopInv => LoopTypeOK
  BY DEF LoopInv
<1> QED
  BY <1>1, AlwaysLoopInv, PTL

(* last_updates_ remembers no session whose question timer is not running: *)
(* it does not grow with the games that are over.                          *)
THEOREM UpdatesDoNotLeak == LoopSpec => []UpdatesOnlyWhileArmed
<1>1. LoopInv => UpdatesOnlyWhileArmed
  BY DEF LoopInv
<1> QED
  BY <1>1, AlwaysLoopInv, PTL

(* Only the locked half of Tick ends a Tick, at an instant not later than  *)
(* the present.                                                            *)
LEMMA TickEnds ==
  ASSUME LoopInv, [LoopNext]_loopVars, tick.running, ~tick'.running
  PROVE  Tick(tick.at) /\ tick.at \in 0..now
<1>1. TickUnderLock
  BY DEF LoopNext, loopVars, Workers, ReadClock, ClockTicks
<1> QED
  BY <1>1 DEF TickUnderLock, LoopInv, LoopTypeOK

(* No question is timed out a millisecond or more before its deadline, by  *)
(* whatever deadline a worker has set since Tick read the clock.           *)
THEOREM NoEarlyTimeout == LoopSpec => TimeoutWithinMillisecond
<1>1. ASSUME LoopInv, [LoopNext]_loopVars
      PROVE  \A s \in TimedOutBy(tick.running /\ ~tick'.running) : deadlines[s] - now < TicksPerMs
  <2> SUFFICES ASSUME NEW s \in TimedOutBy(tick.running /\ ~tick'.running)
               PROVE  deadlines[s] - now < TicksPerMs
    OBVIOUS
  <2>1. tick.running /\ ~tick'.running /\ s \in DOMAIN deadlines \ DOMAIN deadlines'
    BY <1>1 DEF TimedOutBy
  <2>2. Tick(tick.at) /\ tick.at \in 0..now
    BY <1>1, <2>1, TickEnds
  <2>3. s \in Expired(tick.at)
    BY <2>1, <2>2, TickFacts
  <2>4. deadlines[s] \in Int /\ now \in Int
    BY <1>1, <2>1, LoopAssumption DEF LoopInv, LoopTypeOK, IsInstantMap
  <2>5. deadlines[s] - tick.at < TicksPerMs
    BY <2>2, <2>3, <2>4, NotAMillisecond DEF Expired, Remaining
  <2> QED
    BY <2>2, <2>4, <2>5, TimerAssumption
<1> QED
  BY <1>1, AlwaysLoopInv, PTL DEF LoopSpec, TimeoutWithinMillisecond

(* No automatic advance is taken before its time.                          *)
THEOREM NoEarlyAdvance == LoopSpec => AdvanceNeverEarly
<1>1. ASSUME LoopInv, [LoopNext]_loopVars
      PROVE  \A s \in DOMAIN auto_advance_deadlines \ DOMAIN auto_advance_deadlines' :
               tick.running /\ ~tick'.running => auto_advance_deadlines[s] <= now
  <2> SUFFICES ASSUME NEW s \in DOMAIN auto_advance_deadlines \ DOMAIN auto_advance_deadlines',
                      tick.running, ~tick'.running
               PROVE  auto_advance_deadlines[s] <= now
    OBVIOUS
  <2>1. Tick(tick.at) /\ tick.at \in 0..now
    BY <1>1, TickEnds
  <2>2. s \in AutoDue(tick.at)
    BY <1>1, <2>1, TickFacts
  <2>3. auto_advance_deadlines[s] \in Int /\ now \in Int
    BY <1>1, LoopAssumption DEF LoopInv, LoopTypeOK, IsInstantMap
  <2> QED
    BY <2>1, <2>2, <2>3 DEF AutoDue
<1> QED
  BY <1>1, AlwaysLoopInv, PTL DEF LoopSpec, AdvanceNeverEarly
=============================================================================
