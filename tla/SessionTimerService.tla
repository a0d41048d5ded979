------------------------ MODULE SessionTimerService ------------------------
(***************************************************************************)
(* server/services/session_timer_service.cpp: the deadlines of the running *)
(* questions and of the automatic advances, and the Tick that finds what   *)
(* is due.  The service's own mutex makes each operation one step, except  *)
(* that Tick reads the clock before it takes the mutex.                    *)
(*                                                                         *)
(* The clock runs finer than a millisecond: instants are counted in clock  *)
(* ticks, TicksPerMs to the millisecond.                                   *)
(***************************************************************************)
EXTENDS Integers

CONSTANTS
  TimedSessions,   \* the session ids the service may be given
  TicksPerMs,      \* clock ticks in a millisecond
  UpdateInterval   \* update_interval_, in milliseconds

ASSUME TimerAssumption == TicksPerMs \in Nat \ {0} /\ UpdateInterval \in Nat

VARIABLES
  deadlines,               \* deadlines_
  last_updates,            \* last_updates_
  auto_advance_deadlines   \* auto_advance_deadlines_

timerVars == <<deadlines, last_updates, auto_advance_deadlines>>

Nothing == [s \in {} |-> 0]

TimerInit ==
  /\ deadlines = Nothing
  /\ last_updates = Nothing
  /\ auto_advance_deadlines = Nothing

(* map[s] = v, and erase, on a std::unordered_map.                         *)
Put(map, s, v) == [k \in DOMAIN map \cup {s} |-> IF k = s THEN v ELSE map[k]]
Erase(map, keys) == [k \in DOMAIN map \ keys |-> map[k]]

-----------------------------------------------------------------------------
SetDeadline(s, deadline) ==
  /\ deadlines' = Put(deadlines, s, deadline)
  /\ UNCHANGED <<last_updates, auto_advance_deadlines>>

SetAutoAdvanceDeadline(s, deadline) ==
  /\ auto_advance_deadlines' = Put(auto_advance_deadlines, s, deadline)
  /\ UNCHANGED <<deadlines, last_updates>>

(* Mutant: the last update is kept.                                      *)
ClearKeepsUpdate(s) ==
  /\ deadlines' = Erase(deadlines, {s})
  /\ auto_advance_deadlines' = Erase(auto_advance_deadlines, {s})
  /\ UNCHANGED last_updates

ClearDeadline(s) ==
  /\ deadlines' = Erase(deadlines, {s})
  /\ last_updates' = Erase(last_updates, {s})
  /\ auto_advance_deadlines' = Erase(auto_advance_deadlines, {s})

(* duration_cast<milliseconds> cuts towards zero.                          *)
InMs(ticks) == IF ticks >= 0 THEN ticks \div TicksPerMs ELSE -((-ticks) \div TicksPerMs)

Remaining(s, at) == InMs(deadlines[s] - at)

(* Mutant: a millisecond too early.                                      *)
ExpiredEarly(at) == {s \in DOMAIN deadlines : Remaining(s, at) <= 1}

(* Mutant: only at the very instant.                                     *)
ExpiredExactly(at) == {s \in DOMAIN deadlines : Remaining(s, at) = 0}

Expired(at) == {s \in DOMAIN deadlines : Remaining(s, at) <= 0}

UpdateDue(at) ==
  {s \in DOMAIN deadlines \ Expired(at) :
     s \in DOMAIN last_updates => at - last_updates[s] >= UpdateInterval * TicksPerMs}

(* Mutant: compared in whole milliseconds.                               *)
AutoDueInMs(at) ==
  {s \in DOMAIN auto_advance_deadlines : InMs(auto_advance_deadlines[s] - at) <= 0}

AutoDue(at) == {s \in DOMAIN auto_advance_deadlines : at >= auto_advance_deadlines[s]}

(* The TimerEvents a Tick at the instant "at" returns.  Those of the       *)
(* question deadlines come first in the vector, the order within a kind is *)
(* that of a hash map.                                                     *)
Timeouts(at) == [type : {"QuestionDeadline"}, event : {"QuestionTimeout"}, session : Expired(at)]
Updates(at)  == [type : {"QuestionDeadline"}, event : {"TimerUpdate"}, session : UpdateDue(at)]
Advances(at) == [type : {"AutoAdvance"}, event : {"QuestionTimeout"}, session : AutoDue(at)]

TickEvents(at) == Timeouts(at) \cup Updates(at) \cup Advances(at)

(* Mutant: the next update is stored, not the last one.                  *)
TickStoresNext(at) ==
  /\ deadlines' = Erase(deadlines, Expired(at))
  /\ last_updates' =
       [s \in (DOMAIN last_updates \cup UpdateDue(at)) \ Expired(at) |->
          IF s \in UpdateDue(at) THEN at + UpdateInterval * TicksPerMs ELSE last_updates[s]]
  /\ auto_advance_deadlines' = Erase(auto_advance_deadlines, AutoDue(at))

Tick(at) ==
  /\ deadlines' = Erase(deadlines, Expired(at))
  /\ last_updates' =
       [s \in (DOMAIN last_updates \cup UpdateDue(at)) \ Expired(at) |->
          IF s \in UpdateDue(at) THEN at ELSE last_updates[s]]
  /\ auto_advance_deadlines' = Erase(auto_advance_deadlines, AutoDue(at))
=============================================================================
