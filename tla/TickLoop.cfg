\* Two sessions, half-millisecond clock ticks.
CONSTANTS
  TimedSessions = {s1, s2}
  TicksPerMs = 2
  UpdateInterval = 1
  MaxTime = 3
SPECIFICATION LoopSpec
INVARIANTS LoopTypeOK UpdatesOnlyWhileArmed
PROPERTIES TimeoutWithinMillisecond AdvanceNeverEarly EveryTimerEnds
