\* Two options, limits to 3 ms, times from before 0 to past the limit.
CONSTANTS
  IntLimit = 256
  MaxOptions = 2
  MaxLimit = 3
  Times <- ReportedTimes
SPECIFICATION CasesSpec
INVARIANTS CorrectIffPermutation FasterEarnsMore PointsInRange
