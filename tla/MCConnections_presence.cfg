\* Two connections, a host and one who joins; connections break in every way.
CONSTANTS
  IntLimit = 1024
  h = h
  e = e
  Nameless = e
  p = p
  Threads = {c1, c2}
  PlayerIds = {h, e, p}
  HostIds = {h, e}
  GeneratedIds <- OneJoin
  Pins = {pin}
  Delays = {0}
  Never = Never
  MaxPlayersPerSession = 2
  QuizDrafts <- OneQuestion
  MaxQuizzes = 1
  Answers <- Right
  ReconnectTimeout = 0
  Droppers = {}
  MaxSessions = 1
  MaxTime = 100
SPECIFICATION ConnectionSpec
SYMMETRY ThreadSymmetry
VIEW LinkView
INVARIANTS ConnectionTypeOK NoGhosts RegistryIsCurrent SoleConnectionReachable
CHECK_DEADLOCK FALSE
