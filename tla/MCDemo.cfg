\* One game, two workers, a host and a player; all threads run to the end.
CONSTANTS
  IntLimit = 1024
  h = h
  p = p
  Threads = {w1, w2}
  Games <- LongGame
  DemoQuizzes <- ThreeQuizzes
  HostOf <- Hosts
  Names = 1
  DemoIds <- OneId
  UpdateInterval = 1
  PlayerIds = {h, p}
  Pins = {pin}
  Delays = {0}
  Never = Never
  MaxPlayersPerSession = 2
  QuizDrafts <- Drafts
  MaxQuizzes = 3
  Answers <- Right
  ReconnectTimeout = 1
  Droppers = {}
  MaxSessions = 1
  MaxTime = 1
SPECIFICATION DemoFairSpec
INVARIANTS DemoTypeOK NoLostWakeup DummyNeverRuns AnswersAreOfPlayers
PROPERTIES DemoEnds
CHECK_DEADLOCK FALSE
