\* Connections break and come back in two sessions; the game itself is short.
CONSTANTS
  IntLimit = 1024
  Threads = {t1}
  PlayerIds = {h}
  Pins = {pin}
  Delays = {0}
  Never = Never
  MaxPlayersPerSession = 2
  QuizDrafts <- OneQuestionDrafts
  MaxQuizzes = 1
  Answers <- NoAnswers
  ReconnectTimeout = 2
  Droppers = {h}
  MaxSessions = 2
  MaxTime = 3
SPECIFICATION ManagerFairSpec
PROPERTIES CleanupSparesTheRecent GoneAreRemoved
