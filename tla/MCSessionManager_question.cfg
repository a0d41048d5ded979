\* docs/about.md:40 against broadcasts sent after the unlock.
CONSTANTS
  IntLimit = 1024
  Threads = {t1, t2}
  PlayerIds = {h}
  Pins = {pin}
  Delays = {0}
  Never = Never
  MaxPlayersPerSession = 2
  QuizDrafts <- Drafts
  MaxQuizzes = 1
  Answers <- NoAnswers
  ReconnectTimeout = 1
  Droppers = {}
  MaxSessions = 1
  MaxTime = 0
SPECIFICATION ManagerSpec
INVARIANTS ClientsSeeCurrentQuestion
