\* docs/about.md:23 against a stale AutoAdvance event.
CONSTANTS
  IntLimit = 1024
  Threads = {w, ticker}
  Ticker = ticker
  PlayerIds = {h}
  Pins = {pin}
  Delays = {1}
  Never = Never
  MaxPlayersPerSession = 2
  QuizDrafts <- TwoQuestions
  MaxQuizzes = 1
  Answers <- NoAnswers
  ReconnectTimeout = 1
  UpdateInterval = 1
  Droppers = {}
  MaxSessions = 1
  MaxTime = 0
SPECIFICATION ServerSpec
PROPERTIES TickerWaitsForDeadline
