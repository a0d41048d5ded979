\* Every operation of the server, one player who comes and goes; fairness.
CONSTANTS
  IntLimit = 1024
  Threads = {w, ticker}
  Ticker = ticker
  PlayerIds = {h}
  Pins = {pin}
  Delays = {0, 1}
  Never = Never
  MaxPlayersPerSession = 2
  QuizDrafts <- TwoQuestions
  MaxQuizzes = 1
  Answers <- OneAnswer
  ReconnectTimeout = 1
  UpdateInterval = 1
  Droppers = {h}
  MaxSessions = 1
  MaxTime = 1
SPECIFICATION ServerFairSpec
PROPERTIES AutoAdvanceFinishes EveryQuestionExpires TimersEndWithGame
