\* Two workers, the ticker and the clock; quizzes of two questions.
CONSTANTS
  IntLimit = 1024
  Threads = {w1, w2, ticker}
  Ticker = ticker
  PlayerIds = {h}
  Pins = {pin}
  Delays <- OffAndOn
  Never = Never
  MaxPlayersPerSession = 2
  QuizDrafts <- ShorterOrLonger
  MaxQuizzes = 1
  Answers <- NoAnswers
  ReconnectTimeout = 1
  UpdateInterval = 1
  Droppers = {}
  MaxSessions = 1
  MaxTime = 0
SPECIFICATION ServerSpec
INVARIANTS ServerTypeOK TimerNotLost LobbyIsQuiet ArmedWithinLimits
