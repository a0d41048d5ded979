\* One session, two players besides the races: every operation of the game.
CONSTANTS
  IntLimit = 1024
  Threads = {t1, t2}
  PlayerIds = {h, p}
  Pins = {pin}
  Delays = {0}
  Never = Never
  MaxPlayersPerSession = 2
  QuizDrafts <- Drafts
  MaxQuizzes = 1
  Answers <- TwoAnswers
  ReconnectTimeout = 1
  Droppers = {}
  MaxSessions = 1
  MaxTime = 0
SPECIFICATION ManagerSpec
SYMMETRY ThreadSymmetry
VIEW GameView
INVARIANTS TypeOK QuestionInRange OneAnswerPerQuestion ScoreIsSumOfAnswers FinalStandings
PROPERTIES GameOnlyMovesForward ImplementsGame
