SPECIFICATION Spec
CONSTANTS
  t1 = t1
  t2 = t2
  QrThreads = {t1}
  Game = Game
  MaxPolls = 1
  Allowed <- MCOrdered
  NoLogin = NoLogin
  SavedLogin = SavedLogin
PROPERTY
  OneAnswerPerLogOn
CHECK_DEADLOCK FALSE
