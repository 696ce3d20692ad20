SPECIFICATION FairSpec
CONSTANTS
  t1 = t1
  t2 = t2
  QrThreads = {t1, t2}
  Game = Game
  MaxPolls = 1
  Allowed <- MCLive
  NoLogin = NoLogin
  SavedLogin = SavedLogin
PROPERTIES
  AnswerArrives
  OverlayCloses
  SessionEnds
CHECK_DEADLOCK FALSE
