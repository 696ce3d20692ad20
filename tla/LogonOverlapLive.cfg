SPECIFICATION FairSpec
CONSTANTS
  t1 = t1
  t2 = t2
  QrThreads = {t1, t2}
  Game = Game
  MaxPolls = 1
  Allowed <- MCOverlapLive
  NoLogin = NoLogin
  SavedLogin = SavedLogin
PROPERTY
  SessionEnds
CHECK_DEADLOCK FALSE
