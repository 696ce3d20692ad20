SPECIFICATION Spec
CONSTANTS
  t1 = t1
  t2 = t2
  QrThreads = {t1, t2}
  Game = Game
  MaxPolls = 2
  Allowed <- MCOrdered
  NoLogin = NoLogin
  SavedLogin = SavedLogin
SYMMETRY MCSymmetry
INVARIANTS
  TypeOK
  SuccessMeansSignedIn
  AuthFileWhole
  RefusedTokenNotOffered
  LogonMessageWhole
  DrawnIsLoaded
PROPERTY
  CancelEndsSession
CHECK_DEADLOCK FALSE
