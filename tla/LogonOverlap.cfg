SPECIFICATION Spec
CONSTANTS
  t1 = t1
  t2 = t2
  QrThreads = {t1, t2}
  Game = Game
  MaxPolls = 0
  Allowed <- MCOverlap
  NoLogin = NoLogin
  SavedLogin = SavedLogin
SYMMETRY MCSymmetry
INVARIANTS
  OverlayOwned
  SessionReady
  ConnectHasAddress
